------------------------ MODULE AgentProcessesProofs ------------------------
(***************************************************************************)
(* Proofs about AgentProcesses, for any number of agents that are killed   *)
(* one after the other, the orphans of all of them alive at once.          *)
(*                                                                         *)
(* What holds in the middle of an operation depends on what is left to do  *)
(* of it.  OnPath says that `todo' is the rest of one of the three paths,  *)
(* its first instruction perhaps the wait of a terminate_group that has    *)
(* begun; Within(code, n) that n or fewer instructions are left of the     *)
(* path that ends with code.  The other conjuncts state what the agent has *)
(* achieved by then:                                                       *)
(*   GroupsInv   a group that is waited for is the agent's own, and one    *)
(*               that is reaped has no process that could fork any more;   *)
(*   LeaseInv    whether a copy of the lease is open;                      *)
(*   DisplayInv  a lock that is about to be removed was seen stale;        *)
(*   InputInv    input.env is no older than the unlink.                    *)
(***************************************************************************)
EXTENDS AgentProcesses, TLAPS

Path == {CleanupPath, PreparePath, StartPath}

Codes == {"term", "grace", "reap", "close", "unlink", "fork_test", "poll", "window", "final",
          "fork_bridge", "await", "lock", "clear", "xauth", "ready", "mode", "fork_xorg",
          "startup", "desktop"}

Instruction == [do : Codes, of : Group \cup {"none"}]

\* The wait of a terminate_group that has begun stands for its instruction.
Stands(i, j) == i = j \/ (j.do = "term" /\ i.do \in {"grace", "reap"} /\ i.of = j.of)

\* s is what is left of the path p.
Rest(s, p) ==
  /\ Len(s) \in 1 .. Len(p)
  /\ Stands(s[1], p[Len(p) - Len(s) + 1])
  /\ \A i \in 2 .. Len(s) : s[i] = p[Len(p) - Len(s) + i]

\* s is what an agent can have to do.
Placed(s) ==
  /\ s \in Seq(Instruction)
  /\ s = <<>> \/ \E p \in Path : Rest(s, p)

OnPath == Placed(todo)

\* n or fewer instructions are left of the operation that ends with code.
In(s, code, n) == s # <<>> /\ s[Len(s)].do = code /\ Len(s) <= n
Within(code, n) == In(todo, code, n)

\* A group that is waited for is the agent's own, and one that is about to be
\* reaped has no process left that could start another.
GroupsInv ==
  /\ GroupGone /\ PidsOwned
  /\ todo # <<>> /\ todo[1].do \in {"grace", "reap"} => todo[1].of \in known
  /\ todo # <<>> /\ todo[1].do = "reap" =>
       leader[todo[1].of] # "running" /\ kin[todo[1].of] # "running"

\* Where on its path an agent can have a copy of the lease open.
LeaseInv ==
  /\ todo = <<>> /\ "xorg" \notin known => fds = 0
  /\ Within("ready", 14) => fds = 0
  /\ Within("unlink", 2) => fds = 0
  /\ Within("desktop", 4) => (fds = 0 \/ Within("desktop", 2))
  /\ Within("desktop", 2) => "xorg" \in known

\* The X server that has the display is the one in the lock; a lock that is about
\* to be removed was read as nobody's.
DisplayInv ==
  /\ ~raced => \A a \in serving : lock = a
  /\ todo # <<>> /\ todo[1].do = "clear" => seen \in {"none", "dead"}

\* From the unlink of prepare_session on, input.env is no earlier agent's.
InputInv ==
  /\ Within("ready", 10) => env # "former"
  /\ paths # "former"

AgentInv == OnPath /\ TypeOK /\ GroupsInv /\ LeaseInv /\ DisplayInv /\ InputInv

----------------------------------------------------------------------------
(* Paths.                                                                  *)

\* An instruction's code and group.
LEMMA Fields ==
  /\ \A code : Do(code).do = code
  /\ \A g : Term(g).do = "term" /\ Term(g).of = g
BY DEF Do, Term

\* cleanup_session, instruction by instruction.
LEMMA CleanupCode ==
  LET p == CleanupPath
  IN  /\ p \in Seq(Instruction) /\ Len(p) = 5
      /\ p[1] = Term("session") /\ p[2] = Term("xorg") /\ p[3] = Do("close")
      /\ p[4] = Term("bridge") /\ p[5] = Do("unlink")
<1>1. /\ Term("session") \in Instruction /\ Term("xorg") \in Instruction /\ Term("bridge") \in Instruction
      /\ Do("close") \in Instruction /\ Do("unlink") \in Instruction
  BY DEF Term, Do, Instruction, Codes, Group
<1>2. CleanupPath \in Seq(Instruction)
  BY <1>1 DEF CleanupPath
<1> QED
  BY <1>2 DEF CleanupPath

\* prepare_session, instruction by instruction.
LEMMA PrepareCode ==
  LET p == PreparePath
  IN  /\ p \in Seq(Instruction) /\ Len(p) = 14
      /\ p[1] = Term("session") /\ p[2] = Term("xorg") /\ p[3] = Term("bridge")
      /\ p[4] = Do("unlink") /\ p[5] = Do("fork_test") /\ p[6] = Do("poll")
      /\ p[7] = Do("window") /\ p[8] = Do("final") /\ p[9] = Do("fork_bridge")
      /\ p[10] = Do("await") /\ p[11] = Do("lock") /\ p[12] = Do("clear")
      /\ p[13] = Do("xauth") /\ p[14] = Do("ready")
<1>1. /\ Term("session") \in Instruction /\ Term("xorg") \in Instruction /\ Term("bridge") \in Instruction
      /\ Do("unlink") \in Instruction /\ Do("fork_test") \in Instruction /\ Do("poll") \in Instruction
      /\ Do("window") \in Instruction /\ Do("final") \in Instruction /\ Do("fork_bridge") \in Instruction
      /\ Do("await") \in Instruction /\ Do("lock") \in Instruction /\ Do("clear") \in Instruction
      /\ Do("xauth") \in Instruction /\ Do("ready") \in Instruction
  BY DEF Term, Do, Instruction, Codes, Group
<1>2. PreparePath \in Seq(Instruction)
  BY <1>1 DEF PreparePath
<1> QED
  BY <1>2 DEF PreparePath

\* start_xorg, instruction by instruction.
LEMMA StartCode ==
  LET p == StartPath
  IN  /\ p \in Seq(Instruction) /\ Len(p) = 4
      /\ p[1] = Do("mode") /\ p[2] = Do("fork_xorg") /\ p[3] = Do("startup") /\ p[4] = Do("desktop")
<1>1. /\ Do("mode") \in Instruction /\ Do("fork_xorg") \in Instruction
      /\ Do("startup") \in Instruction /\ Do("desktop") \in Instruction
  BY DEF Do, Instruction, Codes
<1>2. StartPath \in Seq(Instruction)
  BY <1>1 DEF StartPath
<1> QED
  BY <1>2 DEF StartPath

\* What is left of a path ends as the path does.
LEMMA RestEnds ==
  ASSUME NEW s \in Seq(Instruction), NEW p \in Seq(Instruction), Rest(s, p), p[Len(p)].do # "term"
  PROVE  s[Len(s)] = p[Len(p)]
<1>1. Len(s) \in Nat /\ Len(p) \in Nat /\ Len(s) >= 1
  BY DEF Rest
<1>2. CASE Len(s) = 1
  <2>1. Len(p) - Len(s) + 1 = Len(p)
    BY <1>1, <1>2
  <2> QED
    BY <2>1, <1>2 DEF Rest, Stands
<1>3. CASE Len(s) # 1
  <2>1. \A n, m \in Nat : n >= 1 /\ n # 1 => n \in 2 .. n /\ m - n + n = m
    OBVIOUS
  <2>2. Len(s) \in 2 .. Len(s) /\ Len(p) - Len(s) + Len(s) = Len(p)
    BY <2>1, <1>1, <1>3, Zenon
  <2> QED
    BY <2>2, Zenon DEF Rest
<1> QED
  BY <1>2, <1>3

\* What is left of a cleanup tells how far it is.
LEMMA CleanupWhere ==
  ASSUME NEW s \in Seq(Instruction), Rest(s, CleanupPath)
  PROVE  /\ s[Len(s)].do = "unlink"
         /\ \/ Len(s) = 5 /\ Stands(s[1], Term("session"))
            \/ Len(s) = 4 /\ Stands(s[1], Term("xorg"))
            \/ Len(s) = 3 /\ Stands(s[1], Do("close"))
            \/ Len(s) = 2 /\ Stands(s[1], Term("bridge"))
            \/ Len(s) = 1 /\ Stands(s[1], Do("unlink"))
<1>1. PICK p : p = CleanupPath
  OBVIOUS
<1>2. Rest(s, p)
  BY <1>1, Zenon
<1>3. /\ Len(p) = 5
      /\ p[1] = Term("session") /\ p[2] = Term("xorg") /\ p[3] = Do("close")
      /\ p[4] = Term("bridge") /\ p[5] = Do("unlink")
  BY <1>1, CleanupCode, Zenon
<1>4. Len(s) = 5 \/ Len(s) = 4 \/ Len(s) = 3 \/ Len(s) = 2 \/ Len(s) = 1
  BY <1>2, <1>3 DEF Rest
<1>5. Stands(s[1], p[5 - Len(s) + 1])
  BY <1>2, <1>3, Zenon DEF Rest
<1>6. s[Len(s)].do = "unlink"
  <2>1. p \in Seq(Instruction)
    BY <1>1, CleanupCode, Zenon
  <2>2. p[Len(p)].do = "unlink"
    BY <1>3, Fields, Zenon
  <2> QED
    BY <2>1, <2>2, <1>2, RestEnds
<1>7. \/ Len(s) = 5 /\ Stands(s[1], Term("session"))
      \/ Len(s) = 4 /\ Stands(s[1], Term("xorg"))
      \/ Len(s) = 3 /\ Stands(s[1], Do("close"))
      \/ Len(s) = 2 /\ Stands(s[1], Term("bridge"))
      \/ Len(s) = 1 /\ Stands(s[1], Do("unlink"))
  <2>1. CASE Len(s) = 5
    <3>1. 5 - Len(s) + 1 = 1
      BY <2>1
    <3> QED
      BY <3>1, <2>1, <1>3, <1>5, Zenon
  <2>2. CASE Len(s) = 4
    <3>1. 5 - Len(s) + 1 = 2
      BY <2>2
    <3> QED
      BY <3>1, <2>2, <1>3, <1>5, Zenon
  <2>3. CASE Len(s) = 3
    <3>1. 5 - Len(s) + 1 = 3
      BY <2>3
    <3> QED
      BY <3>1, <2>3, <1>3, <1>5, Zenon
  <2>4. CASE Len(s) = 2
    <3>1. 5 - Len(s) + 1 = 4
      BY <2>4
    <3> QED
      BY <3>1, <2>4, <1>3, <1>5, Zenon
  <2>5. CASE Len(s) = 1
    <3>1. 5 - Len(s) + 1 = 5
      BY <2>5
    <3> QED
      BY <3>1, <2>5, <1>3, <1>5, Zenon
  <2> QED
    BY <1>4, <2>1, <2>2, <2>3, <2>4, <2>5
<1> QED
  BY <1>6, <1>7

\* What is left of a preparation tells how far it is.
LEMMA PrepareWhere ==
  ASSUME NEW s \in Seq(Instruction), Rest(s, PreparePath)
  PROVE  /\ s[Len(s)].do = "ready"
         /\ \/ Len(s) = 14 /\ Stands(s[1], Term("session"))
            \/ Len(s) = 13 /\ Stands(s[1], Term("xorg"))
            \/ Len(s) = 12 /\ Stands(s[1], Term("bridge"))
            \/ Len(s) = 11 /\ Stands(s[1], Do("unlink"))
            \/ Len(s) = 10 /\ Stands(s[1], Do("fork_test"))
            \/ Len(s) = 9 /\ Stands(s[1], Do("poll"))
            \/ Len(s) = 8 /\ Stands(s[1], Do("window"))
            \/ Len(s) = 7 /\ Stands(s[1], Do("final"))
            \/ Len(s) = 6 /\ Stands(s[1], Do("fork_bridge"))
            \/ Len(s) = 5 /\ Stands(s[1], Do("await"))
            \/ Len(s) = 4 /\ Stands(s[1], Do("lock"))
            \/ Len(s) = 3 /\ Stands(s[1], Do("clear"))
            \/ Len(s) = 2 /\ Stands(s[1], Do("xauth"))
            \/ Len(s) = 1 /\ Stands(s[1], Do("ready"))
<1>1. PICK p : p = PreparePath
  OBVIOUS
<1>2. Rest(s, p)
  BY <1>1, Zenon
<1>3. /\ Len(p) = 14
      /\ p[1] = Term("session") /\ p[2] = Term("xorg") /\ p[3] = Term("bridge")
      /\ p[4] = Do("unlink") /\ p[5] = Do("fork_test") /\ p[6] = Do("poll")
      /\ p[7] = Do("window") /\ p[8] = Do("final") /\ p[9] = Do("fork_bridge")
      /\ p[10] = Do("await") /\ p[11] = Do("lock") /\ p[12] = Do("clear")
      /\ p[13] = Do("xauth") /\ p[14] = Do("ready")
  BY <1>1, PrepareCode, Zenon
<1>4. \/ Len(s) = 14 \/ Len(s) = 13 \/ Len(s) = 12 \/ Len(s) = 11 \/ Len(s) = 10 \/ Len(s) = 9 \/ Len(s) = 8
      \/ Len(s) = 7 \/ Len(s) = 6 \/ Len(s) = 5 \/ Len(s) = 4 \/ Len(s) = 3 \/ Len(s) = 2 \/ Len(s) = 1
  BY <1>2, <1>3 DEF Rest
<1>5. Stands(s[1], p[14 - Len(s) + 1])
  BY <1>2, <1>3, Zenon DEF Rest
<1>6. s[Len(s)].do = "ready"
  <2>1. p \in Seq(Instruction)
    BY <1>1, PrepareCode, Zenon
  <2>2. p[Len(p)].do = "ready"
    BY <1>3, Fields, ZenonT(60)
  <2> QED
    BY <2>1, <2>2, <1>2, RestEnds
<1>7. \/ Len(s) = 14 /\ Stands(s[1], Term("session"))
      \/ Len(s) = 13 /\ Stands(s[1], Term("xorg"))
      \/ Len(s) = 12 /\ Stands(s[1], Term("bridge"))
      \/ Len(s) = 11 /\ Stands(s[1], Do("unlink"))
      \/ Len(s) = 10 /\ Stands(s[1], Do("fork_test"))
      \/ Len(s) = 9 /\ Stands(s[1], Do("poll"))
      \/ Len(s) = 8 /\ Stands(s[1], Do("window"))
      \/ Len(s) = 7 /\ Stands(s[1], Do("final"))
      \/ Len(s) = 6 /\ Stands(s[1], Do("fork_bridge"))
      \/ Len(s) = 5 /\ Stands(s[1], Do("await"))
      \/ Len(s) = 4 /\ Stands(s[1], Do("lock"))
      \/ Len(s) = 3 /\ Stands(s[1], Do("clear"))
      \/ Len(s) = 2 /\ Stands(s[1], Do("xauth"))
      \/ Len(s) = 1 /\ Stands(s[1], Do("ready"))
  <2>1. CASE Len(s) = 14
    <3>1. 14 - Len(s) + 1 = 1
      BY <2>1
    <3> QED
      BY <3>1, <2>1, <1>3, <1>5, Zenon
  <2>2. CASE Len(s) = 13
    <3>1. 14 - Len(s) + 1 = 2
      BY <2>2
    <3> QED
      BY <3>1, <2>2, <1>3, <1>5, Zenon
  <2>3. CASE Len(s) = 12
    <3>1. 14 - Len(s) + 1 = 3
      BY <2>3
    <3> QED
      BY <3>1, <2>3, <1>3, <1>5, Zenon
  <2>4. CASE Len(s) = 11
    <3>1. 14 - Len(s) + 1 = 4
      BY <2>4
    <3> QED
      BY <3>1, <2>4, <1>3, <1>5, Zenon
  <2>5. CASE Len(s) = 10
    <3>1. 14 - Len(s) + 1 = 5
      BY <2>5
    <3> QED
      BY <3>1, <2>5, <1>3, <1>5, Zenon
  <2>6. CASE Len(s) = 9
    <3>1. 14 - Len(s) + 1 = 6
      BY <2>6
    <3> QED
      BY <3>1, <2>6, <1>3, <1>5, Zenon
  <2>7. CASE Len(s) = 8
    <3>1. 14 - Len(s) + 1 = 7
      BY <2>7
    <3> QED
      BY <3>1, <2>7, <1>3, <1>5, Zenon
  <2>8. CASE Len(s) = 7
    <3>1. 14 - Len(s) + 1 = 8
      BY <2>8
    <3> QED
      BY <3>1, <2>8, <1>3, <1>5, Zenon
  <2>9. CASE Len(s) = 6
    <3>1. 14 - Len(s) + 1 = 9
      BY <2>9
    <3> QED
      BY <3>1, <2>9, <1>3, <1>5, Zenon
  <2>10. CASE Len(s) = 5
    <3>1. 14 - Len(s) + 1 = 10
      BY <2>10
    <3> QED
      BY <3>1, <2>10, <1>3, <1>5, Zenon
  <2>11. CASE Len(s) = 4
    <3>1. 14 - Len(s) + 1 = 11
      BY <2>11
    <3> QED
      BY <3>1, <2>11, <1>3, <1>5, Zenon
  <2>12. CASE Len(s) = 3
    <3>1. 14 - Len(s) + 1 = 12
      BY <2>12
    <3> QED
      BY <3>1, <2>12, <1>3, <1>5, Zenon
  <2>13. CASE Len(s) = 2
    <3>1. 14 - Len(s) + 1 = 13
      BY <2>13
    <3> QED
      BY <3>1, <2>13, <1>3, <1>5, Zenon
  <2>14. CASE Len(s) = 1
    <3>1. 14 - Len(s) + 1 = 14
      BY <2>14
    <3> QED
      BY <3>1, <2>14, <1>3, <1>5, Zenon
  <2> QED
    BY <1>4, <2>1, <2>2, <2>3, <2>4, <2>5, <2>6, <2>7, <2>8, <2>9, <2>10, <2>11, <2>12, <2>13, <2>14, Zenon
<1> QED
  BY <1>6, <1>7

\* What is left of a start tells how far it is.
LEMMA StartWhere ==
  ASSUME NEW s \in Seq(Instruction), Rest(s, StartPath)
  PROVE  /\ s[Len(s)].do = "desktop"
         /\ \/ Len(s) = 4 /\ Stands(s[1], Do("mode"))
            \/ Len(s) = 3 /\ Stands(s[1], Do("fork_xorg"))
            \/ Len(s) = 2 /\ Stands(s[1], Do("startup"))
            \/ Len(s) = 1 /\ Stands(s[1], Do("desktop"))
<1>1. PICK p : p = StartPath
  OBVIOUS
<1>2. Rest(s, p)
  BY <1>1, Zenon
<1>3. /\ Len(p) = 4
      /\ p[1] = Do("mode") /\ p[2] = Do("fork_xorg") /\ p[3] = Do("startup") /\ p[4] = Do("desktop")
  BY <1>1, StartCode, Zenon
<1>4. Len(s) = 4 \/ Len(s) = 3 \/ Len(s) = 2 \/ Len(s) = 1
  BY <1>2, <1>3 DEF Rest
<1>5. Stands(s[1], p[4 - Len(s) + 1])
  BY <1>2, <1>3, Zenon DEF Rest
<1>6. s[Len(s)].do = "desktop"
  <2>1. p \in Seq(Instruction)
    BY <1>1, StartCode, Zenon
  <2>2. p[Len(p)].do = "desktop"
    BY <1>3, Fields, Zenon
  <2> QED
    BY <2>1, <2>2, <1>2, RestEnds
<1>7. \/ Len(s) = 4 /\ Stands(s[1], Do("mode"))
      \/ Len(s) = 3 /\ Stands(s[1], Do("fork_xorg"))
      \/ Len(s) = 2 /\ Stands(s[1], Do("startup"))
      \/ Len(s) = 1 /\ Stands(s[1], Do("desktop"))
  <2>1. CASE Len(s) = 4
    <3>1. 4 - Len(s) + 1 = 1
      BY <2>1
    <3> QED
      BY <3>1, <2>1, <1>3, <1>5, Zenon
  <2>2. CASE Len(s) = 3
    <3>1. 4 - Len(s) + 1 = 2
      BY <2>2
    <3> QED
      BY <3>1, <2>2, <1>3, <1>5, Zenon
  <2>3. CASE Len(s) = 2
    <3>1. 4 - Len(s) + 1 = 3
      BY <2>3
    <3> QED
      BY <3>1, <2>3, <1>3, <1>5, Zenon
  <2>4. CASE Len(s) = 1
    <3>1. 4 - Len(s) + 1 = 4
      BY <2>4
    <3> QED
      BY <3>1, <2>4, <1>3, <1>5, Zenon
  <2> QED
    BY <1>4, <2>1, <2>2, <2>3, <2>4
<1> QED
  BY <1>6, <1>7

\* Exactly n instructions are left of an operation that ends with code.
Left(s, code, n) == s # <<>> /\ s[Len(s)].do = code /\ Len(s) = n

\* In terminate_group, of either path.
Terminating(s) ==
  /\ s[1].of \in Group
  /\ \/ Left(s, "unlink", 5) \/ Left(s, "unlink", 4) \/ Left(s, "unlink", 2)
     \/ Left(s, "ready", 14) \/ Left(s, "ready", 13) \/ Left(s, "ready", 12)

\* The instruction that is next tells where the agent is, and the other way
\* round.
Whereabouts(s) ==
  /\ s[1].do \in {"term", "grace", "reap"} => Terminating(s)
  /\ s[1].do = "close" => Left(s, "unlink", 3)
  /\ s[1].do = "unlink" => Left(s, "unlink", 1) \/ Left(s, "ready", 11)
  /\ s[1].do = "fork_test" => Left(s, "ready", 10)
  /\ s[1].do = "poll" => Left(s, "ready", 9)
  /\ s[1].do = "window" => Left(s, "ready", 8)
  /\ s[1].do = "final" => Left(s, "ready", 7)
  /\ s[1].do = "fork_bridge" => Left(s, "ready", 6)
  /\ s[1].do = "await" => Left(s, "ready", 5)
  /\ s[1].do = "lock" => Left(s, "ready", 4)
  /\ s[1].do = "clear" => Left(s, "ready", 3)
  /\ s[1].do = "xauth" => Left(s, "ready", 2)
  /\ s[1].do = "ready" => Left(s, "ready", 1)
  /\ s[1].do = "mode" => Left(s, "desktop", 4)
  /\ s[1].do = "fork_xorg" => Left(s, "desktop", 3)
  /\ s[1].do = "startup" => Left(s, "desktop", 2)
  /\ s[1].do = "desktop" => Left(s, "desktop", 1)

Thereabouts(s) ==
  /\ s[Len(s)].do \in {"unlink", "ready", "desktop"}
  /\ s[Len(s)].do = "ready" => Len(s) <= 14
  /\ s[Len(s)].do = "desktop" => Len(s) <= 4
  /\ Left(s, "ready", 11) => s[1].do = "unlink"
  /\ Left(s, "ready", 4) => s[1].do = "lock"
  /\ Left(s, "unlink", 3) => s[1].do = "close"
  /\ Left(s, "desktop", 3) => s[1].do = "fork_xorg"

\* A wait stands for its terminate_group only.
LEMMA StandsFor ==
  ASSUME NEW i
  PROVE  /\ \A code : code # "term" /\ Stands(i, Do(code)) => i.do = code
         /\ \A g : Stands(i, Term(g)) => i.do \in {"term", "grace", "reap"} /\ i.of = g
BY DEF Stands, Do, Term

\* Every instruction has its place on the paths.
LEMMA Places == ASSUME NEW s, Placed(s), s # <<>> PROVE Whereabouts(s) /\ Thereabouts(s)
<1>1. PICK p \in Path : Rest(s, p)
  BY Zenon DEF Placed
<1>2. s \in Seq(Instruction)
  BY Zenon DEF Placed
<1>3. {"session", "xorg", "bridge"} = Group
  BY DEF Group
<1>4. PICK n, e, c : n = Len(s) /\ e = s[Len(s)].do /\ c = s[1].do
  OBVIOUS
<1>5. \A code, k : Left(s, code, k) => e = code /\ n = k
  BY <1>4, Zenon DEF Left
<1>6. c = s[1].do
  BY <1>4, Zenon
<1>7. CASE p = CleanupPath
  <2>1. /\ s[Len(s)].do = "unlink"
        /\ \/ Len(s) = 5 /\ s[1].do \in {"term", "grace", "reap"} /\ s[1].of = "session"
           \/ Len(s) = 4 /\ s[1].do \in {"term", "grace", "reap"} /\ s[1].of = "xorg"
           \/ Len(s) = 3 /\ s[1].do = "close"
           \/ Len(s) = 2 /\ s[1].do \in {"term", "grace", "reap"} /\ s[1].of = "bridge"
           \/ Len(s) = 1 /\ s[1].do = "unlink"
    BY <1>1, <1>2, <1>7, CleanupWhere, StandsFor
  <2>2. Whereabouts(s)
    BY <2>1, <1>3 DEF Whereabouts, Terminating, Left
  <2>3. Thereabouts(s)
    <3>1. e = "unlink" /\ (n = 5 \/ n = 4 \/ (n = 3 /\ c = "close") \/ n = 2 \/ n = 1)
      BY <2>1, <1>4, Zenon
    <3>2. e = "unlink" /\ (n = 3 => c = "close")
      BY <3>1
    <3> QED
      BY <3>2, <1>4, <1>5, <1>6 DEF Thereabouts
  <2> QED
    BY <2>2, <2>3
<1>8. CASE p = PreparePath
  <2>1. /\ s[Len(s)].do = "ready"
        /\ \/ Len(s) = 14 /\ s[1].do \in {"term", "grace", "reap"} /\ s[1].of = "session"
           \/ Len(s) = 13 /\ s[1].do \in {"term", "grace", "reap"} /\ s[1].of = "xorg"
           \/ Len(s) = 12 /\ s[1].do \in {"term", "grace", "reap"} /\ s[1].of = "bridge"
           \/ Len(s) = 11 /\ s[1].do = "unlink"
           \/ Len(s) = 10 /\ s[1].do = "fork_test"
           \/ Len(s) = 9 /\ s[1].do = "poll"
           \/ Len(s) = 8 /\ s[1].do = "window"
           \/ Len(s) = 7 /\ s[1].do = "final"
           \/ Len(s) = 6 /\ s[1].do = "fork_bridge"
           \/ Len(s) = 5 /\ s[1].do = "await"
           \/ Len(s) = 4 /\ s[1].do = "lock"
           \/ Len(s) = 3 /\ s[1].do = "clear"
           \/ Len(s) = 2 /\ s[1].do = "xauth"
           \/ Len(s) = 1 /\ s[1].do = "ready"
    BY <1>1, <1>2, <1>8, PrepareWhere, StandsFor
  <2>2. Whereabouts(s)
    BY <2>1, <1>3 DEF Whereabouts, Terminating, Left
  <2>3. Thereabouts(s)
    <3>1. /\ e = "ready"
          /\ \/ n = 14 \/ n = 13 \/ n = 12 \/ (n = 11 /\ c = "unlink") \/ n = 10 \/ n = 9 \/ n = 8 \/ n = 7
             \/ n = 6 \/ n = 5 \/ (n = 4 /\ c = "lock") \/ n = 3 \/ n = 2 \/ n = 1
      BY <2>1, <1>4, Zenon
    <3>2. e = "ready" /\ (n = 11 => c = "unlink") /\ (n = 4 => c = "lock") /\ n <= 14
      BY <3>1
    <3> QED
      BY <3>2, <1>4, <1>5, <1>6 DEF Thereabouts
  <2> QED
    BY <2>2, <2>3
<1>9. CASE p = StartPath
  <2>1. /\ s[Len(s)].do = "desktop"
        /\ \/ Len(s) = 4 /\ s[1].do = "mode"
           \/ Len(s) = 3 /\ s[1].do = "fork_xorg"
           \/ Len(s) = 2 /\ s[1].do = "startup"
           \/ Len(s) = 1 /\ s[1].do = "desktop"
    BY <1>1, <1>2, <1>9, StartWhere, StandsFor
  <2>2. Whereabouts(s)
    BY <2>1, <1>3 DEF Whereabouts, Terminating, Left
  <2>3. Thereabouts(s)
    <3>1. e = "desktop" /\ (n = 4 \/ (n = 3 /\ c = "fork_xorg") \/ n = 2 \/ n = 1)
      BY <2>1, <1>4, Zenon
    <3>2. e = "desktop" /\ (n = 3 => c = "fork_xorg") /\ n <= 4
      BY <3>1
    <3> QED
      BY <3>2, <1>4, <1>5, <1>6 DEF Thereabouts
  <2> QED
    BY <2>2, <2>3
<1> QED
  BY <1>7, <1>8, <1>9 DEF Path

\* The paths are sequences of instructions and wait for nobody before a
\* terminate_group has begun.
LEMMA Paths ==
  ASSUME NEW p \in Path
  PROVE  /\ p \in Seq(Instruction) /\ Len(p) \in Nat /\ Len(p) >= 1 /\ p[1].do # "clear"
         /\ \A i \in 1 .. Len(p) : p[i].do \notin {"grace", "reap"}
<1>1. CASE p = CleanupPath
  <2>1. \A i \in 1 .. 5 : i = 1 \/ i = 2 \/ i = 3 \/ i = 4 \/ i = 5
    OBVIOUS
  <2> QED
    BY <2>1, <1>1, CleanupCode DEF Term, Do
<1>2. CASE p = PreparePath
  <2>1. \A i \in 1 .. 14 : \/ i = 1 \/ i = 2 \/ i = 3 \/ i = 4 \/ i = 5 \/ i = 6 \/ i = 7
                           \/ i = 8 \/ i = 9 \/ i = 10 \/ i = 11 \/ i = 12 \/ i = 13 \/ i = 14
    OBVIOUS
  <2> QED
    BY <2>1, <1>2, PrepareCode DEF Term, Do
<1>3. CASE p = StartPath
  <2>1. \A i \in 1 .. 4 : i = 1 \/ i = 2 \/ i = 3 \/ i = 4
    OBVIOUS
  <2> QED
    BY <2>1, <1>3, StartCode DEF Do
<1> QED
  BY <1>1, <1>2, <1>3 DEF Path

\* The tail of a sequence.
LEMMA Tails ==
  ASSUME NEW s \in Seq(Instruction), s # <<>>
  PROVE  /\ Tail(s) \in Seq(Instruction) /\ Len(Tail(s)) = Len(s) - 1 /\ Len(s) \in Nat /\ Len(s) >= 1
         /\ \A i \in 1 .. Len(s) - 1 : Tail(s)[i] = s[i + 1]
<1>1. Tail(s) \in Seq(Instruction) /\ Len(Tail(s)) = Len(s) - 1
  OBVIOUS
<1>2. Len(s) \in Nat /\ Len(s) >= 1
  OBVIOUS
<1>3. \A i \in 1 .. Len(s) - 1 : Tail(s)[i] = s[i + 1]
  OBVIOUS
<1> QED
  BY <1>1, <1>2, <1>3

\* Only the last instruction leaves nothing to do.
LEMMA NothingLeft ==
  ASSUME NEW s \in Seq(Instruction), Len(s) = 0
  PROVE  s = <<>>
OBVIOUS

\* A path with instructions left is not empty.
LEMMA SomethingLeft ==
  ASSUME NEW s \in Seq(Instruction), Len(s) # 0
  PROVE  s # <<>>
OBVIOUS

\* One instruction further, the same path is left.
LEMMA RestTail ==
  ASSUME NEW s \in Seq(Instruction), NEW p \in Path, Rest(s, p), s # <<>>
  PROVE  Tail(s) = <<>> \/ Rest(Tail(s), p)
<1>1. PICK n \in Nat, m \in Nat : n = Len(s) /\ m = Len(p)
  BY Paths, Tails
<1>2. n \in 1 .. m /\ \A i \in 2 .. n : s[i] = p[m - n + i]
  BY <1>1, Zenon DEF Rest
<1>3. CASE n = 1
  <2>1. Tail(s) \in Seq(Instruction) /\ Len(Tail(s)) = n - 1
    BY <1>1, Tails, Zenon
  <2>2. n - 1 = 0
    BY <1>3
  <2> QED
    BY <2>1, <2>2, NothingLeft, Zenon
<1>4. CASE n # 1
  <2>1. PICK t \in Seq(Instruction) : t = Tail(s) /\ Len(t) = n - 1 /\ \A i \in 1 .. n - 1 : t[i] = s[i + 1]
    BY <1>1, Tails, Zenon
  <2>2. n - 1 \in 1 .. m
    BY <1>2, <1>4
  <2>3. \A i \in 1 .. n - 1 : t[i] = p[m - (n - 1) + i]
    <3>1. TAKE i \in 1 .. n - 1
    <3>2. i + 1 \in 2 .. n /\ m - n + (i + 1) = m - (n - 1) + i
      OBVIOUS
    <3> QED
      BY <3>2, <2>1, <1>2
  <2>4. 1 \in 1 .. n - 1 /\ \A i \in 2 .. n - 1 : i \in 1 .. n - 1
    BY <1>2, <1>4
  <2>5. Stands(t[1], p[m - (n - 1) + 1])
    BY <2>3, <2>4, Zenon DEF Stands
  <2>6. \A i \in 2 .. n - 1 : t[i] = p[m - (n - 1) + i]
    BY <2>3, <2>4, Zenon
  <2>7. Rest(t, p)
    BY <2>1, <2>2, <2>5, <2>6, <1>1, Zenon DEF Rest
  <2> QED
    BY <2>1, <2>7, Zenon
<1> QED
  BY <1>3, <1>4

\* The operation goes on.
LEMMA Advance ==
  ASSUME NEW s, Placed(s), s # <<>>
  PROVE  /\ Placed(Tail(s)) /\ Len(Tail(s)) = Len(s) - 1 /\ Len(s) \in Nat /\ Len(s) >= 1
         /\ Tail(s) # <<>> => Tail(s)[Len(Tail(s))] = s[Len(s)] /\ Tail(s)[1].do \notin {"grace", "reap"}
<1>1. s \in Seq(Instruction)
  BY Zenon DEF Placed
<1>2. /\ Tail(s) \in Seq(Instruction) /\ Len(Tail(s)) = Len(s) - 1 /\ Len(s) \in Nat /\ Len(s) >= 1
      /\ \A i \in 1 .. Len(s) - 1 : Tail(s)[i] = s[i + 1]
  BY <1>1, Tails, Zenon
<1>3. PICK p \in Path : Rest(s, p)
  BY Zenon DEF Placed
<1>4. Tail(s) = <<>> \/ Rest(Tail(s), p)
  BY <1>1, <1>3, RestTail, Zenon
<1>5. Placed(Tail(s))
  BY <1>2, <1>3, <1>4, Zenon DEF Placed
<1>6. ASSUME Tail(s) # <<>> PROVE Tail(s)[Len(Tail(s))] = s[Len(s)] /\ Tail(s)[1].do \notin {"grace", "reap"}
  <2>1. Len(s) - 1 # 0
    BY <1>2, <1>6, NothingLeft, Zenon
  <2>2. PICK n \in Nat, m \in Nat : n = Len(s) /\ m = Len(p) /\ n \in 1 .. m
    BY <1>2, <1>3, Paths, Zenon DEF Rest
  <2>3. /\ n - 1 \in 1 .. n - 1 /\ n - 1 + 1 = n /\ 1 \in 1 .. n - 1 /\ 1 + 1 \in 2 .. n
        /\ m - n + (1 + 1) \in 1 .. m
    BY <2>1, <2>2
  <2>4. Tail(s)[n - 1] = s[n] /\ Tail(s)[1] = s[1 + 1]
    BY <2>2, <2>3, <1>2, Zenon
  <2>5. s[1 + 1] = p[m - n + (1 + 1)]
    BY <2>2, <2>3, <1>3, Zenon DEF Rest
  <2>6. p[m - n + (1 + 1)].do \notin {"grace", "reap"}
    BY <2>2, <2>3, Paths, Zenon
  <2> QED
    BY <2>2, <2>4, <2>5, <2>6, <1>2, Zenon
<1> QED
  BY <1>2, <1>5, <1>6, Zenon

\* terminate_group has begun to wait, or waits for something else.
LEMMA Wait ==
  ASSUME OnPath, todo # <<>>, todo[1].do \in {"term", "grace"}, NEW code \in {"grace", "reap"},
         todo' = <<[do |-> code, of |-> todo[1].of]>> \o Tail(todo)
  PROVE  /\ OnPath' /\ todo' # <<>> /\ todo'[1] = [do |-> code, of |-> todo[1].of]
         /\ Len(todo') = Len(todo) /\ todo'[Len(todo')].do = todo[Len(todo)].do
<1>1. PICK s \in Seq(Instruction) : s = todo /\ s # <<>>
  BY Zenon DEF OnPath, Placed
<1>2. PICK w, t : w = [do |-> code, of |-> s[1].of] /\ t = todo'
  BY Zenon
<1>3. s[1] \in Instruction
  BY <1>1
<1>4. w \in Instruction /\ w.do = code /\ w.of = s[1].of
  BY <1>2, <1>3 DEF Instruction, Codes
<1>5. /\ t \in Seq(Instruction) /\ Len(t) = Len(s) /\ t[1] = w
      /\ \A i \in 2 .. Len(s) : t[i] = s[i]
  <2>1. PICK r \in Seq(Instruction) : r = Tail(s) /\ Len(r) = Len(s) - 1 /\ \A i \in 1 .. Len(s) - 1 : r[i] = s[i + 1]
    BY <1>1, Tails, Zenon
  <2>2. t = <<w>> \o r
    BY <2>1, <1>1, <1>2, Zenon
  <2>3. t \in Seq(Instruction) /\ Len(t) = 1 + Len(r) /\ t[1] = w
    BY <2>1, <2>2, <1>4
  <2>4. Len(s) \in Nat /\ Len(s) >= 1
    BY <1>1
  <2>5. Len(t) = Len(s)
    BY <2>1, <2>3, <2>4
  <2>6. ASSUME NEW i \in 2 .. Len(s) PROVE t[i] = s[i]
    <3>1. i - 1 \in 1 .. Len(s) - 1 /\ i - 1 + 1 = i
      BY <2>4
    <3>2. t[i] = r[i - 1]
      BY <3>1, <2>1, <2>2, <2>4, <1>4
    <3> QED
      BY <3>1, <3>2, <2>1
  <2> QED
    BY <2>3, <2>5, <2>6
<1>6. PICK p \in Path : Rest(s, p)
  BY <1>1, Zenon DEF OnPath, Placed
<1>7. PICK j : j = p[Len(p) - Len(s) + 1]
  OBVIOUS
<1>8. Stands(s[1], j) /\ s[1].do \in {"term", "grace"}
  BY <1>1, <1>6, <1>7, Zenon DEF Rest
<1>9. Stands(w, j)
  <2>1. PICK n \in Nat, m \in Nat : n = Len(s) /\ m = Len(p) /\ n \in 1 .. m
    BY <1>1, <1>6, Paths, Tails DEF Rest
  <2>2. m - n + 1 \in 1 .. m
    BY <2>1
  <2>3. j.do \notin {"grace", "reap"}
    BY <2>1, <2>2, <1>7, Paths, Zenon
  <2> QED
    BY <2>3, <1>4, <1>8 DEF Stands
<1>10. Rest(t, p)
  BY <1>5, <1>6, <1>7, <1>9, Zenon DEF Rest
<1>11. t # <<>>
  BY <1>1, <1>5
<1>12. OnPath'
  BY <1>2, <1>5, <1>6, <1>10, Zenon DEF OnPath, Placed
<1>13. t[Len(t)].do = s[Len(s)].do
  <2>1. CASE Len(s) = 1
    <3>1. Whereabouts(s)
      BY <1>1, Places, Zenon DEF OnPath
    <3> QED
      BY <3>1, <2>1, <1>1 DEF Whereabouts, Terminating, Left
  <2>2. CASE Len(s) # 1
    <3>1. Len(s) \in 2 .. Len(s)
      BY <2>2, <1>1
    <3> QED
      BY <3>1, <1>5
  <2> QED
    BY <2>1, <2>2
<1> QED
  BY <1>1, <1>2, <1>5, <1>11, <1>12, <1>13

\* No terminate_group waits.
Calm == todo = <<>> \/ todo[1].do \notin {"grace", "reap"}

\* What a step can do with the present operation.
Moves ==
  \/ UNCHANGED todo
  \/ todo # <<>> /\ todo' = Tail(todo)
  \/ todo # <<>> /\ todo[1].do = "window" /\ todo' = Tail(Tail(todo))
  \/ todo' = CleanupPath
  \/ todo = <<>> /\ todo' = PreparePath /\ ReceivePrepare
  \/ todo = <<>> /\ todo' = StartPath /\ ReceiveStart
  \/ todo' = <<>> /\ KillAgent
  \/ /\ (Terminate /\ todo[1].do = "term") \/ (GraceEnds /\ todo[1].do = "grace")
     /\ todo # <<>>
     /\ \E code \in {"grace", "reap"} : todo' = <<[do |-> code, of |-> todo[1].of]>> \o Tail(todo)

\* The instruction at the head.
LEMMA Heads == ASSUME OnPath, todo # <<>> PROVE Head(todo) = todo[1]
<1>1. PICK s \in Seq(Instruction) : s = todo /\ s # <<>>
  BY Zenon DEF OnPath, Placed
<1>2. Head(s) = s[1]
  BY <1>1
<1> QED
  BY <1>1, <1>2

\* terminate_group in the three forms that it has.
LEMMA TerminateMoves == ASSUME OnPath, Terminate \/ GraceEnds \/ Reap PROVE Moves
<1>1. todo # <<>> /\ Head(todo) = todo[1]
  BY Heads, Zenon DEF Terminate, GraceEnds, Reap, At
<1>2. CASE Terminate
  <2>1. /\ todo[1].do = "term"
        /\ \/ todo' = <<>> \o Tail(todo)
           \/ todo' = <<[do |-> "grace", of |-> todo[1].of]>> \o Tail(todo)
           \/ todo' = <<[do |-> "reap", of |-> todo[1].of]>> \o Tail(todo)
    BY <1>1, <1>2, Zenon DEF Terminate, At
  <2>2. todo \in Seq(Instruction)
    BY Zenon DEF OnPath, Placed
  <2>3. Tail(todo) \in Seq(Instruction)
    BY <2>2, <1>1, Tails, Zenon
  <2>4. \A r \in Seq(Instruction) : <<>> \o r = r
    OBVIOUS
  <2>5. \/ todo' = Tail(todo)
        \/ \E code \in {"grace", "reap"} : todo' = <<[do |-> code, of |-> todo[1].of]>> \o Tail(todo)
    <3>1. CASE todo' = <<>> \o Tail(todo)
      BY <3>1, <2>3, <2>4, Zenon
    <3>2. CASE todo' = <<[do |-> "grace", of |-> todo[1].of]>> \o Tail(todo)
      BY <3>2, Zenon
    <3>3. CASE todo' = <<[do |-> "reap", of |-> todo[1].of]>> \o Tail(todo)
      BY <3>3, Zenon
    <3> QED
      BY <2>1, <3>1, <3>2, <3>3, Zenon
  <2> QED
    BY <2>1, <2>5, <1>1, <1>2, Zenon DEF Moves
<1>3. CASE GraceEnds
  <2>1. /\ todo[1].do = "grace"
        /\ todo' = <<[do |-> "reap", of |-> todo[1].of]>> \o Tail(todo)
    BY <1>1, <1>3, Zenon DEF GraceEnds, At
  <2> QED
    BY <2>1, <1>1, <1>3, Zenon DEF Moves
<1>4. CASE Reap
  BY <1>1, <1>4, Zenon DEF Reap, Continue, Moves
<1> QED
  BY <1>2, <1>3, <1>4

\* The preflight.
LEMMA PreflightMoves == ASSUME OnPath, ForkTest \/ PollTest \/ AwaitTest \/ FinishTest PROVE Moves
<1>1. todo # <<>> /\ Head(todo) = todo[1]
  BY Heads, Zenon DEF ForkTest, PollTest, AwaitTest, FinishTest, At
<1>2. CASE ForkTest
  BY <1>1, <1>2, Zenon DEF ForkTest, Continue, Fail, Moves
<1>3. CASE PollTest
  BY <1>1, <1>3, Zenon DEF PollTest, Continue, Moves
<1>4. CASE AwaitTest
  BY <1>1, <1>4, Zenon DEF AwaitTest, At, Decide, Continue, Fail, Moves
<1>5. CASE FinishTest
  BY <1>1, <1>5, Zenon DEF FinishTest, Decide, Fail, Moves
<1> QED
  BY <1>2, <1>3, <1>4, <1>5

\* All other operations.
LEMMA OperationMoves == ASSUME OnPath, Operation PROVE Moves
<1>1. CASE Terminate \/ GraceEnds \/ Reap
  BY <1>1, TerminateMoves, Zenon
<1>2. CASE ForkTest \/ PollTest \/ AwaitTest \/ FinishTest
  BY <1>2, PreflightMoves, Zenon
<1>3. CASE CloseLease \/ UnlinkPaths \/ AwaitPaths
  BY <1>3, Zenon DEF CloseLease, UnlinkPaths, AwaitPaths, At, Continue, Fail, Moves
<1>4. CASE ForkBridge
  BY <1>4, Zenon DEF ForkBridge, At, Continue, Fail, Moves
<1>5. CASE ReadLock \/ ClearLock
  BY <1>5, Zenon DEF ReadLock, ClearLock, At, Continue, Fail, Moves
<1>6. CASE Authorize \/ PrepareReady
  BY <1>6, Zenon DEF Authorize, PrepareReady, At, Continue, Fail, Moves
<1>7. CASE ReadMode \/ ForkXorg
  BY <1>7, Zenon DEF ReadMode, ForkXorg, At, Continue, Fail, Moves
<1>8. CASE AwaitXorg \/ ForkDesktop
  BY <1>8, Zenon DEF AwaitXorg, ForkDesktop, At, Continue, Fail, Moves
<1> QED
  BY <1>1, <1>2, <1>3, <1>4, <1>5, <1>6, <1>7, <1>8 DEF Operation

\* Every step moves so.
LEMMA EveryMove == ASSUME OnPath, Next PROVE Moves
<1>1. CASE Operation
  BY <1>1, OperationMoves, Zenon
<1>2. CASE ReceivePrepare
  BY <1>2, Zenon DEF ReceivePrepare, Idle, Moves
<1>3. CASE ReceiveStart
  <2>1. todo = <<>> /\ (todo' = StartPath \/ todo' = CleanupPath)
    BY <1>3, Zenon DEF ReceiveStart, Idle
  <2> QED
    BY <2>1, <1>3, Zenon DEF Moves
<1>4. CASE ReceiveStop \/ XorgExited \/ SessionFails \/ Quit
  BY <1>4, Zenon DEF ReceiveStop, XorgExited, SessionFails, Quit, Moves
<1>5. CASE Exit \/ Launch
  BY <1>5, Zenon DEF Exit, Launch, Moves
<1>6. CASE KillAgent
  BY <1>6, Zenon DEF KillAgent, Moves
<1>7. CASE Processes
  <2>1. UNCHANGED todo
    BY <1>7, Zenon DEF Processes, LeaderExits, KinStarts, KinExits, OrphanExits, Serve, Publish,
      TestSends, TestHangsUp, TestExits
  <2> QED
    BY <2>1, Zenon DEF Moves
<1> QED
  BY <1>1, <1>2, <1>3, <1>4, <1>5, <1>6, <1>7 DEF Next, Loop

\* An operation that starts, or none.
LEMMA Begins ==
  /\ Placed(<<>>) /\ Placed(CleanupPath) /\ Placed(PreparePath) /\ Placed(StartPath)
  /\ Left(CleanupPath, "unlink", 5) /\ Left(PreparePath, "ready", 14) /\ Left(StartPath, "desktop", 4)
  /\ CleanupPath[1].do = "term" /\ PreparePath[1].do = "term" /\ StartPath[1].do = "mode"
<1>1. <<>> \in Seq(Instruction)
  OBVIOUS
<1>2. Placed(<<>>)
  BY <1>1, Zenon DEF Placed
<1>3. ASSUME NEW p \in Path PROVE Placed(p)
  <2>1. p \in Seq(Instruction) /\ Len(p) \in Nat /\ Len(p) >= 1
    BY <1>3, Paths, Zenon
  <2>2. PICK m \in Nat : m = Len(p) /\ m >= 1
    BY <2>1, Zenon
  <2>3. m \in 1 .. m /\ m - m + 1 = 1 /\ \A i \in 2 .. m : m - m + i = i
    BY <2>2
  <2>4. Rest(p, p)
    BY <2>2, <2>3, Zenon DEF Rest, Stands
  <2> QED
    BY <2>1, <2>4, Zenon DEF Placed
<1>4. CleanupPath \in Path /\ PreparePath \in Path /\ StartPath \in Path
  BY Zenon DEF Path
<1>5. Left(CleanupPath, "unlink", 5) /\ CleanupPath[1].do = "term"
  <2>1. PICK p \in Seq(Instruction) : /\ p = CleanupPath
                                      /\ Len(p) = 5 /\ p[5] = Do("unlink") /\ p[1] = Term("session")
    BY CleanupCode, Zenon
  <2>2. p[5].do = "unlink" /\ p[1].do = "term"
    BY <2>1, Fields, Zenon
  <2>3. 5 # 0
    OBVIOUS
  <2>4. p # <<>>
    BY <2>1, <2>3, SomethingLeft, Zenon
  <2> QED
    BY <2>1, <2>2, <2>4, Zenon DEF Left
<1>6. Left(PreparePath, "ready", 14) /\ PreparePath[1].do = "term"
  <2>1. PICK p \in Seq(Instruction) : /\ p = PreparePath
                                      /\ Len(p) = 14 /\ p[14] = Do("ready") /\ p[1] = Term("session")
    BY PrepareCode, Zenon
  <2>2. p[14].do = "ready" /\ p[1].do = "term"
    BY <2>1, Fields, Zenon
  <2>3. 14 # 0
    OBVIOUS
  <2>4. p # <<>>
    BY <2>1, <2>3, SomethingLeft, Zenon
  <2> QED
    BY <2>1, <2>2, <2>4, Zenon DEF Left
<1>7. Left(StartPath, "desktop", 4) /\ StartPath[1].do = "mode"
  <2>1. PICK p \in Seq(Instruction) : /\ p = StartPath
                                      /\ Len(p) = 4 /\ p[4] = Do("desktop") /\ p[1] = Do("mode")
    BY StartCode, Zenon
  <2>2. p[4].do = "desktop" /\ p[1].do = "mode"
    BY <2>1, Fields, Zenon
  <2>3. 4 # 0
    OBVIOUS
  <2>4. p # <<>>
    BY <2>1, <2>3, SomethingLeft, Zenon
  <2> QED
    BY <2>1, <2>2, <2>4, Zenon DEF Left
<1> QED
  BY <1>2, <1>3, <1>4, <1>5, <1>6, <1>7, Zenon

\* The same by the number of the instructions that are left.
LEMMA LeftIn ==
  ASSUME NEW s, NEW code, NEW n \in Nat, Left(s, code, n)
  PROVE  /\ s # <<>>
         /\ \A c, k : In(s, c, k) => c = code /\ n <= k
         /\ \A k : n <= k => In(s, code, k)
<1>1. s # <<>> /\ s[Len(s)].do = code /\ Len(s) = n
  BY Zenon DEF Left
<1>2. ASSUME NEW c, NEW k, In(s, c, k) PROVE c = code /\ n <= k
  BY <1>1, <1>2, Zenon DEF In
<1>3. ASSUME NEW k, n <= k PROVE In(s, code, k)
  BY <1>1, <1>3, Zenon DEF In
<1> QED
  BY <1>1, <1>2, <1>3, Zenon

\* What is next.
First(s, code) == s # <<>> /\ s[1].do = code

\* On the way from s to t the agent passes no point that an invariant speaks of,
\* or it is just there.
Passed(s, t) ==
  /\ In(t, "ready", 14) => In(s, "ready", 14)
  /\ In(t, "ready", 10) => In(s, "ready", 10) \/ First(s, "unlink")
  /\ In(t, "unlink", 2) => In(s, "unlink", 2) \/ First(s, "close")
  /\ In(t, "desktop", 2) => In(s, "desktop", 2) \/ First(s, "fork_xorg")
  /\ In(t, "desktop", 4) => In(s, "desktop", 4) /\ (In(s, "desktop", 2) => In(t, "desktop", 2))
  /\ First(t, "clear") => First(s, "lock")
  /\ t = <<>> => Left(s, "unlink", 1) \/ Left(s, "ready", 1) \/ Left(s, "desktop", 1)

\* One instruction further.
LEMMA TailPassed == ASSUME NEW s, Placed(s), s # <<>> PROVE Passed(s, Tail(s))
<1>1. PICK t, e : t = Tail(s) /\ e = s[Len(s)].do
  BY Zenon
<1>2. PICK n \in Nat : n = Len(s) /\ e = s[n].do /\ n >= 1 /\ Len(t) = n - 1
  BY <1>1, Advance, Zenon
<1>3. Left(s, e, n) /\ e \in {"unlink", "ready", "desktop"}
  BY <1>2, Places, Zenon DEF Left, Thereabouts
<1>4. CASE t = <<>>
  <2>1. t \in Seq(Instruction)
    BY <1>1, Advance, Zenon DEF Placed
  <2>2. Len(t) = 0
    BY <1>4, <2>1
  <2>3. n - 1 = 0 => n = 1
    OBVIOUS
  <2>4. n = 1
    BY <2>2, <2>3, <1>2, Zenon
  <2> QED
    BY <2>4, <1>1, <1>3, <1>4, Zenon DEF Passed, In, First
<1>5. CASE t # <<>>
  <2>1. Left(t, e, n - 1) /\ Placed(t)
    BY <1>1, <1>2, <1>5, Advance, Zenon DEF Left
  <2>2. n - 1 \in Nat
    BY <1>2
  <2>3. /\ \A c, k : In(t, c, k) => c = e /\ n - 1 <= k
        /\ \A c, k : In(s, c, k) => c = e /\ n <= k
        /\ \A k : n <= k => In(s, e, k)
        /\ \A k : n - 1 <= k => In(t, e, k)
    <3>1. /\ \A c, k : In(t, c, k) => c = e /\ n - 1 <= k
          /\ \A k : n - 1 <= k => In(t, e, k)
      <4>1. PICK m \in Nat : m = n - 1
        BY <2>2, Zenon
      <4>2. Left(t, e, m)
        BY <2>1, <4>1, Zenon
      <4>3. (\A c, k : In(t, c, k) => c = e /\ m <= k) /\ (\A k : m <= k => In(t, e, k))
        BY <4>2, LeftIn, Zenon
      <4> QED
        BY <4>1, <4>3, Zenon
    <3>2. /\ \A c, k : In(s, c, k) => c = e /\ n <= k
          /\ \A k : n <= k => In(s, e, k)
      BY <1>3, LeftIn, Zenon
    <3> QED
      BY <3>1, <3>2, Zenon
  <2>4. /\ e = "ready" /\ n = 11 => s[1].do = "unlink"
        /\ e = "ready" /\ n = 4 => s[1].do = "lock"
        /\ e = "unlink" /\ n = 3 => s[1].do = "close"
        /\ e = "desktop" /\ n = 3 => s[1].do = "fork_xorg"
    BY <1>3, Places, Zenon DEF Thereabouts
  <2>5. /\ In(t, "ready", 14) => In(s, "ready", 14)
        /\ In(t, "ready", 10) => In(s, "ready", 10) \/ s[1].do = "unlink"
    <3>1. e = "ready" => n <= 14
      BY <1>2, Places, Zenon DEF Thereabouts
    <3> QED
      BY <3>1, <2>3, <2>4
  <2>6. In(t, "unlink", 2) => In(s, "unlink", 2) \/ s[1].do = "close"
    BY <2>3, <2>4
  <2>7. In(t, "desktop", 2) => In(s, "desktop", 2) \/ s[1].do = "fork_xorg"
    BY <2>3, <2>4
  <2>8. In(t, "desktop", 4) => In(s, "desktop", 4) /\ (In(s, "desktop", 2) => In(t, "desktop", 2))
    <3>1. e = "desktop" => n <= 4
      BY <1>2, Places, Zenon DEF Thereabouts
    <3> QED
      BY <3>1, <2>3
  <2>9. t[1].do = "clear" => s[1].do = "lock"
    <3>1. t[1].do = "clear" => Left(t, "ready", 3)
      BY <2>1, <1>5, Places, Zenon DEF Whereabouts
    <3>2. Left(t, "ready", 3) => e = "ready" /\ n - 1 = 3
      BY <2>1, Zenon DEF Left
    <3> QED
      BY <3>1, <3>2, <2>4
  <2> QED
    BY <2>5, <2>6, <2>7, <2>8, <2>9, <1>1, <1>5, Zenon DEF Passed, First
<1> QED
  BY <1>4, <1>5

\* A child that has exited in the window is not looked at again.
LEMMA SkipPassed ==
  ASSUME NEW s, Placed(s), s # <<>>, s[1].do = "window"
  PROVE  /\ Placed(Tail(Tail(s))) /\ Passed(s, Tail(Tail(s))) /\ Left(Tail(Tail(s)), "ready", 6)
         /\ Tail(Tail(s))[1].do \notin {"grace", "reap"}
<1>1. Left(s, "ready", 8)
  BY Places, Zenon DEF Whereabouts
<1>2. PICK t, u : t = Tail(s) /\ u = Tail(t)
  BY Zenon
<1>3. 8 - 1 = 7 /\ 7 - 1 = 6 /\ 7 # 0 /\ 6 # 0
  OBVIOUS
<1>4. Placed(t) /\ Len(t) = 7 /\ (t # <<>> => t[Len(t)].do = "ready")
  BY <1>1, <1>2, <1>3, Advance, Zenon DEF Left
<1>5. t # <<>>
  BY <1>3, <1>4, SomethingLeft, Zenon DEF Placed
<1>6. Placed(u) /\ Len(u) = 6 /\ (u # <<>> => u[Len(u)].do = "ready" /\ u[1].do \notin {"grace", "reap"})
  BY <1>2, <1>3, <1>4, <1>5, Advance, Zenon
<1>7. u # <<>>
  BY <1>3, <1>6, SomethingLeft, Zenon DEF Placed
<1>8. Left(u, "ready", 6)
  BY <1>6, <1>7, Zenon DEF Left
<1>9. /\ \A c, k : In(u, c, k) => c = "ready"
      /\ In(s, "ready", 14) /\ In(s, "ready", 10)
  BY <1>1, <1>8, LeftIn
<1>10. u[1].do # "clear"
  <2>1. u[1].do = "clear" => Len(u) = 3
    BY <1>6, <1>7, Places, Zenon DEF Whereabouts, Left
  <2>2. 6 # 3
    OBVIOUS
  <2> QED
    BY <2>1, <2>2, <1>6, Zenon
<1>11. Passed(s, u)
  BY <1>7, <1>9, <1>10 DEF Passed, First
<1> QED
  BY <1>2, <1>6, <1>7, <1>8, <1>11, Zenon

\* The agent goes over to cleanup_session.
LEMMA CleanupPassed == ASSUME NEW s PROVE Passed(s, CleanupPath)
<1>1. Left(CleanupPath, "unlink", 5) /\ CleanupPath[1].do = "term"
  BY Begins, Zenon
<1>2. /\ CleanupPath # <<>>
      /\ \A c, k : In(CleanupPath, c, k) => c = "unlink" /\ 5 <= k
  BY <1>1, LeftIn
<1> QED
  BY <1>1, <1>2 DEF Passed, First

\* Waiting, the agent stays where it is.
LEMMA WaitPassed ==
  ASSUME NEW s, Placed(s), s # <<>>, NEW t, t # <<>>, Len(t) = Len(s), t[Len(t)].do = s[Len(s)].do,
         t[1].do \in {"grace", "reap"}
  PROVE  Passed(s, t)
<1>1. \A c, k : In(t, c, k) <=> In(s, c, k)
  BY Zenon DEF In
<1> QED
  BY <1>1 DEF Passed, First

\* How far the agent is after a step.
Progress ==
  /\ OnPath'
  /\ UNCHANGED todo \/ Calm' \/ Terminate \/ GraceEnds
  /\ \/ UNCHANGED todo \/ Passed(todo, todo') \/ KillAgent
     \/ ReceivePrepare /\ todo' = PreparePath
     \/ ReceiveStart /\ todo' = StartPath

\* Every step is a step along the path, a new operation or a kill.
LEMMA EveryStep == ASSUME OnPath, Next PROVE Progress
<1>1. Moves
  BY EveryMove, Zenon
<1>2. CASE UNCHANGED todo
  BY <1>2, Zenon DEF Progress, OnPath
<1>3. CASE todo # <<>> /\ todo' = Tail(todo)
  <2>1. Placed(todo') /\ (todo' # <<>> => todo'[1].do \notin {"grace", "reap"})
    BY <1>3, Advance, Zenon DEF OnPath
  <2>2. Passed(todo, todo')
    BY <1>3, TailPassed, Zenon DEF OnPath
  <2> QED
    BY <2>1, <2>2, Zenon DEF Progress, OnPath, Calm
<1>4. CASE todo # <<>> /\ todo[1].do = "window" /\ todo' = Tail(Tail(todo))
  <2>1. Placed(todo') /\ Passed(todo, todo') /\ todo'[1].do \notin {"grace", "reap"}
    BY <1>4, SkipPassed, Zenon DEF OnPath
  <2> QED
    BY <2>1, Zenon DEF Progress, OnPath, Calm
<1>5. "term" \notin {"grace", "reap"} /\ "mode" \notin {"grace", "reap"}
  OBVIOUS
<1>6. CASE todo' = CleanupPath
  BY <1>5, <1>6, Begins, CleanupPassed, Zenon DEF Progress, OnPath, Calm
<1>7. CASE todo = <<>> /\ todo' = PreparePath /\ ReceivePrepare
  BY <1>5, <1>7, Begins, Zenon DEF Progress, OnPath, Calm
<1>8. CASE todo = <<>> /\ todo' = StartPath /\ ReceiveStart
  BY <1>5, <1>8, Begins, Zenon DEF Progress, OnPath, Calm
<1>9. CASE todo' = <<>> /\ KillAgent
  BY <1>9, Begins, Zenon DEF Progress, OnPath, Calm
<1>10. CASE /\ (Terminate /\ todo[1].do = "term") \/ (GraceEnds /\ todo[1].do = "grace")
            /\ todo # <<>>
            /\ \E code \in {"grace", "reap"} : todo' = <<[do |-> code, of |-> todo[1].of]>> \o Tail(todo)
  <2>1. PICK code \in {"grace", "reap"} : todo' = <<[do |-> code, of |-> todo[1].of]>> \o Tail(todo)
    BY <1>10, Zenon
  <2>2. todo[1].do \in {"term", "grace"}
    BY <1>10, Zenon
  <2>3. /\ OnPath' /\ todo' # <<>> /\ todo'[1] = [do |-> code, of |-> todo[1].of]
        /\ Len(todo') = Len(todo) /\ todo'[Len(todo')].do = todo[Len(todo)].do
    BY <2>1, <2>2, <1>10, Wait, Zenon
  <2>4. todo'[1].do = code
    BY <2>3
  <2>5. Passed(todo, todo')
    BY <2>3, <2>4, <1>10, WaitPassed, Zenon DEF OnPath
  <2> QED
    BY <2>3, <2>5, <1>10, Zenon DEF Progress
<1> QED
  BY <1>1, <1>2, <1>3, <1>4, <1>6, <1>7, <1>8, <1>9, <1>10, Zenon DEF Moves

----------------------------------------------------------------------------
(* Who changes what.                                                       *)

\* An instruction is done by an agent that runs.
LEMMA AtHead ==
  ASSUME OnPath, NEW code, At(code)
  PROVE  todo # <<>> /\ todo[1].do = code /\ Head(todo) = todo[1]
BY Heads, Zenon DEF At

\* The children of the agent.
LEMMA GroupsTouched ==
  ASSUME Next
  PROVE  \/ UNCHANGED groups \/ GraceEnds \/ Reap \/ ForkBridge \/ ForkXorg \/ ForkDesktop
         \/ XorgExited \/ KillAgent
         \/ \E g \in Group : LeaderExits(g) \/ KinStarts(g) \/ KinExits(g)
<1>1. CASE Operation
  BY <1>1, Zenon DEF Operation, Terminate, CloseLease, UnlinkPaths, ForkTest, PollTest, AwaitTest,
    FinishTest, AwaitPaths, ReadLock, ClearLock, Authorize, PrepareReady, ReadMode, AwaitXorg
<1>2. CASE Loop
  BY <1>2, Zenon DEF Loop, ReceivePrepare, ReceiveStart, ReceiveStop, SessionFails, Quit, Exit, Launch
<1>3. CASE Processes
  BY <1>3, Zenon DEF Processes, OrphanExits, Serve, Publish, TestSends, TestHangsUp, TestExits
<1> QED
  BY <1>1, <1>2, <1>3 DEF Next

\* The copies of the lease.
LEMMA LeaseTouched == ASSUME Next PROVE UNCHANGED fds \/ CloseLease \/ ForkXorg \/ KillAgent
<1>1. CASE Operation
  BY <1>1, Zenon DEF Operation, Terminate, GraceEnds, Reap, UnlinkPaths, ForkTest, PollTest, AwaitTest,
    FinishTest, ForkBridge, AwaitPaths, ReadLock, ClearLock, Authorize, PrepareReady, ReadMode,
    AwaitXorg, ForkDesktop, agent
<1>2. CASE Loop
  BY <1>2, Zenon DEF Loop, ReceivePrepare, ReceiveStart, ReceiveStop, XorgExited, SessionFails, Quit,
    Exit, Launch, agent
<1>3. CASE Processes
  BY <1>3, Zenon DEF Processes, LeaderExits, KinStarts, KinExits, OrphanExits, Serve, Publish,
    TestSends, TestHangsUp, TestExits, agent
<1> QED
  BY <1>1, <1>2, <1>3 DEF Next

\* Display :1.
LEMMA DisplayTouched ==
  ASSUME Next
  PROVE  \/ UNCHANGED display \/ ReadLock \/ ClearLock \/ KillAgent
         \/ \E g \in Group : LeaderExits(g)
         \/ \E o \in orphan : OrphanExits(o[1], o[2])
         \/ \E me \in Agents : Serve(me)
<1>1. CASE Operation
  BY <1>1, Zenon DEF Operation, Terminate, GraceEnds, Reap, CloseLease, UnlinkPaths, ForkTest, PollTest,
    AwaitTest, FinishTest, ForkBridge, AwaitPaths, Authorize, PrepareReady, ReadMode, ForkXorg,
    AwaitXorg, ForkDesktop
<1>2. CASE Loop
  BY <1>2, Zenon DEF Loop, ReceivePrepare, ReceiveStart, ReceiveStop, XorgExited, SessionFails, Quit,
    Exit, Launch
<1>3. CASE Processes
  BY <1>3, Zenon DEF Processes, KinStarts, KinExits, Publish, TestSends, TestHangsUp, TestExits
<1> QED
  BY <1>1, <1>2, <1>3 DEF Next

\* The input bridge's file and the paths from it.
LEMMA InputTouched ==
  ASSUME Next
  PROVE  \/ UNCHANGED input \/ UnlinkPaths \/ ForkBridge \/ AwaitPaths \/ ReceivePrepare \/ Launch
         \/ KillAgent \/ \E me \in Agents : Publish(me)
<1>1. CASE Operation
  BY <1>1, Zenon DEF Operation, Terminate, GraceEnds, Reap, CloseLease, ForkTest, PollTest, AwaitTest,
    FinishTest, ReadLock, ClearLock, Authorize, PrepareReady, ReadMode, ForkXorg, AwaitXorg, ForkDesktop
<1>2. CASE Loop
  BY <1>2, Zenon DEF Loop, ReceiveStart, ReceiveStop, XorgExited, SessionFails, Quit, Exit
<1>3. CASE Processes
  BY <1>3, Zenon DEF Processes, LeaderExits, KinStarts, KinExits, OrphanExits, Serve, TestSends,
    TestHangsUp, TestExits
<1> QED
  BY <1>1, <1>2, <1>3 DEF Next

\* The preflight's child.
LEMMA PreflightTouched ==
  ASSUME Next
  PROVE  \/ UNCHANGED preflight \/ ForkTest \/ PollTest \/ AwaitTest \/ FinishTest \/ KillAgent
         \/ TestSends \/ TestHangsUp \/ TestExits
<1>1. CASE Operation
  BY <1>1, Zenon DEF Operation, Terminate, GraceEnds, Reap, CloseLease, UnlinkPaths, ForkBridge,
    AwaitPaths, ReadLock, ClearLock, Authorize, PrepareReady, ReadMode, ForkXorg, AwaitXorg, ForkDesktop
<1>2. CASE Loop
  BY <1>2, Zenon DEF Loop, ReceivePrepare, ReceiveStart, ReceiveStop, XorgExited, SessionFails, Quit,
    Exit, Launch
<1>3. CASE Processes
  BY <1>3, Zenon DEF Processes, LeaderExits, KinStarts, KinExits, OrphanExits, Serve, Publish
<1> QED
  BY <1>1, <1>2, <1>3 DEF Next

\* What killed agents left behind.
LEMMA OrphansTouched ==
  ASSUME Next
  PROVE  UNCHANGED <<orphan, killed>> \/ KillAgent \/ \E o \in orphan : OrphanExits(o[1], o[2])
<1>1. CASE Operation
  BY <1>1, Zenon DEF Operation, Terminate, GraceEnds, Reap, CloseLease, UnlinkPaths, ForkTest, PollTest,
    AwaitTest, FinishTest, ForkBridge, AwaitPaths, ReadLock, ClearLock, Authorize, PrepareReady, ReadMode,
    ForkXorg, AwaitXorg, ForkDesktop
<1>2. CASE Loop
  BY <1>2, Zenon DEF Loop, ReceivePrepare, ReceiveStart, ReceiveStop, XorgExited, SessionFails, Quit,
    Exit, Launch
<1>3. CASE Processes
  BY <1>3, Zenon DEF Processes, LeaderExits, KinStarts, KinExits, Serve, Publish, TestSends, TestHangsUp,
    TestExits
<1> QED
  BY <1>1, <1>2, <1>3 DEF Next

----------------------------------------------------------------------------
(* The process groups.                                                     *)

\* A forked child is known and runs.
LEMMA Forked ==
  ASSUME AgentInv, Calm', NEW g \in Group, known' = known \cup {g},
         leader' = [leader EXCEPT ![g] = "running"],
         kin' = kin \/ kin' = [kin EXCEPT ![g] = "none"]
  PROVE  GroupsInv'
<1>1. leader \in [Group -> {"none", "running", "dying", "zombie"}] /\ kin \in [Group -> {"none", "running", "dying", "left"}]
  BY Zenon DEF AgentInv, TypeOK
<1>2. GroupGone /\ PidsOwned
  BY Zenon DEF AgentInv, GroupsInv
<1>3. GroupGone'
  BY <1>1, <1>2 DEF GroupGone
<1>4. PidsOwned'
  BY <1>1, <1>2 DEF PidsOwned, GroupGone
<1> QED
  BY <1>3, <1>4, Zenon DEF GroupsInv, Calm

\* The leader of group g and its kin.
Only(g) ==
  /\ \A h \in Group : h # g => leader'[h] = leader[h] /\ kin'[h] = kin[h]
  /\ \A h : h # g => (h \in known' <=> h \in known)

\* A step that concerns one group only.
LEMMA OneGroup ==
  ASSUME AgentInv, NEW g \in Group, Only(g), known' \subseteq Group,
         g \in known' => leader'[g] # "none",
         g \notin known' => leader'[g] = "none" /\ kin'[g] \in {"none", "dying", "left"}
  PROVE  GroupGone' /\ PidsOwned'
BY DEF AgentInv, GroupsInv, GroupGone, PidsOwned, Only

\* With the wait of a terminate_group unchanged.
LEMMA SameWait ==
  ASSUME AgentInv, UNCHANGED todo, NEW g \in Group, Only(g), known' = known, GroupGone', PidsOwned',
         leader[g] # "running" => leader'[g] # "running",
         leader[g] # "running" /\ kin[g] # "running" => kin'[g] # "running"
  PROVE  GroupsInv'
<1>1. Placed(todo)
  BY Zenon DEF AgentInv, OnPath
<1>2. todo # <<>> /\ todo[1].do \in {"grace", "reap"} => todo[1].of \in Group
  BY <1>1, Places, Zenon DEF Whereabouts, Terminating
<1>3. \A h \in Group : leader[h] # "running" /\ kin[h] # "running" => leader'[h] # "running" /\ kin'[h] # "running"
  BY Zenon DEF Only
<1> QED
  BY <1>2, <1>3, Zenon DEF AgentInv, GroupsInv

\* terminate_group, waitpid, the forks and every other step leave the groups as
\* they should be.
LEMMA GroupsKept == ASSUME AgentInv, Next PROVE GroupsInv'
<1>1. leader \in [Group -> {"none", "running", "dying", "zombie"}] /\ kin \in [Group -> {"none", "running", "dying", "left"}] /\ known \subseteq Group
  BY Zenon DEF AgentInv, TypeOK
<1>2. OnPath /\ Placed(todo) /\ Progress
  BY EveryStep, Zenon DEF AgentInv, OnPath
<1>3. GroupGone /\ PidsOwned
  BY Zenon DEF AgentInv, GroupsInv
<1>4. CASE UNCHANGED groups
  <2>1. GroupGone' /\ PidsOwned'
    BY <1>3, <1>4, Zenon DEF GroupGone, PidsOwned, groups
  <2>2. CASE UNCHANGED todo
    BY <1>4, <2>1, <2>2, Zenon DEF AgentInv, GroupsInv, groups
  <2>3. CASE Calm'
    BY <2>1, <2>3, Zenon DEF GroupsInv, Calm
  <2>4. CASE Terminate
    <3>1. todo # <<>> /\ todo[1].do = "term" /\ Head(todo) = todo[1]
      BY <1>2, <2>4, AtHead, Zenon DEF Terminate
    <3>2. CASE todo[1].of \notin known
      <4>1. todo' = <<>> \o Tail(todo)
        BY <3>1, <3>2, <2>4, Zenon DEF Terminate
      <4>2. Tail(todo) \in Seq(Instruction)
        BY <1>2, <3>1, Tails, Zenon DEF Placed
      <4>3. todo' = Tail(todo)
        BY <4>1, <4>2
      <4>4. Calm'
        BY <4>3, <1>2, <3>1, Advance, Zenon DEF Calm
      <4> QED
        BY <4>4, <2>3, Zenon
    <3>3. CASE todo[1].of \in known
      <4>1. ProcessAlive(todo[1].of)
        BY <3>3, <1>3, Zenon DEF ProcessAlive, PidsOwned
      <4>2. todo' = <<[do |-> "grace", of |-> todo[1].of]>> \o Tail(todo)
        BY <3>1, <3>3, <4>1, <2>4, Zenon DEF Terminate
      <4>3. todo'[1] = [do |-> "grace", of |-> todo[1].of]
        BY <1>2, <3>1, <4>2, Wait, Zenon
      <4>4. todo'[1].do = "grace" /\ todo'[1].of = todo[1].of
        BY <4>3
      <4>5. "grace" # "reap"
        OBVIOUS
      <4> QED
        BY <2>1, <3>3, <4>4, <4>5, <1>4, Zenon DEF GroupsInv, groups
    <3> QED
      BY <3>2, <3>3
  <2>5. CASE GraceEnds
    <3>1. todo # <<>> /\ todo[1].do = "grace" /\ Head(todo) = todo[1]
      BY <1>2, <2>5, AtHead, Zenon DEF GraceEnds
    <3>2. todo[1].of \in known /\ ProcessAlive(todo[1].of)
      BY <3>1, <1>3, Zenon DEF AgentInv, GroupsInv, ProcessAlive, PidsOwned
    <3>3. PICK g \in Group : g = todo[1].of
      BY <3>2, <1>1, Zenon
    <3>4. KillGroup(g)
      BY <3>1, <3>2, <3>3, <2>5, Zenon DEF GraceEnds
    <3>5. leader[g] # "running" /\ kin[g] # "running"
      BY <3>4, <1>1, <1>4 DEF KillGroup, groups
    <3>6. todo' = <<[do |-> "reap", of |-> todo[1].of]>> \o Tail(todo)
      BY <3>1, <2>5, Zenon DEF GraceEnds
    <3>7. todo'[1] = [do |-> "reap", of |-> todo[1].of]
      BY <1>2, <3>1, <3>6, Wait, Zenon
    <3>8. todo'[1].of = g
      BY <3>3, <3>7
    <3> QED
      BY <2>1, <3>2, <3>3, <3>5, <3>8, <1>4, Zenon DEF GroupsInv, groups
  <2> QED
    BY <2>2, <2>3, <2>4, <2>5, <1>2, Zenon DEF Progress
<1>5. CASE GraceEnds
  <2>1. todo # <<>> /\ todo[1].do = "grace" /\ Head(todo) = todo[1]
    BY <1>2, <1>5, AtHead, Zenon DEF GraceEnds
  <2>2. todo[1].of \in known /\ ProcessAlive(todo[1].of)
    BY <2>1, <1>3, Zenon DEF AgentInv, GroupsInv, ProcessAlive, PidsOwned
  <2>3. PICK g \in Group : g = todo[1].of /\ g \in known
    BY <2>2, <1>1, Zenon
  <2>4. KillGroup(g) /\ known' = known
    BY <2>1, <2>2, <2>3, <1>5, Zenon DEF GraceEnds
  <2>5. leader'[g] # "running" /\ kin'[g] # "running" /\ leader'[g] # "none"
    BY <2>3, <2>4, <1>1, <1>3 DEF KillGroup, PidsOwned
  <2>6. Only(g)
    BY <2>4, <1>1 DEF KillGroup, Only
  <2>7. GroupGone' /\ PidsOwned'
    BY <2>3, <2>4, <2>5, <2>6, <1>1, OneGroup, Zenon
  <2>8. todo' = <<[do |-> "reap", of |-> todo[1].of]>> \o Tail(todo)
    BY <2>1, <1>5, Zenon DEF GraceEnds
  <2>9. todo'[1] = [do |-> "reap", of |-> todo[1].of]
    BY <1>2, <2>1, <2>8, Wait, Zenon
  <2>10. todo'[1].of = g
    BY <2>3, <2>9
  <2> QED
    BY <2>3, <2>4, <2>5, <2>7, <2>10, Zenon DEF GroupsInv
<1>6. CASE Reap
  <2>1. todo # <<>> /\ todo[1].do = "reap" /\ Head(todo) = todo[1] /\ todo' = Tail(todo)
    BY <1>2, <1>6, AtHead, Zenon DEF Reap, Continue
  <2>2. PICK g \in Group : g = todo[1].of /\ g \in known /\ kin[g] # "running"
    BY <2>1, <1>1, Zenon DEF AgentInv, GroupsInv
  <2>3. leader' = [leader EXCEPT ![g] = "none"] /\ known' = known \ {g} /\ kin' = kin
    BY <2>1, <2>2, <1>6, Zenon DEF Reap
  <2>4. Only(g) /\ g \notin known' /\ known' \subseteq Group
    BY <2>3, <1>1 DEF Only
  <2>5. leader'[g] = "none" /\ kin'[g] \in {"none", "dying", "left"}
    BY <2>2, <2>3, <1>1
  <2>6. GroupGone' /\ PidsOwned'
    BY <2>4, <2>5, OneGroup, Zenon
  <2>7. Calm'
    BY <2>1, <1>2, Advance, Zenon DEF Calm
  <2> QED
    BY <2>6, <2>7, Zenon DEF GroupsInv, Calm
<1>7. CASE ForkBridge \/ ForkXorg \/ ForkDesktop
  <2>1. Calm'
    <3>1. CASE todo' = CleanupPath
      BY <3>1, Begins DEF Calm
    <3>2. CASE todo' = Tail(todo)
      <4>1. todo # <<>>
        BY <1>7, Zenon DEF ForkBridge, ForkXorg, ForkDesktop, At
      <4> QED
        BY <4>1, <3>2, <1>2, Advance, Zenon DEF Calm
    <3> QED
      BY <3>1, <3>2, <1>7, Zenon DEF ForkBridge, ForkXorg, ForkDesktop, Fail, Continue
  <2>2. CASE UNCHANGED groups
    BY <2>2, <1>4, Zenon
  <2>3. CASE ~UNCHANGED groups
    <3>1. {"session", "xorg", "bridge"} = Group
      BY DEF Group
    <3>2. \E g \in Group : /\ known' = known \cup {g} /\ leader' = [leader EXCEPT ![g] = "running"]
                           /\ kin' = kin \/ kin' = [kin EXCEPT ![g] = "none"]
      <4>1. CASE ForkBridge
        BY <4>1, <2>3, <3>1, Zenon DEF ForkBridge, groups
      <4>2. CASE ForkXorg
        BY <4>2, <2>3, <3>1, Zenon DEF ForkXorg, groups
      <4>3. CASE ForkDesktop
        BY <4>3, <2>3, <3>1, Zenon DEF ForkDesktop, groups
      <4> QED
        BY <4>1, <4>2, <4>3, <1>7
    <3> QED
      BY <2>1, <3>2, Forked, Zenon
  <2> QED
    BY <2>2, <2>3
<1>8. CASE XorgExited
  <2>1. "xorg" \in Group
    BY DEF Group
  <2>2. /\ leader' = [leader EXCEPT !["xorg"] = "none"] /\ known' = known \ {"xorg"} /\ todo' = CleanupPath
        /\ kin' = [kin EXCEPT !["xorg"] = IF @ = "running" THEN "left" ELSE @]
    BY <1>8, Zenon DEF XorgExited, ForgetXorg
  <2>3. Only("xorg") /\ "xorg" \notin known' /\ known' \subseteq Group
    BY <2>1, <2>2, <1>1 DEF Only
  <2>4. leader'["xorg"] = "none" /\ kin'["xorg"] \in {"none", "dying", "left"}
    BY <2>1, <2>2, <1>1
  <2>5. GroupGone' /\ PidsOwned'
    BY <2>1, <2>3, <2>4, OneGroup, Zenon
  <2>6. Calm'
    BY <2>2, Begins DEF Calm
  <2> QED
    BY <2>5, <2>6, Zenon DEF GroupsInv, Calm
<1>9. CASE KillAgent
  <2>1. /\ todo' = <<>> /\ known' = {}
        /\ leader' = [g \in Group |-> "none"] /\ kin' = [g \in Group |-> "none"]
    BY <1>9, Zenon DEF KillAgent
  <2> QED
    BY <2>1 DEF GroupsInv, GroupGone, PidsOwned
<1>10. ASSUME NEW g \in Group, LeaderExits(g) \/ KinStarts(g) \/ KinExits(g) PROVE GroupsInv'
  <2>1. UNCHANGED <<todo, known>> /\ (leader[g] = "running" => g \in known)
    BY <1>3, <1>10, Zenon DEF LeaderExits, KinStarts, KinExits, GroupGone
  <2>2. CASE LeaderExits(g)
    <3>1. leader' = [leader EXCEPT ![g] = "zombie"] /\ kin' = kin /\ leader[g] # "none"
      BY <2>2 DEF LeaderExits
    <3>2. Only(g) /\ leader'[g] = "zombie" /\ kin'[g] = kin[g]
      BY <3>1, <2>1, <1>1 DEF Only
    <3>3. g \in known
      BY <3>1, <1>3 DEF GroupGone
    <3>4. GroupGone' /\ PidsOwned'
      BY <3>2, <3>3, <2>1, <1>1, OneGroup
    <3> QED
      BY <3>2, <3>4, <2>1, SameWait
  <2>3. CASE KinStarts(g)
    <3>1. leader' = leader /\ kin' = [kin EXCEPT ![g] = "running"] /\ leader[g] = "running"
      BY <2>3 DEF KinStarts
    <3>2. Only(g) /\ leader'[g] = "running"
      BY <3>1, <2>1, <1>1 DEF Only
    <3>3. GroupGone' /\ PidsOwned'
      BY <3>1, <3>2, <2>1, <1>1, OneGroup
    <3> QED
      BY <3>1, <3>2, <3>3, <2>1, SameWait
  <2>4. CASE KinExits(g)
    <3>1. leader' = leader /\ kin' = [kin EXCEPT ![g] = "none"]
      BY <2>4 DEF KinExits
    <3>2. Only(g) /\ kin'[g] = "none"
      BY <3>1, <2>1, <1>1 DEF Only
    <3>3. GroupGone' /\ PidsOwned'
      BY <3>1, <3>2, <2>1, <1>1, <1>3, OneGroup DEF GroupGone, PidsOwned
    <3> QED
      BY <3>1, <3>2, <3>3, <2>1, SameWait
  <2> QED
    BY <2>2, <2>3, <2>4, <1>10
<1> QED
  BY <1>4, <1>5, <1>6, <1>7, <1>8, <1>9, <1>10, GroupsTouched, Zenon

----------------------------------------------------------------------------
(* The copy of the lease.                                                  *)

\* An instruction is done by its handler, unless the agent is killed.
LEMMA WhoseTurn ==
  ASSUME OnPath, Next, ~UNCHANGED todo, ~KillAgent
  PROVE  /\ First(todo, "close") => CloseLease
         /\ First(todo, "fork_xorg") => ForkXorg
         /\ First(todo, "unlink") => UnlinkPaths
         /\ First(todo, "lock") => ReadLock
<1> SUFFICES ASSUME todo # <<>>
             PROVE  /\ todo[1].do = "close" => CloseLease
                    /\ todo[1].do = "fork_xorg" => ForkXorg
                    /\ todo[1].do = "unlink" => UnlinkPaths
                    /\ todo[1].do = "lock" => ReadLock
  BY Zenon DEF First
<1>1. \A code : At(code) => todo[1].do = code
  BY AtHead, Zenon
<1>2. Operation
  <2>1. CASE Loop
    BY <2>1, Zenon DEF Loop, ReceivePrepare, ReceiveStart, ReceiveStop, XorgExited, SessionFails, Quit,
      Exit, Launch, Idle
  <2>2. CASE Processes
    BY <2>2, Zenon DEF Processes, LeaderExits, KinStarts, KinExits, OrphanExits, Serve, Publish,
      TestSends, TestHangsUp, TestExits
  <2> QED
    BY <2>1, <2>2 DEF Next
<1>3. CASE Terminate \/ GraceEnds \/ Reap
  <2>1. At("term") \/ At("grace") \/ At("reap")
    BY <1>3, Zenon DEF Terminate, GraceEnds, Reap
  <2> QED
    BY <2>1, <1>1
<1>4. CASE ForkTest \/ PollTest \/ AwaitTest \/ FinishTest
  <2>1. At("fork_test") \/ At("poll") \/ At("window") \/ At("final")
    BY <1>4, Zenon DEF ForkTest, PollTest, AwaitTest, FinishTest
  <2> QED
    BY <2>1, <1>1
<1>5. CASE CloseLease \/ UnlinkPaths \/ ReadLock \/ ForkXorg
  <2>1. \/ At("close") /\ CloseLease
        \/ At("unlink") /\ UnlinkPaths
        \/ At("lock") /\ ReadLock
        \/ At("fork_xorg") /\ ForkXorg
    BY <1>5, ZenonT(60) DEF CloseLease, UnlinkPaths, ReadLock, ForkXorg
  <2> QED
    BY <2>1, <1>1
<1>6. CASE ForkBridge \/ AwaitPaths \/ ClearLock \/ Authorize \/ PrepareReady
  <2>1. At("fork_bridge") \/ At("await") \/ At("clear") \/ At("xauth") \/ At("ready")
    BY <1>6, Zenon DEF ForkBridge, AwaitPaths, ClearLock, Authorize, PrepareReady
  <2> QED
    BY <2>1, <1>1
<1>7. CASE ReadMode \/ AwaitXorg \/ ForkDesktop
  <2>1. At("mode") \/ At("startup") \/ At("desktop")
    BY <1>7, Zenon DEF ReadMode, AwaitXorg, ForkDesktop
  <2> QED
    BY <2>1, <1>1
<1> QED
  BY <1>2, <1>3, <1>4, <1>5, <1>6, <1>7 DEF Operation

\* In terminate_group the agent is in no start, and not at the end.
LEMMA TerminatingWhere ==
  ASSUME Terminating(todo)
  PROVE  /\ ~In(todo, "desktop", 2) /\ ~Left(todo, "unlink", 1)
         /\ ~Left(todo, "ready", 1) /\ ~Left(todo, "desktop", 1)
<1>1. PICK n, e : n = Len(todo) /\ e = todo[Len(todo)].do
  OBVIOUS
<1>2. /\ e = "unlink" \/ e = "ready"
      /\ n = 5 \/ n = 4 \/ n = 2 \/ n = 14 \/ n = 13 \/ n = 12
  BY <1>1, Zenon DEF Terminating, Left
<1>3. e # "desktop" /\ n # 1
  BY <1>2
<1> QED
  BY <1>1, <1>3, Zenon DEF Left, In

\* The lease copy is neither opened nor closed, Xorg is not forgotten, and the
\* agent is not at a point where it should be.
LEMMA LeaseQuiet ==
  ASSUME LeaseInv, UNCHANGED fds, "xorg" \in known => "xorg" \in known' \/ Terminating(todo),
         UNCHANGED todo \/ Passed(todo, todo'),
         UNCHANGED todo \/ (~First(todo, "close") /\ ~First(todo, "fork_xorg"))
  PROVE  LeaseInv'
<1>1. CASE UNCHANGED todo
  <2>1. todo = <<>> \/ Within("desktop", 2) => ~Terminating(todo)
    BY TerminatingWhere, Zenon DEF Within, Terminating, Left
  <2> QED
    BY <1>1, <2>1, Zenon DEF LeaseInv, Within
<1>2. CASE Passed(todo, todo') /\ ~First(todo, "close") /\ ~First(todo, "fork_xorg")
  <2>1. /\ Within("ready", 14)' => Within("ready", 14)
        /\ Within("unlink", 2)' => Within("unlink", 2)
        /\ Within("desktop", 2)' => Within("desktop", 2)
        /\ Within("desktop", 4)' => Within("desktop", 4) /\ (Within("desktop", 2) => Within("desktop", 2)')
    BY <1>2 DEF Passed, Within
  <2>2. todo' = <<>> => \/ Within("unlink", 2) \/ Within("ready", 14)
                       \/ (Within("desktop", 2) /\ ~Terminating(todo))
    <3>1. \A c : Left(todo, c, 1) => In(todo, c, 2) /\ In(todo, c, 14)
      BY LeftIn
    <3> QED
      BY <3>1, <1>2, TerminatingWhere, Zenon DEF Passed, Within
  <2>3. Within("desktop", 2) => ~Terminating(todo)
    BY TerminatingWhere, Zenon DEF Within
  <2> QED
    BY <2>1, <2>2, <2>3, Zenon DEF LeaseInv
<1> QED
  BY <1>1, <1>2, Zenon

\* close(g_lease) comes before everything that relies on it, on every path.
LEMMA LeaseKept == ASSUME AgentInv, Next PROVE LeaseInv'
<1>1. LeaseInv /\ OnPath /\ Placed(todo) /\ Progress
  BY EveryStep, Zenon DEF AgentInv, OnPath
<1>2. CASE CloseLease
  <2>1. todo # <<>> /\ todo[1].do = "close" /\ fds' = 0 /\ todo' = Tail(todo)
    BY <1>1, <1>2, AtHead, Zenon DEF CloseLease, Continue
  <2>2. Left(todo, "unlink", 3)
    BY <2>1, <1>1, Places, Zenon DEF Whereabouts
  <2>3. Passed(todo, todo')
    BY <2>1, <1>1, TailPassed, Zenon
  <2>4. ~Within("desktop", 2)'
    <3>1. ~In(todo, "desktop", 2)
      BY <2>2, LeftIn
    <3> QED
      BY <3>1, <2>1, <2>3 DEF Passed, Within, First
  <2> QED
    BY <2>1, <2>4, Zenon DEF LeaseInv
<1>3. CASE ForkXorg
  <2>1. todo # <<>> /\ todo[1].do = "fork_xorg"
    BY <1>1, <1>3, AtHead, Zenon DEF ForkXorg
  <2>2. Left(todo, "desktop", 3)
    BY <2>1, <1>1, Places, Zenon DEF Whereabouts
  <2>3. CASE todo' = CleanupPath
    <3>1. Left(todo', "unlink", 5)
      BY <2>3, Begins, Zenon
    <3> QED
      BY <3>1, LeftIn DEF LeaseInv, Within
  <2>4. CASE "xorg" \in known' /\ todo' = Tail(todo)
    <3>1. Placed(todo') /\ Len(todo') = 3 - 1 /\ (todo' # <<>> => todo'[Len(todo')] = todo[Len(todo)])
      BY <2>1, <2>2, <2>4, <1>1, Advance, Zenon DEF Left
    <3>2. 3 - 1 = 2 /\ 2 # 0
      OBVIOUS
    <3>3. todo' # <<>>
      BY <3>1, <3>2, SomethingLeft, Zenon DEF Placed
    <3>4. Left(todo', "desktop", 2)
      BY <3>1, <3>2, <3>3, <2>2, Zenon DEF Left
    <3> QED
      BY <3>4, <2>4, LeftIn DEF LeaseInv, Within
  <2> QED
    BY <2>3, <2>4, <1>3, Zenon DEF ForkXorg, Continue, Fail
<1>4. CASE KillAgent
  BY <1>4, Zenon DEF KillAgent, LeaseInv, Within, In
<1>5. CASE UNCHANGED fds /\ ~CloseLease /\ ~ForkXorg /\ ~KillAgent
  <2>1. CASE ReceivePrepare /\ todo' = PreparePath
    <3>1. Left(todo', "ready", 14) /\ fds' = 0
      BY <2>1, <1>1, <1>5, Begins, Zenon DEF ReceivePrepare, Idle, LeaseInv
    <3> QED
      BY <3>1, LeftIn DEF LeaseInv, Within
  <2>2. CASE ReceiveStart /\ todo' = StartPath
    <3>1. Left(todo', "desktop", 4) /\ fds' = 0
      BY <2>2, <1>1, <1>5, Begins, Zenon DEF ReceiveStart, Idle, LeaseInv
    <3> QED
      BY <3>1, LeftIn DEF LeaseInv, Within
  <2>3. CASE UNCHANGED todo \/ Passed(todo, todo')
    <3>1. UNCHANGED todo \/ (~First(todo, "close") /\ ~First(todo, "fork_xorg"))
      BY <1>1, <1>5, WhoseTurn, Zenon
    <3>2. CASE todo' = CleanupPath
      <4>1. Left(todo', "unlink", 5)
        BY <3>2, Begins, Zenon
      <4> QED
        BY <4>1, LeftIn DEF LeaseInv, Within
    <3>3. CASE todo' # CleanupPath
      <4>1. "xorg" \in known => "xorg" \in known' \/ Reap
        BY <3>3, <1>5, GroupsTouched, Zenon DEF groups, GraceEnds, ForkBridge, ForkDesktop, XorgExited,
          LeaderExits, KinStarts, KinExits
      <4>2. Reap => Terminating(todo)
        <5>1. Reap => todo # <<>> /\ todo[1].do = "reap"
          BY <1>1, AtHead, Zenon DEF Reap
        <5> QED
          BY <5>1, <1>1, Places, Zenon DEF Whereabouts
      <4> QED
        BY <4>1, <4>2, <3>1, <2>3, <1>1, <1>5, LeaseQuiet, Zenon
    <3> QED
      BY <3>2, <3>3
  <2> QED
    BY <2>1, <2>2, <2>3, <1>1, <1>5, Zenon DEF Progress
<1> QED
  BY <1>2, <1>3, <1>4, <1>5, LeaseTouched, Zenon

----------------------------------------------------------------------------
(* Display :1.                                                             *)

\* The agent that runs is one that was not killed.
LEMMA MeAgent == ASSUME TypeOK PROVE Me \in Agents /\ Me \notin killed
<1>1. \E a \in Agents : a \notin killed
  BY Zenon DEF TypeOK
<1> QED
  BY <1>1, Zenon DEF Me

\* What stands for no agent is none.
LEMMA NoAgents == ASSUME NEW a \in Agents PROVE a # "none" /\ a # "dead" /\ a # "former"
<1>1. a \notin NoAgent
  BY AgentAssumption, Zenon DEF AgentAssumption
<1> QED
  BY <1>1, Zenon DEF NoAgent

\* The display is not touched, and the lock is not about to be removed.
LEMMA DisplayQuiet ==
  ASSUME DisplayInv, UNCHANGED display, UNCHANGED todo \/ ~First(todo, "clear")'
  PROVE  DisplayInv'
BY Zenon DEF DisplayInv, First, display

\* The X server of agent a is gone.
LEMMA GoneKept ==
  ASSUME DisplayInv, NEW a, NEW clean, XorgGone(a, clean), UNCHANGED <<seen, raced, todo>>
  PROVE  DisplayInv'
<1>1. serving' = serving \ {a} /\ (lock # a => lock' = lock)
  BY Zenon DEF XorgGone
<1>2. ASSUME ~raced' PROVE \A b \in serving' : lock' = b
  <2>1. \A b \in serving : lock = b
    BY <1>2, Zenon DEF DisplayInv
  <2> QED
    BY <2>1, <1>1
<1> QED
  BY <1>2, Zenon DEF DisplayInv

\* No step lets a second X server in, unless the lock was replaced between the
\* look at it and the unlink.
LEMMA DisplayKept == ASSUME AgentInv, Next PROVE DisplayInv'
<1>1. DisplayInv /\ OnPath /\ Placed(todo) /\ Progress /\ TypeOK
  BY EveryStep, Zenon DEF AgentInv, OnPath
<1>2. CASE ReadLock
  <2>1. /\ First(todo, "lock") /\ seen' = lock /\ UNCHANGED <<raced, serving, lock>>
        /\ \/ todo' = CleanupPath
           \/ lock \notin Agents
    BY <1>1, <1>2, AtHead, Zenon DEF ReadLock, First, Fail, LockHeld
  <2>2. ~raced' => \A a \in serving' : lock' = a
    BY <2>1, <1>1, Zenon DEF DisplayInv
  <2>3. CASE todo' = CleanupPath
    <3>1. ~(todo' # <<>> /\ todo'[1].do = "clear")
      BY <2>3, Begins
    <3> QED
      BY <3>1, <2>2, Zenon DEF DisplayInv
  <2>4. CASE lock \notin Agents
    <3>1. lock \in {"none", "dead"}
      BY <2>4, <1>1 DEF TypeOK
    <3> QED
      BY <3>1, <2>1, <2>2, Zenon DEF DisplayInv
  <2> QED
    BY <2>1, <2>3, <2>4, Zenon
<1>3. CASE ClearLock
  <2>1. First(todo, "clear") /\ todo' = Tail(todo)
    BY <1>1, <1>3, AtHead, Zenon DEF ClearLock, First, Continue
  <2>2. seen \in {"none", "dead"}
    BY <2>1, <1>1, Zenon DEF DisplayInv, First
  <2>3. Passed(todo, todo')
    BY <2>1, <1>1, TailPassed, Zenon DEF First
  <2>4. ~First(todo', "clear")
    <3>1. "clear" # "lock"
      OBVIOUS
    <3> QED
      BY <3>1, <2>1, <2>3, Zenon DEF Passed, First
  <2>5. ASSUME ~raced' PROVE \A a \in serving' : lock' = a
    <3>1. /\ ~raced /\ serving' = serving /\ (seen # "none" => lock = seen)
          /\ seen = "none" => lock' = lock
      BY <2>5, <1>3, Zenon DEF ClearLock
    <3>2. \A a \in serving : lock = a /\ a \in Agents
      BY <3>1, <1>1, Zenon DEF DisplayInv, TypeOK
    <3>3. CASE seen = "none"
      BY <3>1, <3>2, <3>3, Zenon
    <3>4. CASE seen = "dead"
      <4>1. lock = "dead"
        BY <3>1, <3>4
      <4>2. serving = {}
        BY <4>1, <3>2, NoAgents
      <4> QED
        BY <4>2, <3>1, Zenon
    <3> QED
      BY <2>2, <3>3, <3>4
  <2> QED
    BY <2>4, <2>5, Zenon DEF DisplayInv, First
<1>4. CASE KillAgent
  <2>1. /\ todo' = <<>> /\ raced' = raced
        /\ \/ lock' = lock /\ serving' = serving
           \/ /\ serving' = serving \ {Me}
              /\ lock # Me => lock' = lock
    BY <1>4, Zenon DEF KillAgent
  <2>2. ASSUME ~raced' PROVE \A a \in serving' : lock' = a
    <3>1. \A a \in serving : lock = a
      BY <2>1, <2>2, <1>1, Zenon DEF DisplayInv
    <3> QED
      BY <3>1, <2>1
  <2> QED
    BY <2>1, <2>2, Zenon DEF DisplayInv
<1>5. ASSUME NEW g \in Group, LeaderExits(g) PROVE DisplayInv'
  <2>1. UNCHANGED <<seen, raced, todo>>
    BY <1>5, Zenon DEF LeaderExits
  <2>2. CASE g = "xorg"
    <3>1. \E clean : XorgGone(Me, clean)
      BY <2>2, <1>5, Zenon DEF LeaderExits
    <3> QED
      BY <3>1, <2>1, <1>1, GoneKept, Zenon
  <2>3. CASE g # "xorg"
    <3>1. UNCHANGED <<lock, sock, serving>>
      BY <2>3, <1>5, Zenon DEF LeaderExits
    <3>2. UNCHANGED display
      BY <3>1, <2>1, Zenon DEF display
    <3> QED
      BY <3>2, <2>1, <1>1, DisplayQuiet, Zenon
  <2> QED
    BY <2>2, <2>3
<1>6. ASSUME NEW o \in orphan, OrphanExits(o[1], o[2]) PROVE DisplayInv'
  <2>1. UNCHANGED <<seen, raced, todo>>
    BY <1>6, Zenon DEF OrphanExits
  <2>2. CASE o[2] = "xorg"
    <3>1. \E clean : XorgGone(o[1], clean)
      BY <2>2, <1>6, Zenon DEF OrphanExits
    <3> QED
      BY <3>1, <2>1, <1>1, GoneKept, Zenon
  <2>3. CASE o[2] # "xorg"
    <3>1. UNCHANGED <<lock, sock, serving>>
      BY <2>3, <1>6, Zenon DEF OrphanExits
    <3>2. UNCHANGED display
      BY <3>1, <2>1, Zenon DEF display
    <3> QED
      BY <3>2, <2>1, <1>1, DisplayQuiet, Zenon
  <2> QED
    BY <2>2, <2>3
<1>7. ASSUME NEW me \in Agents, Serve(me) PROVE DisplayInv'
  <2>1. /\ lock \in {"none", "dead"} /\ lock' = me /\ serving' = serving \cup {me}
        /\ UNCHANGED <<seen, raced, todo>>
    BY <1>7, Zenon DEF Serve
  <2>2. ASSUME ~raced' PROVE \A a \in serving' : lock' = a
    <3>1. \A a \in serving : lock = a /\ a \in Agents
      BY <2>1, <2>2, <1>1, Zenon DEF DisplayInv, TypeOK
    <3>2. serving = {}
      BY <3>1, <2>1, NoAgents
    <3> QED
      BY <3>2, <2>1
  <2> QED
    BY <2>1, <2>2, <1>1, Zenon DEF DisplayInv
<1>8. CASE UNCHANGED display /\ ~ReadLock /\ ~KillAgent
  <2>1. CASE UNCHANGED todo
    BY <2>1, <1>1, <1>8, DisplayQuiet, Zenon
  <2>2. CASE Passed(todo, todo') /\ ~UNCHANGED todo
    <3>1. ~First(todo, "lock")
      BY <2>2, <1>1, <1>8, WhoseTurn, Zenon
    <3>2. ~First(todo', "clear")
      BY <3>1, <2>2, Zenon DEF Passed
    <3> QED
      BY <3>2, <1>1, <1>8, DisplayQuiet, Zenon DEF First
  <2>3. CASE todo' = PreparePath \/ todo' = StartPath
    <3>1. ~First(todo', "clear")
      BY <2>3, Begins DEF First
    <3> QED
      BY <3>1, <1>1, <1>8, DisplayQuiet, Zenon DEF First
  <2> QED
    BY <2>1, <2>2, <2>3, <1>1, <1>8, Zenon DEF Progress
<1> QED
  BY <1>2, <1>3, <1>4, <1>5, <1>6, <1>7, <1>8, DisplayTouched, Zenon

----------------------------------------------------------------------------
(* The input bridge's paths.                                               *)

\* Nothing but the unlink lets the agent come to the bridge, and after it no
\* former bridge's file is there.
LEMMA InputKept == ASSUME AgentInv, Next PROVE InputInv'
<1>1. InputInv /\ OnPath /\ Placed(todo) /\ Progress /\ TypeOK
  BY EveryStep, Zenon DEF AgentInv, OnPath
<1>2. CASE UnlinkPaths
  <2>1. env' = "none" /\ paths' = paths
    BY <1>2, Zenon DEF UnlinkPaths
  <2>2. env' # "former"
    BY <2>1
  <2> QED
    BY <2>1, <2>2, <1>1, Zenon DEF InputInv
<1>3. CASE KillAgent
  <2>1. todo' = <<>> /\ paths' = "none"
    BY <1>3, Zenon DEF KillAgent
  <2> QED
    BY <2>1 DEF InputInv, Within, In
<1>4. CASE ReceivePrepare
  <2>1. paths' = "none" /\ todo' = PreparePath
    BY <1>4, Zenon DEF ReceivePrepare
  <2>2. ~Within("ready", 10)'
    <3>1. Left(todo', "ready", 14)
      BY <2>1, Begins, Zenon
    <3> QED
      BY <3>1, LeftIn DEF Within
  <2> QED
    BY <2>1, <2>2 DEF InputInv
<1>5. ASSUME NEW me \in Agents, Publish(me) PROVE InputInv'
  <2>1. env' = me /\ paths' = paths
    BY <1>5, Zenon DEF Publish
  <2> QED
    BY <2>1, <1>1, NoAgents, Zenon DEF InputInv
<1>6. CASE ~UnlinkPaths /\ ~KillAgent /\ ~ReceivePrepare
  <2>1. Within("ready", 10)' => Within("ready", 10)
    <3>1. CASE UNCHANGED todo
      BY <3>1, Zenon DEF Within
    <3>2. CASE Passed(todo, todo') /\ ~UNCHANGED todo
      BY <3>2, <1>1, <1>6, WhoseTurn, Zenon DEF Passed, Within
    <3>3. CASE todo' = StartPath
      <4>1. Left(todo', "desktop", 4)
        BY <3>3, Begins, Zenon
      <4> QED
        BY <4>1, LeftIn DEF Within
    <3> QED
      BY <3>1, <3>2, <3>3, <1>1, <1>6, Zenon DEF Progress
  <2>2. CASE UNCHANGED input \/ ForkBridge
    <3>1. env' = env /\ paths' = paths
      BY <2>2, Zenon DEF ForkBridge, input
    <3> QED
      BY <3>1, <2>1, <1>1, Zenon DEF InputInv
  <2>3. CASE AwaitPaths
    <3>1. First(todo, "await") /\ env' = env /\ (paths' = env \/ paths' = paths)
      BY <2>3, <1>1, AtHead, Zenon DEF AwaitPaths, First
    <3>2. Left(todo, "ready", 5)
      BY <3>1, <1>1, Places, Zenon DEF Whereabouts, First
    <3>3. Within("ready", 10)
      BY <3>2, LeftIn DEF Within
    <3> QED
      BY <3>1, <3>3, <1>1, Zenon DEF InputInv
  <2>4. CASE Launch
    <3>1. env' = env /\ paths' = "none"
      BY <2>4, Zenon DEF Launch
    <3>2. paths' # "former"
      BY <3>1
    <3> QED
      BY <3>1, <3>2, <2>1, <1>1, Zenon DEF InputInv
  <2>5. CASE \E me \in Agents : Publish(me)
    BY <2>5, <1>5, Zenon
  <2> QED
    BY <2>2, <2>3, <2>4, <2>5, <1>6, InputTouched, Zenon
<1> QED
  BY <1>2, <1>3, <1>4, <1>6, Zenon

----------------------------------------------------------------------------
(* Types.                                                                  *)

\* The conjuncts of TypeOK by component.
FlagTypes ==
  /\ up \in BOOLEAN /\ quit \in BOOLEAN /\ prepared \in BOOLEAN /\ started \in BOOLEAN
  /\ leaked \in BOOLEAN /\ loaded \in BOOLEAN /\ sock \in BOOLEAN /\ raced \in BOOLEAN

GroupTypes ==
  /\ known \subseteq Group
  /\ leader \in [Group -> {"none", "running", "dying", "zombie"}]
  /\ kin \in [Group -> {"none", "running", "dying", "left"}]

KilledTypes == killed \subseteq Agents /\ killed # Agents /\ orphan \subseteq killed \X {"xorg", "bridge"}

TestTypes ==
  test \in [st : {"none", "running", "exited"}, rec : {"none", "sent", "answered", "refused"},
            hup : BOOLEAN, clean : BOOLEAN]

DisplayTypes ==
  lock \in Agents \cup {"none", "dead"} /\ seen \in Agents \cup {"none", "dead"} /\ serving \subseteq Agents

InputTypes ==
  env \in Agents \cup {"none", "former"} /\ paths \in Agents \cup {"none", "former"} /\ told \subseteq Agents

TodoTypes == \A i \in 1 .. Len(todo) : todo[i].of \in Group \cup {"none"}

\* They make up TypeOK.
LEMMA TypeParts ==
  TypeOK <=> /\ FlagTypes /\ GroupTypes /\ KilledTypes /\ TestTypes /\ DisplayTypes /\ InputTypes
             /\ TodoTypes /\ fds \in {0, 1}
<1>1. {up, quit, prepared, started, leaked, loaded, sock, raced} \subseteq BOOLEAN <=> FlagTypes
  BY Zenon DEF FlagTypes
<1>2. {lock, seen} \subseteq Agents \cup {"none", "dead"} /\ serving \subseteq Agents <=> DisplayTypes
  BY Zenon DEF DisplayTypes
<1>3. {env, paths} \subseteq Agents \cup {"none", "former"} /\ told \subseteq Agents <=> InputTypes
  BY Zenon DEF InputTypes
<1> QED
  BY <1>1, <1>2, <1>3, Zenon DEF TypeOK, GroupTypes, KilledTypes, TestTypes, TodoTypes

\* The agent's own state.
LEMMA AgentTouched ==
  ASSUME Next
  PROVE  \/ UNCHANGED agent \/ CloseLease \/ PrepareReady \/ ForkXorg \/ ReceivePrepare \/ ReceiveStart
         \/ ReceiveStop \/ Quit \/ Exit \/ Launch \/ KillAgent
<1>1. CASE Operation
  BY <1>1, Zenon DEF Operation, Terminate, GraceEnds, Reap, UnlinkPaths, ForkTest, PollTest, AwaitTest,
    FinishTest, ForkBridge, AwaitPaths, ReadLock, ClearLock, Authorize, ReadMode, AwaitXorg, ForkDesktop
<1>2. CASE Loop
  BY <1>2, Zenon DEF Loop, XorgExited, SessionFails
<1>3. CASE Processes
  BY <1>3, Zenon DEF Processes, LeaderExits, KinStarts, KinExits, OrphanExits, Serve, Publish,
    TestSends, TestHangsUp, TestExits
<1> QED
  BY <1>1, <1>2, <1>3 DEF Next

\* Flags stay flags.
LEMMA FlagsKept == ASSUME FlagTypes, Next PROVE FlagTypes'
<1>1. up' \in BOOLEAN /\ quit' \in BOOLEAN /\ prepared' \in BOOLEAN /\ started' \in BOOLEAN /\ leaked' \in BOOLEAN
  <2>1. CASE UNCHANGED agent
    BY <2>1, Zenon DEF agent, FlagTypes
  <2>2. CASE CloseLease \/ PrepareReady \/ ForkXorg
    BY <2>2, Zenon DEF CloseLease, PrepareReady, ForkXorg, FlagTypes
  <2>3. CASE ReceivePrepare \/ ReceiveStart \/ ReceiveStop
    BY <2>3, Zenon DEF ReceivePrepare, ReceiveStart, ReceiveStop, FlagTypes
  <2>4. CASE Quit \/ Exit \/ Launch \/ KillAgent
    BY <2>4, Zenon DEF Quit, Exit, Launch, KillAgent, FlagTypes
  <2> QED
    BY <2>1, <2>2, <2>3, <2>4, AgentTouched, Zenon
<1>2. loaded' \in BOOLEAN
  <2>1. CASE UNCHANGED preflight
    BY <2>1, Zenon DEF preflight, FlagTypes
  <2>2. CASE ForkTest \/ PollTest \/ AwaitTest \/ FinishTest \/ KillAgent
    BY <2>2, Zenon DEF ForkTest, PollTest, AwaitTest, FinishTest, KillAgent, FlagTypes
  <2>3. CASE TestSends \/ TestHangsUp \/ TestExits
    BY <2>3, Zenon DEF TestSends, TestHangsUp, TestExits, FlagTypes
  <2> QED
    BY <2>1, <2>2, <2>3, PreflightTouched, Zenon
<1>3. sock' \in BOOLEAN /\ raced' \in BOOLEAN
  <2>1. CASE UNCHANGED display
    BY <2>1, Zenon DEF display, FlagTypes
  <2>2. CASE ReadLock \/ ClearLock \/ KillAgent
    BY <2>2, Zenon DEF ReadLock, ClearLock, KillAgent, FlagTypes
  <2>3. ASSUME NEW g \in Group, LeaderExits(g) PROVE sock' \in BOOLEAN /\ raced' \in BOOLEAN
    BY <2>3, Zenon DEF LeaderExits, XorgGone, FlagTypes
  <2>4. ASSUME NEW o \in orphan, OrphanExits(o[1], o[2]) PROVE sock' \in BOOLEAN /\ raced' \in BOOLEAN
    BY <2>4, Zenon DEF OrphanExits, XorgGone, FlagTypes
  <2>5. ASSUME NEW me \in Agents, Serve(me) PROVE sock' \in BOOLEAN /\ raced' \in BOOLEAN
    BY <2>5, Zenon DEF Serve, FlagTypes
  <2> QED
    BY <2>1, <2>2, <2>3, <2>4, <2>5, DisplayTouched, Zenon
<1> QED
  BY <1>1, <1>2, <1>3, Zenon DEF FlagTypes

\* The groups' states stay among those listed.
LEMMA GroupTypesKept == ASSUME GroupTypes, Next PROVE GroupTypes'
<1>1. CASE UNCHANGED groups
  BY <1>1, ZenonT(60) DEF groups, GroupTypes
<1>2. CASE GraceEnds
  BY <1>2 DEF GraceEnds, KillGroup, GroupTypes
<1>3. CASE Reap
  BY <1>3, Zenon DEF Reap, GroupTypes
<1>4. CASE ForkBridge \/ ForkXorg \/ ForkDesktop
  <2>1. "bridge" \in Group /\ "xorg" \in Group /\ "session" \in Group
    BY DEF Group
  <2>2. CASE ForkBridge
    BY <2>1, <2>2 DEF ForkBridge, GroupTypes
  <2>3. CASE ForkXorg
    BY <2>1, <2>3 DEF ForkXorg, groups, GroupTypes
  <2>4. CASE ForkDesktop
    BY <2>1, <2>4 DEF ForkDesktop, groups, GroupTypes
  <2> QED
    BY <2>2, <2>3, <2>4, <1>4
<1>5. CASE XorgExited
  BY <1>5 DEF XorgExited, ForgetXorg, GroupTypes
<1>6. CASE KillAgent
  BY <1>6 DEF KillAgent, GroupTypes
<1>7. ASSUME NEW g \in Group, LeaderExits(g) \/ KinStarts(g) \/ KinExits(g) PROVE GroupTypes'
  BY <1>7, Zenon DEF LeaderExits, KinStarts, KinExits, GroupTypes
<1> QED
  BY <1>1, <1>2, <1>3, <1>4, <1>5, <1>6, <1>7, GroupsTouched, Zenon

\* Only killed agents have orphans, and the last agent is not killed.
LEMMA KilledTypesKept == ASSUME TypeOK, Next PROVE KilledTypes'
<1>1. KilledTypes /\ Me \in Agents
  BY TypeParts, MeAgent, Zenon
<1>2. CASE UNCHANGED <<orphan, killed>>
  BY <1>1, <1>2, Zenon DEF KilledTypes
<1>3. CASE KillAgent
  <2>1. /\ killed' = killed \cup {Me} /\ killed' # Agents
        /\ orphan' = orphan \cup {<<Me, g>> : g \in {g \in {"xorg", "bridge"} : leader[g] = "running"}}
    BY <1>3, Zenon DEF KillAgent
  <2>2. orphan' \subseteq killed' \X {"xorg", "bridge"}
    BY <2>1, <1>1 DEF KilledTypes
  <2> QED
    BY <2>1, <2>2, <1>1 DEF KilledTypes
<1>4. ASSUME NEW o \in orphan, OrphanExits(o[1], o[2]) PROVE KilledTypes'
  <2>1. orphan' \subseteq orphan /\ killed' = killed
    BY <1>4, Zenon DEF OrphanExits
  <2> QED
    BY <2>1, <1>1, Zenon DEF KilledTypes
<1> QED
  BY <1>2, <1>3, <1>4, OrphansTouched, Zenon

\* A change of one field of the preflight's record.
LEMMA TestFields ==
  ASSUME TestTypes
  PROVE  /\ \A v \in {"none", "sent", "answered", "refused"} : (test' = [test EXCEPT !.rec = v]) => TestTypes'
         /\ \A v \in BOOLEAN : (test' = [test EXCEPT !.hup = v]) => TestTypes'
         /\ \A v \in {"none", "running", "exited"}, w \in BOOLEAN :
              (test' = [test EXCEPT !.st = v, !.clean = w]) => TestTypes'
         /\ (test' = NoTest) => TestTypes'
         /\ (test' = [NoTest EXCEPT !.st = "running"]) => TestTypes'
<1>1. TRUE \in BOOLEAN /\ FALSE \in BOOLEAN
  BY Zenon
<1>2. \A v \in {"none", "sent", "answered", "refused"} : (test' = [test EXCEPT !.rec = v]) => TestTypes'
  BY DEF TestTypes
<1>3. \A v \in BOOLEAN : (test' = [test EXCEPT !.hup = v]) => TestTypes'
  BY DEF TestTypes
<1>4. \A v \in {"none", "running", "exited"}, w \in BOOLEAN :
        (test' = [test EXCEPT !.st = v, !.clean = w]) => TestTypes'
  BY Zenon DEF TestTypes
<1>5. \A f \in BOOLEAN : [st |-> "none", rec |-> "none", hup |-> f, clean |-> f] \in
         [st : {"none", "running", "exited"}, rec : {"none", "sent", "answered", "refused"},
          hup : BOOLEAN, clean : BOOLEAN]
  OBVIOUS
<1>6. NoTest \in [st : {"none", "running", "exited"}, rec : {"none", "sent", "answered", "refused"},
                  hup : BOOLEAN, clean : BOOLEAN]
  BY <1>1, <1>5, Zenon DEF NoTest
<1>7. [NoTest EXCEPT !.st = "running"] \in
         [st : {"none", "running", "exited"}, rec : {"none", "sent", "answered", "refused"},
          hup : BOOLEAN, clean : BOOLEAN]
  BY <1>6
<1> QED
  BY <1>2, <1>3, <1>4, <1>6, <1>7, Zenon DEF TestTypes

\* The preflight's record keeps its shape.
LEMMA TestTypesKept == ASSUME TestTypes, Next PROVE TestTypes'
<1>1. CASE UNCHANGED test
  BY <1>1, Zenon DEF TestTypes
<1>2. ASSUME NEW ok \in BOOLEAN, Relay(ok) PROVE TestTypes'
  BY <1>2, TestFields, Zenon DEF Relay
<1>3. CASE ForkTest
  BY <1>1, <1>3, TestFields, Zenon DEF ForkTest
<1>4. CASE PollTest
  BY <1>1, <1>2, <1>4, Zenon DEF PollTest
<1>5. CASE AwaitTest \/ FinishTest
  BY <1>1, <1>2, <1>5, TestFields, Zenon DEF AwaitTest, FinishTest, Decide
<1>6. CASE KillAgent
  BY <1>6, TestFields, Zenon DEF KillAgent
<1>7. CASE TestSends \/ TestHangsUp
  BY <1>7, TestFields, Zenon DEF TestSends, TestHangsUp
<1>8. CASE TestExits
  <2>1. PICK w \in BOOLEAN : test' = [test EXCEPT !.st = "exited", !.clean = w]
    BY <1>8, Zenon DEF TestExits
  <2> QED
    BY <2>1, TestFields, Zenon
<1> QED
  BY <1>1, <1>3, <1>4, <1>5, <1>6, <1>7, <1>8, PreflightTouched, Zenon DEF preflight

\* The lock names an agent's X server or none.
LEMMA DisplayTypesKept == ASSUME TypeOK, Next PROVE DisplayTypes'
<1>1. DisplayTypes
  BY TypeParts, Zenon
<1>2. CASE UNCHANGED display
  BY <1>1, <1>2, Zenon DEF display, DisplayTypes
<1>3. CASE ReadLock \/ ClearLock
  BY <1>1, <1>3, Zenon DEF ReadLock, ClearLock, DisplayTypes
<1>4. CASE KillAgent
  BY <1>1, <1>4, Zenon DEF KillAgent, DisplayTypes
<1>5. ASSUME NEW g \in Group, LeaderExits(g) PROVE DisplayTypes'
  BY <1>1, <1>5, Zenon DEF LeaderExits, XorgGone, DisplayTypes
<1>6. ASSUME NEW o \in orphan, OrphanExits(o[1], o[2]) PROVE DisplayTypes'
  BY <1>1, <1>6, Zenon DEF OrphanExits, XorgGone, DisplayTypes
<1>7. ASSUME NEW me \in Agents, Serve(me) PROVE DisplayTypes'
  BY <1>1, <1>7, Zenon DEF Serve, DisplayTypes
<1> QED
  BY <1>2, <1>3, <1>4, <1>5, <1>6, <1>7, DisplayTouched, Zenon

\* The paths come from an agent's bridge, from a former one or from none.
LEMMA InputTypesKept == ASSUME TypeOK, Next PROVE InputTypes'
<1>1. InputTypes
  BY TypeParts, Zenon
<1>2. CASE UNCHANGED input
  BY <1>1, <1>2, Zenon DEF input, InputTypes
<1>3. CASE UnlinkPaths \/ ForkBridge
  BY <1>1, <1>3, Zenon DEF UnlinkPaths, ForkBridge, InputTypes
<1>4. CASE AwaitPaths \/ ReceivePrepare \/ Launch
  BY <1>1, <1>4, Zenon DEF AwaitPaths, ReceivePrepare, Launch, InputTypes
<1>5. CASE KillAgent
  BY <1>1, <1>5, Zenon DEF KillAgent, InputTypes
<1>6. ASSUME NEW me \in Agents, Publish(me) PROVE InputTypes'
  BY <1>1, <1>6, Zenon DEF Publish, InputTypes
<1> QED
  BY <1>2, <1>3, <1>4, <1>5, <1>6, InputTouched, Zenon

\* At most one copy of the lease is open.
LEMMA FdsKept == ASSUME AgentInv, Next PROVE fds' \in {0, 1}
<1>1. OnPath /\ Placed(todo) /\ LeaseInv /\ fds \in {0, 1}
  BY Zenon DEF AgentInv, OnPath, TypeOK
<1>2. CASE ForkXorg
  <2>1. Left(todo, "desktop", 3)
    <3>1. todo # <<>> /\ todo[1].do = "fork_xorg"
      BY <1>1, <1>2, AtHead, Zenon DEF ForkXorg
    <3> QED
      BY <3>1, <1>1, Places, Zenon DEF Whereabouts
  <2>2. Within("desktop", 4) /\ ~Within("desktop", 2)
    BY <2>1, LeftIn DEF Within
  <2>3. fds = 0
    BY <2>2, <1>1, Zenon DEF LeaseInv
  <2>4. fds' \in {fds, fds + 1}
    BY <1>2, Zenon DEF ForkXorg
  <2> QED
    BY <2>3, <2>4
<1>3. CASE UNCHANGED fds \/ CloseLease \/ KillAgent
  BY <1>1, <1>3, Zenon DEF CloseLease, KillAgent
<1> QED
  BY <1>2, <1>3, LeaseTouched, Zenon

\* All of it.
LEMMA TypesKept == ASSUME AgentInv, Next PROVE TypeOK'
<1>1. TypeOK /\ OnPath
  BY Zenon DEF AgentInv
<1>2. FlagTypes /\ GroupTypes /\ TestTypes
  BY <1>1, TypeParts, Zenon
<1>3. TodoTypes'
  <2>1. PICK s \in Seq(Instruction) : s = todo'
    BY <1>1, EveryStep, Zenon DEF Progress, OnPath, Placed
  <2>2. \A i \in 1 .. Len(s) : s[i] \in Instruction
    OBVIOUS
  <2>3. \A j \in Instruction : j.of \in Group \cup {"none"}
    BY DEF Instruction
  <2> QED
    BY <2>1, <2>2, <2>3, Zenon DEF TodoTypes
<1>4. /\ FlagTypes' /\ GroupTypes' /\ KilledTypes' /\ TestTypes' /\ DisplayTypes' /\ InputTypes'
      /\ fds' \in {0, 1}
  BY <1>1, <1>2, FlagsKept, GroupTypesKept, KilledTypesKept, TestTypesKept, DisplayTypesKept,
    InputTypesKept, FdsKept, Zenon
<1> QED
  BY <1>3, <1>4, ZenonT(60) DEF TypeOK, FlagTypes, GroupTypes, KilledTypes, TestTypes, DisplayTypes, InputTypes,
    TodoTypes

----------------------------------------------------------------------------
(* Theorems.                                                               *)

\* Before the first agent is launched nothing runs and nothing is open.
LEMMA AgentInit == ASSUME Init PROVE AgentInv
<1>1. OnPath
  BY Begins, Zenon DEF Init, OnPath
<1>2. TypeOK
  <2>1. FlagTypes /\ InputTypes /\ DisplayTypes
    BY Zenon DEF Init, FlagTypes, InputTypes, DisplayTypes
  <2>2. GroupTypes /\ TodoTypes
    BY DEF Init, GroupTypes, TodoTypes
  <2>3. KilledTypes
    BY AgentAssumption DEF AgentAssumption, Init, KilledTypes
  <2>4. TestTypes
    <3>1. \A f \in BOOLEAN : [st |-> "none", rec |-> "none", hup |-> f, clean |-> f] \in
            [st : {"none", "running", "exited"}, rec : {"none", "sent", "answered", "refused"},
             hup : BOOLEAN, clean : BOOLEAN]
      OBVIOUS
    <3> QED
      BY <3>1, Zenon DEF Init, TestTypes, NoTest
  <2>5. fds \in {0, 1}
    BY DEF Init
  <2> QED
    BY <2>1, <2>2, <2>3, <2>4, <2>5, TypeParts, Zenon
<1>3. GroupsInv
  BY DEF Init, GroupsInv, GroupGone, PidsOwned
<1>4. LeaseInv /\ DisplayInv /\ InputInv
  BY DEF Init, LeaseInv, DisplayInv, InputInv, Within, In
<1> QED
  BY <1>1, <1>2, <1>3, <1>4 DEF AgentInv

\* No step disturbs the invariant.
LEMMA AgentNext == ASSUME AgentInv, [Next]_vars PROVE AgentInv'
<1>1. CASE Next
  <2>1. OnPath'
    BY <1>1, EveryStep, Zenon DEF AgentInv, Progress
  <2> QED
    BY <1>1, <2>1, TypesKept, GroupsKept, LeaseKept, DisplayKept, InputKept, Zenon DEF AgentInv
<1>2. CASE UNCHANGED vars
  <2>1. UNCHANGED <<up, quit, prepared, started, fds, leaked, todo, known, leader, kin, orphan, test,
                    loaded, lock, sock, seen, raced, serving, env, told, paths, killed>>
    BY <1>2, Zenon DEF vars, agent, groups, preflight, display, input
  <2>2. OnPath' /\ TypeOK'
    BY <2>1, Zenon DEF AgentInv, OnPath, TypeOK
  <2>3. GroupsInv' /\ LeaseInv' /\ DisplayInv' /\ InputInv'
    BY <2>1, Zenon DEF AgentInv, GroupsInv, GroupGone, PidsOwned, LeaseInv, DisplayInv, InputInv, Within
  <2> QED
    BY <2>2, <2>3, Zenon DEF AgentInv
<1> QED
  BY <1>1, <1>2

\* The inductive invariant, for any number of agents that are killed one after
\* the other in the middle of whatever they do (run_agent, run-agent.sh).
THEOREM AgentInvariance == Spec => []AgentInv
<1>1. Init => AgentInv
  BY AgentInit, Zenon
<1>2. AgentInv /\ [Next]_vars => AgentInv'
  BY AgentNext, Zenon
<1> QED
  BY <1>1, <1>2, PTL DEF Spec

\* Types: in particular at most one copy of the lease is open, and only killed
\* agents leave orphans.
THEOREM AgentTypes == Spec => []TypeOK
<1>1. AgentInv => TypeOK
  BY Zenon DEF AgentInv
<1> QED
  BY <1>1, AgentInvariance, PTL

\* What terminate_group is through with does not run any more: the leader is
\* reaped and its kin has got SIGKILL or is gone.
THEOREM GroupsEnd == Spec => []GroupGone
<1>1. AgentInv => GroupGone
  BY Zenon DEF AgentInv, GroupsInv
<1> QED
  BY <1>1, AgentInvariance, PTL

\* A pid that the agent keeps in g_session, g_xorg or g_bridge is that of a
\* child not yet reaped, so that kill(-pid) hits no stranger.
THEOREM PidsAreOwn == Spec => []PidsOwned
<1>1. AgentInv => PidsOwned
  BY Zenon DEF AgentInv, GroupsInv
<1> QED
  BY <1>1, AgentInvariance, PTL

\* An agent in its loop that has no Xorg has closed the copy of the lease,
\* whatever failed before.
THEOREM LeaseIsReturned == Spec => []LeaseReturned
<1>1. AgentInv => LeaseReturned
  BY Zenon DEF AgentInv, LeaseInv, LeaseReturned, Idle
<1> QED
  BY <1>1, AgentInvariance, PTL

\* However many X servers killed agents left behind, at most one has display :1
\* unless a stale lock was replaced between prepare_session's look and unlink.
THEOREM DisplayIsExclusive == Spec => []OneServer
<1>1. AgentInv => OneServer
  BY Zenon DEF AgentInv, DisplayInv, OneServer
<1> QED
  BY <1>1, AgentInvariance, PTL

\* The agent never takes its input paths from a file that an earlier agent's
\* bridge left (prepare_session's unlink of input.env).
THEOREM PathsAreFresh == Spec => []PathsFresh
<1>1. AgentInv => PathsFresh
  BY Zenon DEF AgentInv, InputInv, PathsFresh
<1> QED
  BY <1>1, AgentInvariance, PTL

\* trace_preflight takes a child that loaded the tracer and exited cleanly, in
\* whichever order its record, its hangup, its exit and the time limit come.
THEOREM PreflightIsFair == Spec => PreflightAccepts
<1> DEFINE Good == (At("window") \/ At("final")) /\ test.st = "exited" /\ test.clean /\ loaded
<1>1. ASSUME AgentInv, Next, Good PROVE test' = test \/ ~up' \/ todo' # CleanupPath
  <2>1. OnPath /\ Placed(todo)
    BY <1>1, Zenon DEF AgentInv, OnPath
  <2>2. todo # <<>> /\ (todo[1].do = "window" \/ todo[1].do = "final")
    BY <2>1, <1>1, AtHead, Zenon
  <2>3. Left(todo, "ready", 8) \/ Left(todo, "ready", 7)
    BY <2>1, <2>2, Places, Zenon DEF Whereabouts
  <2>4. ASSUME todo' = todo PROVE todo' # CleanupPath
    <3>1. CleanupPath[Len(CleanupPath)].do = "unlink"
      BY Begins, Zenon DEF Left
    <3>2. todo[Len(todo)].do = "ready"
      BY <2>3, Zenon DEF Left
    <3> QED
      BY <3>1, <3>2, <2>4
  <2>5. CASE ForkTest \/ PollTest
    <3>1. todo[1].do = "fork_test" \/ todo[1].do = "poll"
      BY <2>5, <2>1, AtHead, Zenon DEF ForkTest, PollTest
    <3> QED
      BY <3>1, <2>2
  <2>6. CASE AwaitTest \/ FinishTest
    <3>1. Left(CleanupPath, "unlink", 5)
      BY Begins, Zenon
    <3>2. ASSUME todo' = Tail(Tail(todo)), todo[1].do = "window" PROVE todo' # CleanupPath
      <4>1. Left(todo', "ready", 6)
        BY <3>2, <2>1, <2>2, SkipPassed, Zenon
      <4> QED
        BY <4>1, <3>1 DEF Left
    <3>3. ASSUME todo' = Tail(todo), todo[1].do = "final" PROVE todo' # CleanupPath
      <4>1. Left(todo, "ready", 7)
        BY <3>3, <2>1, <2>2, Places, Zenon DEF Whereabouts
      <4>2. Len(todo') = 7 - 1
        BY <4>1, <3>3, <2>1, <2>2, Advance, Zenon DEF Left
      <4>3. Len(CleanupPath) = 5
        BY <3>1, Zenon DEF Left
      <4> QED
        BY <4>2, <4>3
    <3>4. CASE AwaitTest
      <4>1. todo[1].do = "window"
        BY <3>4, <2>1, AtHead, Zenon DEF AwaitTest
      <4>2. test' = test \/ todo' = Tail(Tail(todo))
        BY <3>4, <1>1, Zenon DEF AwaitTest, Decide
      <4> QED
        BY <4>1, <4>2, <3>2, Zenon
    <3>5. CASE FinishTest
      <4>1. todo[1].do = "final"
        BY <3>5, <2>1, AtHead, Zenon DEF FinishTest
      <4>2. todo' = Tail(todo)
        BY <3>5, <1>1, Zenon DEF FinishTest, Decide, FinalExited
      <4> QED
        BY <4>1, <4>2, <3>3, Zenon
    <3> QED
      BY <3>4, <3>5, <2>6
  <2>7. CASE TestSends \/ TestHangsUp \/ TestExits
    BY <2>4, <2>7, Zenon DEF TestSends, TestHangsUp, TestExits
  <2>8. CASE KillAgent
    BY <2>8, Zenon DEF KillAgent
  <2>9. CASE UNCHANGED preflight
    BY <2>9, Zenon DEF preflight
  <2> QED
    BY <2>5, <2>6, <2>7, <2>8, <2>9, <1>1, PreflightTouched, Zenon
<1>2. ASSUME AgentInv, [Next]_vars PROVE [Good => test' = test \/ ~up' \/ todo' # CleanupPath]_vars
  BY <1>1, <1>2, Zenon
<1> QED
  BY <1>2, AgentInvariance, PTL DEF Spec, PreflightAccepts
====
