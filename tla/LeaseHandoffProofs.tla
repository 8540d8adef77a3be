------------------------- MODULE LeaseHandoffProofs -------------------------
(***************************************************************************)
(* Proofs about LeaseHandoff, for every DRM topology and whatever calls    *)
(* fail: the composer's threads never wait for each other in a circle, a   *)
(* live lease is exclusive, and it starts from clean planes.               *)
(***************************************************************************)
EXTENDS LeaseHandoff, TLAPS

(* Which mutexes a thread holds at each instruction of a path.             *)

Plan(code, held) == [code |-> code, held |-> held]

StatusPlan == Plan(StatusPath,
  <<{}, {"lease"}, {"lease"}, {"lease", "pluggable"}, {"lease", "pluggable"}, {"lease"},
    {"lease", "external"}>>)
PreparePlan == Plan(PreparePath,
  <<{}, {"lease"}, {"lease"}, {"lease", "pluggable"}, {"lease", "pluggable"}, {"lease"},
    {"lease", "external"}>>)
PausePlan == Plan(PausePath, <<{}, {"lease"}, {"lease"}, {"lease", "external"}>>)
CreatePlan == Plan(CreatePath,
  <<{}, {"command"}, {"command", "lease"}, {"command", "lease"},
    {"command", "lease", "external"}, {"command", "lease", "external"},
    {"command", "lease", "external"}, {"command", "lease", "external"},
    {"command", "lease", "external"}>>)
ReleasePlan == Plan(ServerReleasePath,
  <<{}, {"lease"}, {"lease"}, {"lease", "external"}, {"lease", "external"}, {"lease"},
    {}, {}, {}, {"pluggable"}, {"pluggable", "external"}>>)
HotplugPlan == Plan(HotplugPath, <<{}, {}, {"pluggable"}, {"pluggable", "external"}>>)
BatchPlan(d) == Plan(BatchPath(d), <<{}, {"command"}, {"command"}, {"command", d}>>)

\* A batch whose PresentDisplay releases the lease first.
SecurePath(d) == ReleasePath \o <<Lock(d), Run("commit")>>
SecurePlan(d) == Plan(SecurePath(d),
  <<{"command"}, {"command", "lease"}, {"command", "lease"},
    {"command", "lease", "external"}, {"command", "lease", "external"},
    {"command", "lease"}, {"command"}, {"command", d}>>)

ServerPlans == {StatusPlan, PreparePlan, PausePlan, CreatePlan, ReleasePlan}
BatchPlans == {BatchPlan("builtin"), BatchPlan("external")}
SecurePlans == {SecurePlan("builtin"), SecurePlan("external")}
Plans(t) == IF t = "server" THEN ServerPlans
            ELSE IF t = "uevent" THEN {HotplugPlan} ELSE BatchPlans \cup SecurePlans

\* The order in which mutexes are taken; a display's mutex is always the last.
Rank(m) == IF m = "command" THEN 1 ELSE IF m = "lease" THEN 2
           ELSE IF m = "pluggable" THEN 3 ELSE 4

Codes == {"status", "find", "report", "begin", "select", "prepare", "sequence_pause", "pause",
          "sequence_create", "resolve", "list", "reset", "verify", "create", "release",
          "restore", "pending", "gate", "hotplug", "secure", "commit"}
Instruction == [op : {"lock", "unlock", "run"}, arg : Mutex \cup Codes]

\* s is what is left of the path from its k-th instruction on.
Rest(s, path, k) ==
  /\ s \in Seq(Instruction) /\ k \in 1 .. Len(path) /\ Len(s) = Len(path) - k + 1
  /\ \A i \in 1 .. Len(s) : s[i] = path[k + i - 1]

Owns(t, held) == \A m \in Mutex : owner[m] = t <=> m \in held

\* A thread that is not idle is somewhere on a path of its own, and holds what
\* the path took and has not given back.
Placed(t, pl, k) == pl \in Plans(t) /\ Rest(todo[t], pl.code, k) /\ Owns(t, pl.held[k])
Idle(t) == todo[t] = <<>> /\ Owns(t, {})
OnPath(t) == Idle(t) \/ \E pl \in Plans(t), k \in Nat : Placed(t, pl, k)
LockInv ==
  /\ owner \in [Mutex -> Thread \cup {"none"}] /\ DOMAIN todo = Thread
  /\ \A t \in Thread : OnPath(t)

\* The server is in the operation that ends with the code, n instructions or
\* less before its end.
Within(code, n) ==
  LET s == todo["server"] IN s # <<>> /\ s[Len(s)] = Run(code) /\ Len(s) <= n

\* What the server found out about the transition holds until its operation ends.
SessionInv ==
  /\ Within("prepare", 5) => state = "DRAINING" /\ phase = 0
  /\ Within("pause", 2) => state = "DRAINING" /\ phase = 1
  /\ Within("create", 6) => state = "DRAINING" /\ phase = 2

\* A live lease is of the paused external display and of the reserved plane.
LeaseInv ==
  lease # NoLease =>
    /\ phase = 3 /\ entry.active /\ Present /\ ~ext.on
    /\ lease.crtc = ext.crtc /\ lease.plane = entry.plane
    /\ lease.plane = reserved /\ reserved # 0

\* The lessee's CRTC shows its plane only.
CrtcInv ==
  lease # NoLease => \A p \in Planes : crtcOf[p] = lease.crtc => p = lease.plane

\* How far the final handoff has got with the planes.
SanitizeInv ==
  /\ Within("create", 4) => Present /\ ~ext.on /\ entry.plane = reserved /\ reserved # 0
  /\ Within("create", 3) /\ ~Within("create", 2) =>
       targets = SanitizeTargets /\ crtcOf[entry.plane] \in {0, ext.crtc}
  /\ Within("create", 2) =>
       /\ \A p \in Planes : crtcOf[p] # ext.crtc
       /\ crtcOf[entry.plane] = 0 /\ entry.plane \in targets
  /\ Within("create", 1) => entry.plane \in clean \cup skipped

BootTyped ==
  /\ drm \in Topologies /\ reserved \in Planes \cup {0}
  /\ pipes = AllocatorPipes(drm, reserved)

SessionTyped ==
  /\ state \in {"ANDROID", "DRAINING", "LEASED", "RESTORING", "ERROR"} /\ phase \in 0 .. 3
  /\ pending \in BOOLEAN /\ plugged \in BOOLEAN

DisplayTyped ==
  /\ ext \in [crtc : Crtcs \cup {0}, on : BOOLEAN] /\ ext.crtc # drm.crtcs[1]
  /\ entry \in [plane : Planes \cup {0}, active : BOOLEAN]
  /\ lease \in [crtc : Crtcs \cup {0}, plane : Planes \cup {0}]

PlanesTyped ==
  /\ crtcOf \in [Planes -> Crtcs \cup {0}]
  /\ clean \subseteq Planes /\ targets \subseteq Planes /\ skipped \subseteq Planes

Typed == BootTyped /\ SessionTyped /\ DisplayTyped /\ PlanesTyped

HandoffInv == LockInv /\ Typed /\ SessionInv /\ LeaseInv /\ CrtcInv /\ SanitizeInv

-----------------------------------------------------------------------------
(* The paths. *)

Finals == {"report", "prepare", "pause", "create", "hotplug", "commit"}

\* The mutexes that a piece of code runs under.
Needs(code) ==
  IF code \in {"status", "find", "report", "begin", "select", "prepare", "sequence_pause",
               "release"} THEN {"lease"}
  ELSE IF code \in {"pause", "restore"} THEN {"lease", "external"}
  ELSE IF code = "sequence_create" THEN {"command", "lease"}
  ELSE IF code \in {"resolve", "list", "reset", "verify", "create"}
         THEN {"command", "lease", "external"}
  ELSE IF code = "hotplug" THEN {"pluggable", "external"}
  ELSE IF code \in {"secure", "commit"} THEN {"command"} ELSE {}

\* One instruction changes what is held as the table says, takes mutexes in the
\* order of their ranks only, and the path ends with code that returns.
StepLocked(p, h, k) ==
  /\ p[k] \in Instruction /\ h[k] \subseteq Mutex
  /\ p[k].op = "lock" => /\ k < Len(p) /\ p[k].arg \in Mutex /\ h[k + 1] = h[k] \cup {p[k].arg}
                         /\ \A m \in h[k] : Rank(m) < Rank(p[k].arg)
  /\ p[k].op = "unlock" => k < Len(p) /\ p[k].arg \in h[k] /\ h[k + 1] = h[k] \ {p[k].arg}
  /\ p[k].op = "run" => /\ Needs(p[k].arg) \subseteq h[k]
                        /\ p[k].arg \in Finals \/ (k < Len(p) /\ h[k + 1] = h[k])
                        /\ p[k].arg \in {"status", "release"} => k + 4 <= Len(p) /\ h[k + 4] = h[k]

WellLocked(pl) == Len(pl.code) \in Nat /\ \A k \in 1 .. Len(pl.code) : StepLocked(pl.code, pl.held, k)

\* GetHdmiLeaseStatus.
LEMMA StatusLocked == WellLocked(StatusPlan)
<1> USE DEF StatusPlan, Plan, StatusPath, Lock, Unlock, Run
<1>1. StatusPlan.code = StatusPath /\ Len(StatusPath) = 7
  OBVIOUS
<1>2. \A k \in 1 .. 7 : StepLocked(StatusPath, StatusPlan.held, k)
  BY SMTT(60) DEF StepLocked, Instruction, Mutex, Codes, Rank, Needs, Finals
<1> QED
  BY <1>1, <1>2 DEF WellLocked

\* AcquireHdmiLease(PREPARE).
LEMMA PrepareLocked == WellLocked(PreparePlan)
<1> USE DEF PreparePlan, Plan, PreparePath, Lock, Unlock, Run
<1>1. PreparePlan.code = PreparePath /\ Len(PreparePath) = 7
  OBVIOUS
<1>2. \A k \in 1 .. 7 : StepLocked(PreparePath, PreparePlan.held, k)
  BY SMTT(60) DEF StepLocked, Instruction, Mutex, Codes, Rank, Needs, Finals
<1> QED
  BY <1>1, <1>2 DEF WellLocked

\* AcquireHdmiLease(PAUSE).
LEMMA PauseLocked == WellLocked(PausePlan)
<1> USE DEF PausePlan, Plan, PausePath, Lock, Unlock, Run
<1>1. PausePlan.code = PausePath /\ Len(PausePath) = 4
  OBVIOUS
<1>2. \A k \in 1 .. 4 : StepLocked(PausePath, PausePlan.held, k)
  BY DEF StepLocked, Instruction, Mutex, Codes, Rank, Needs, Finals
<1> QED
  BY <1>1, <1>2 DEF WellLocked

\* AcquireHdmiLease(CREATE).
LEMMA CreateLocked == WellLocked(CreatePlan)
<1> USE DEF CreatePlan, Plan, CreatePath, Lock, Unlock, Run
<1>1. CreatePlan.code = CreatePath /\ Len(CreatePath) = 9
  OBVIOUS
<1>2. \A k \in 1 .. 5 : StepLocked(CreatePath, CreatePlan.held, k)
  BY SMTT(60) DEF StepLocked, Instruction, Mutex, Codes, Rank, Needs, Finals
<1>3. \A k \in 6 .. 9 : StepLocked(CreatePath, CreatePlan.held, k)
  BY SMTT(60) DEF StepLocked, Instruction, Mutex, Codes, Rank, Needs, Finals
<1>4. 1 .. 9 = (1 .. 5) \cup (6 .. 9)
  OBVIOUS
<1> QED
  BY <1>1, <1>2, <1>3, <1>4, Zenon DEF WellLocked

\* The server's release, instruction by instruction.
LEMMA ReleaseCode ==
  LET p == ReleasePlan.code
  IN  /\ Len(p) = 11 /\ p[1] = Lock("lease") /\ p[2] = Run("release") /\ p[3] = Lock("external")
      /\ p[4] = Run("restore") /\ p[5] = Unlock("external") /\ p[6] = Unlock("lease")
      /\ p[7] = Run("pending") /\ p[8] = Run("gate") /\ p[9] = Lock("pluggable")
      /\ p[10] = Lock("external") /\ p[11] = Run("hotplug")
BY DEF ReleasePlan, Plan, ServerReleasePath, ReleasePath, HotplugPath

\* ReleaseHdmiLease in the server, with the deferred hotplug.
LEMMA ReleaseLocked == WellLocked(ReleasePlan)
<1>1. PICK p, h : p = ReleasePlan.code /\ h = ReleasePlan.held
  OBVIOUS
<1>2. /\ Len(p) = 11 /\ p[1] = Lock("lease") /\ p[2] = Run("release") /\ p[3] = Lock("external")
      /\ p[4] = Run("restore") /\ p[5] = Unlock("external") /\ p[6] = Unlock("lease")
      /\ p[7] = Run("pending") /\ p[8] = Run("gate") /\ p[9] = Lock("pluggable")
      /\ p[10] = Lock("external") /\ p[11] = Run("hotplug")
  BY <1>1, ReleaseCode, Zenon
<1>3. /\ h[1] = {} /\ h[2] = {"lease"} /\ h[3] = {"lease"} /\ h[4] = {"lease", "external"}
      /\ h[5] = {"lease", "external"} /\ h[6] = {"lease"} /\ h[7] = {} /\ h[8] = {}
      /\ h[9] = {} /\ h[10] = {"pluggable"} /\ h[11] = {"pluggable", "external"}
  BY <1>1 DEF ReleasePlan, Plan
<1>4. \A k \in 1 .. 11 : StepLocked(p, h, k)
  <2> USE <1>2, <1>3 DEF StepLocked, Lock, Unlock, Run, Instruction, Mutex, Codes, Rank, Needs,
                         Finals
  <2>1. StepLocked(p, h, 1)
    OBVIOUS
  <2>2. StepLocked(p, h, 2)
    OBVIOUS
  <2>3. StepLocked(p, h, 3)
    OBVIOUS
  <2>4. StepLocked(p, h, 4)
    OBVIOUS
  <2>5. StepLocked(p, h, 5)
    OBVIOUS
  <2>6. StepLocked(p, h, 6)
    OBVIOUS
  <2>7. StepLocked(p, h, 7)
    OBVIOUS
  <2>8. StepLocked(p, h, 8)
    OBVIOUS
  <2>9. StepLocked(p, h, 9)
    OBVIOUS
  <2>10. StepLocked(p, h, 10)
    OBVIOUS
  <2>11. StepLocked(p, h, 11)
    OBVIOUS
  <2> HIDE DEF StepLocked
  <2> QED
    BY <2>1, <2>2, <2>3, <2>4, <2>5, <2>6, <2>7, <2>8, <2>9, <2>10, <2>11
<1> QED
  BY <1>1, <1>2, <1>4 DEF WellLocked

\* UEventHandler.
LEMMA HotplugLocked == WellLocked(HotplugPlan)
<1> USE DEF HotplugPlan, Plan, HotplugPath, Lock, Unlock, Run
<1>1. HotplugPlan.code = HotplugPath /\ Len(HotplugPath) = 4
  OBVIOUS
<1>2. \A k \in 1 .. 4 : StepLocked(HotplugPath, HotplugPlan.held, k)
  BY DEF StepLocked, Instruction, Mutex, Codes, Rank, Needs, Finals
<1> QED
  BY <1>1, <1>2 DEF WellLocked

\* A batch of SurfaceFlinger, without and with a release in it.
LEMMA BatchLocked ==
  ASSUME NEW d \in {"builtin", "external"}
  PROVE  WellLocked(BatchPlan(d))
<1> USE DEF BatchPlan, Plan, BatchPath, Lock, Unlock, Run
<1>1. BatchPlan(d).code = BatchPath(d) /\ Len(BatchPath(d)) = 4
  OBVIOUS
<1>2. \A k \in 1 .. 4 : StepLocked(BatchPath(d), BatchPlan(d).held, k)
  BY SMTT(60) DEF StepLocked, Instruction, Mutex, Codes, Rank, Needs, Finals
<1> QED
  BY <1>1, <1>2 DEF WellLocked

\* The release inside PresentDisplay, instruction by instruction.
LEMMA SecureCode ==
  ASSUME NEW d
  PROVE  LET p == SecurePlan(d).code
         IN  /\ Len(p) = 8 /\ p[1] = Lock("lease") /\ p[2] = Run("release")
             /\ p[3] = Lock("external") /\ p[4] = Run("restore") /\ p[5] = Unlock("external")
             /\ p[6] = Unlock("lease") /\ p[7] = Lock(d) /\ p[8] = Run("commit")
BY DEF SecurePlan, Plan, SecurePath, ReleasePath

\* PresentDisplay with a release inside it.
LEMMA SecureLocked ==
  ASSUME NEW d \in {"builtin", "external"}
  PROVE  WellLocked(SecurePlan(d))
<1>1. PICK p, h : p = SecurePlan(d).code /\ h = SecurePlan(d).held
  OBVIOUS
<1>2. /\ Len(p) = 8 /\ p[1] = Lock("lease") /\ p[2] = Run("release") /\ p[3] = Lock("external")
      /\ p[4] = Run("restore") /\ p[5] = Unlock("external") /\ p[6] = Unlock("lease")
      /\ p[7] = Lock(d) /\ p[8] = Run("commit")
  BY <1>1, SecureCode, Zenon
<1>3. /\ h[1] = {"command"} /\ h[2] = {"command", "lease"} /\ h[3] = {"command", "lease"}
      /\ h[4] = {"command", "lease", "external"} /\ h[5] = {"command", "lease", "external"}
      /\ h[6] = {"command", "lease"} /\ h[7] = {"command"} /\ h[8] = {"command", d}
  BY <1>1 DEF SecurePlan, Plan
<1>4. \A k \in 1 .. 8 : StepLocked(p, h, k)
  <2> USE <1>2, <1>3 DEF StepLocked, Lock, Unlock, Run, Instruction, Mutex, Codes, Rank, Needs,
                         Finals
  <2>1. StepLocked(p, h, 1)
    OBVIOUS
  <2>2. StepLocked(p, h, 2)
    OBVIOUS
  <2>3. StepLocked(p, h, 3)
    OBVIOUS
  <2>4. StepLocked(p, h, 4)
    OBVIOUS
  <2>5. StepLocked(p, h, 5)
    OBVIOUS
  <2>6. StepLocked(p, h, 6)
    OBVIOUS
  <2>7. StepLocked(p, h, 7)
    OBVIOUS
  <2>8. StepLocked(p, h, 8)
    OBVIOUS
  <2> HIDE DEF StepLocked
  <2> QED
    BY <2>1, <2>2, <2>3, <2>4, <2>5, <2>6, <2>7, <2>8
<1> QED
  BY <1>1, <1>2, <1>4 DEF WellLocked

\* Every path of every thread takes its mutexes in order.
LEMMA AllLocked ==
  ASSUME NEW t \in Thread, NEW pl \in Plans(t)
  PROVE  WellLocked(pl)
BY StatusLocked, PrepareLocked, PauseLocked, CreateLocked, ReleaseLocked, HotplugLocked,
   BatchLocked, SecureLocked, Zenon
DEF Plans, ServerPlans, BatchPlans, SecurePlans, Thread

-----------------------------------------------------------------------------
(* The remaining instructions. *)

\* What is next of the rest of a path.
LEMMA RestHead ==
  ASSUME NEW s, NEW p, NEW k, Rest(s, p, k), Len(p) \in Nat
  PROVE  s # <<>> /\ Head(s) = p[k]
BY DEF Rest

\* What is last of it.
LEMMA RestEnd ==
  ASSUME NEW s, NEW p, NEW k, Rest(s, p, k), Len(p) \in Nat
  PROVE  /\ s \in Seq(Instruction) /\ s # <<>> /\ Len(s) \in Nat \ {0}
         /\ s[Len(s)] = p[Len(p)] /\ Len(s) = Len(p) - k + 1
BY DEF Rest

\* One instruction further.
LEMMA RestTail ==
  ASSUME NEW s, NEW p, NEW k, Rest(s, p, k), Len(p) \in Nat, k < Len(p)
  PROVE  Rest(Tail(s), p, k + 1)
<1>1. /\ s \in Seq(Instruction) /\ s # <<>> /\ Len(Tail(s)) = Len(s) - 1
      /\ \A i \in 1 .. Len(Tail(s)) : Tail(s)[i] = s[i + 1] /\ i + 1 \in 1 .. Len(s)
  BY DEF Rest
<1>2. Tail(s) \in Seq(Instruction)
  BY <1>1
<1> QED
  BY <1>1, <1>2 DEF Rest

\* Past four instructions.
LEMMA RestSkip ==
  ASSUME NEW s, NEW p, NEW k, Rest(s, p, k), Len(p) \in Nat, k + 4 <= Len(p)
  PROVE  Rest(SubSeq(s, 4 + 1, Len(s)), p, k + 4)
<1> DEFINE r == SubSeq(s, 4 + 1, Len(s))
<1>1. s \in Seq(Instruction) /\ Len(s) = Len(p) - k + 1 /\ k \in 1 .. Len(p)
  BY DEF Rest
<1>2. r \in Seq(Instruction) /\ Len(r) = Len(s) - 4
  BY <1>1
<1>3. \A i \in 1 .. Len(r) : r[i] = s[i + 4] /\ i + 4 \in 1 .. Len(s)
  BY <1>1, <1>2
<1> HIDE DEF r
<1>4. Rest(r, p, k + 4)
  BY <1>1, <1>2, <1>3 DEF Rest
<1> QED
  BY <1>4 DEF r

-----------------------------------------------------------------------------
(* Threads do not touch each other's instructions and mutexes. *)

\* What a step of t does to the other threads.
OnlyOf(t) ==
  /\ owner' \in [Mutex -> Thread \cup {"none"}] /\ DOMAIN todo' = Thread
  /\ \A u \in Thread \ {t} : /\ todo'[u] = todo[u]
                             /\ \A m \in Mutex : owner'[m] = u <=> owner[m] = u

\* A step that is one thread's own keeps every other thread on its path.
LEMMA OthersKept ==
  ASSUME LockInv, NEW t \in Thread, OnlyOf(t), OnPath(t)'
  PROVE  LockInv'
<1>1. ASSUME NEW u \in Thread \ {t} PROVE OnPath(u)'
  <2>1. todo'[u] = todo[u] /\ OnPath(u)
    BY Zenon DEF OnlyOf, LockInv
  <2>2. \A h : Owns(u, h) => Owns(u, h)'
    BY Zenon DEF Owns, OnlyOf
  <2>3. CASE Idle(u)
    BY <2>1, <2>2, <2>3, Zenon DEF OnPath, Idle
  <2>4. CASE \E pl \in Plans(u), k \in Nat : Placed(u, pl, k)
    BY <2>1, <2>2, <2>4, Zenon DEF OnPath, Placed
  <2> QED
    BY <2>1, <2>3, <2>4, Zenon DEF OnPath
<1> QED
  BY <1>1, Zenon DEF LockInv, OnlyOf

\* A busy thread is at some instruction of some path.
LEMMA Busy ==
  ASSUME LockInv, NEW t \in Thread, todo[t] # <<>>
  PROVE  \E pl \in Plans(t), k \in Nat :
           /\ Placed(t, pl, k) /\ WellLocked(pl) /\ Next1(t) = pl.code[k]
           /\ StepLocked(pl.code, pl.held, k) /\ Rest(todo[t], pl.code, k)
<1>1. PICK pl \in Plans(t), k \in Nat : Placed(t, pl, k)
  BY Zenon DEF LockInv, OnPath, Idle
<1>2. WellLocked(pl) /\ Rest(todo[t], pl.code, k)
  BY <1>1, AllLocked, Zenon DEF Placed
<1>3. Next1(t) = pl.code[k]
  <2>1. Len(pl.code) \in Nat
    BY <1>2, Zenon DEF WellLocked
  <2> QED
    BY <1>2, <2>1, RestHead DEF Next1
<1> QED
  BY <1>1, <1>2, <1>3, Zenon DEF WellLocked, Rest

\* An idle thread holds nothing.
LEMMA Lazy ==
  ASSUME LockInv, NEW t \in Thread, todo[t] = <<>>
  PROVE  Owns(t, {})
<1>1. ASSUME NEW pl \in Plans(t), NEW k \in Nat, Placed(t, pl, k) PROVE FALSE
  <2>1. Len(pl.code) \in Nat
    BY AllLocked, Zenon DEF WellLocked
  <2> QED
    BY <1>1, <2>1, RestHead, Zenon DEF Placed
<1> QED
  BY <1>1, Zenon DEF LockInv, OnPath, Idle

\* Code that does not return goes on with what follows it.
LEMMA ContinueKept ==
  ASSUME LockInv, NEW t \in Thread, NEW c, At(t, c), c \notin Finals, Continue(t)
  PROVE  LockInv' /\ todo'[t] = Tail(todo[t]) /\ \A u \in Thread \ {t} : todo'[u] = todo[u]
<1>1. todo[t] # <<>> /\ Next1(t) = Run(c)
  BY Zenon DEF At
<1>2. PICK pl \in Plans(t), k \in Nat :
        /\ Placed(t, pl, k) /\ WellLocked(pl) /\ Next1(t) = pl.code[k]
        /\ StepLocked(pl.code, pl.held, k) /\ Rest(todo[t], pl.code, k)
  BY <1>1, Busy, Zenon
<1>3. pl.code[k].op = "run" /\ pl.code[k].arg = c
  BY <1>1, <1>2 DEF Run
<1>4. k < Len(pl.code) /\ pl.held[k + 1] = pl.held[k] /\ Len(pl.code) \in Nat
  BY <1>2, <1>3, Zenon DEF StepLocked, WellLocked
<1>5. Rest(Tail(todo[t]), pl.code, k + 1) /\ k + 1 \in Nat
  BY <1>2, <1>4, RestTail
<1>6. /\ todo'[t] = Tail(todo[t]) /\ owner' = owner /\ DOMAIN todo' = Thread
      /\ \A u \in Thread \ {t} : todo'[u] = todo[u]
  BY DEF Continue, LockInv
<1>7. Placed(t, pl, k + 1)'
  BY <1>2, <1>4, <1>5, <1>6, Zenon DEF Placed, Owns
<1>8. OnPath(t)' /\ OnlyOf(t)
  BY <1>5, <1>6, <1>7, Zenon DEF OnPath, OnlyOf, LockInv
<1> QED
  BY <1>6, <1>8, OthersKept, Zenon

\* Every scope guard unlocks.
LEMMA ReturnKept ==
  ASSUME LockInv, NEW t \in Thread, Return(t)
  PROVE  LockInv' /\ todo'[t] = <<>> /\ \A u \in Thread \ {t} : todo'[u] = todo[u]
<1>1. /\ todo'[t] = <<>> /\ DOMAIN todo' = Thread
      /\ \A u \in Thread \ {t} : todo'[u] = todo[u]
  BY DEF Return, LockInv
<1>2. /\ owner' \in [Mutex -> Thread \cup {"none"}]
      /\ \A m \in Mutex : owner'[m] = IF owner[m] = t THEN "none" ELSE owner[m]
  BY DEF Return, LockInv
<1>3. t # "none"
  BY DEF Thread
<1>4. Owns(t, {})'
  BY <1>2, <1>3, Zenon DEF Owns
<1>5. \A u \in Thread \ {t}, m \in Mutex : owner'[m] = u <=> owner[m] = u
  BY <1>2 DEF Thread
<1>6. OnPath(t)' /\ OnlyOf(t)
  BY <1>1, <1>2, <1>4, <1>5, Zenon DEF OnPath, OnlyOf, Idle
<1> QED
  BY <1>1, <1>6, OthersKept, Zenon

\* GetHdmiLeaseStatus with a lease in progress, and a release with nothing to do.
LEMMA SkipKept ==
  ASSUME LockInv, NEW t \in Thread, NEW c \in {"status", "release"}, At(t, c), Skip(t, 4)
  PROVE  /\ LockInv' /\ todo'[t] = SubSeq(todo[t], 4 + 1, Len(todo[t]))
         /\ \A u \in Thread \ {t} : todo'[u] = todo[u]
<1>1. todo[t] # <<>> /\ Next1(t) = Run(c)
  BY Zenon DEF At
<1>2. PICK pl \in Plans(t), k \in Nat :
        /\ Placed(t, pl, k) /\ WellLocked(pl) /\ Next1(t) = pl.code[k]
        /\ StepLocked(pl.code, pl.held, k) /\ Rest(todo[t], pl.code, k)
  BY <1>1, Busy, Zenon
<1>3. pl.code[k].op = "run" /\ pl.code[k].arg = c
  BY <1>1, <1>2 DEF Run
<1>4. k + 4 <= Len(pl.code) /\ pl.held[k + 4] = pl.held[k] /\ Len(pl.code) \in Nat
  BY <1>2, <1>3, Zenon DEF StepLocked, WellLocked
<1>5. Rest(SubSeq(todo[t], 4 + 1, Len(todo[t])), pl.code, k + 4)
  BY <1>2, <1>4, RestSkip, Zenon
<1>6. k + 4 \in Nat
  OBVIOUS
<1>7. /\ todo'[t] = SubSeq(todo[t], 4 + 1, Len(todo[t])) /\ owner' = owner
      /\ DOMAIN todo' = Thread /\ \A u \in Thread \ {t} : todo'[u] = todo[u]
  BY DEF Skip, LockInv
<1>8. Placed(t, pl, k + 4)'
  BY <1>2, <1>4, <1>5, <1>7, Zenon DEF Placed, Owns
<1>9. OnPath(t)' /\ OnlyOf(t)
  BY <1>6, <1>7, <1>8, Zenon DEF OnPath, OnlyOf, LockInv
<1> QED
  BY <1>7, <1>9, OthersKept, Zenon

\* A new operation starts at the first instruction of its path.
LEMMA BeginKept ==
  ASSUME LockInv, NEW t \in Thread, NEW pl \in Plans(t), todo[t] = <<>>, owner' = owner,
         todo' = [todo EXCEPT ![t] = pl.code], pl.held[1] = {}, Rest(pl.code, pl.code, 1)
  PROVE  LockInv' /\ todo'[t] = pl.code /\ \A u \in Thread \ {t} : todo'[u] = todo[u]
<1>1. /\ todo'[t] = pl.code /\ DOMAIN todo' = Thread
      /\ \A u \in Thread \ {t} : todo'[u] = todo[u]
  BY DEF LockInv
<1>2. Owns(t, {})
  BY Lazy, Zenon
<1>3. Placed(t, pl, 1)'
  BY <1>1, <1>2, Zenon DEF Placed, Owns
<1>4. OnPath(t)' /\ OnlyOf(t)
  BY <1>1, <1>3 DEF OnPath, OnlyOf, LockInv
<1> QED
  BY <1>1, <1>4, OthersKept, Zenon

\* The paths of the server's requests, of the hotplug thread and of a batch.
LEMMA Started ==
  ASSUME NEW pl \in ServerPlans \cup {HotplugPlan} \cup BatchPlans
  PROVE  pl.held[1] = {} /\ Rest(pl.code, pl.code, 1)
<1> USE DEF Rest, Lock, Unlock, Run, Instruction, Mutex, Codes
<1>1. CASE pl = StatusPlan
  BY <1>1 DEF StatusPlan, Plan, StatusPath
<1>2. CASE pl = PreparePlan
  BY <1>2 DEF PreparePlan, Plan, PreparePath
<1>3. CASE pl = PausePlan
  BY <1>3 DEF PausePlan, Plan, PausePath
<1>4. CASE pl = CreatePlan
  BY <1>4 DEF CreatePlan, Plan, CreatePath
<1>5. CASE pl = ReleasePlan
  BY <1>5 DEF ReleasePlan, Plan, ServerReleasePath, ReleasePath, HotplugPath
<1>6. CASE pl = HotplugPlan
  BY <1>6 DEF HotplugPlan, Plan, HotplugPath
<1>7. CASE pl \in BatchPlans
  <2>1. PICK d \in {"builtin", "external"} : pl = BatchPlan(d)
    BY <1>7, Zenon DEF BatchPlans
  <2> QED
    BY <2>1 DEF BatchPlan, Plan, BatchPath
<1> QED
  BY <1>1, <1>2, <1>3, <1>4, <1>5, <1>6, <1>7, Zenon DEF ServerPlans

\* std::lock_guard: the mutex was free, and is the thread's now.
LEMMA AcquireKept ==
  ASSUME LockInv, NEW t \in Thread, Acquire(t)
  PROVE  LockInv' /\ todo'[t] = Tail(todo[t]) /\ \A u \in Thread \ {t} : todo'[u] = todo[u]
<1>1. todo[t] # <<>> /\ Next1(t).op = "lock" /\ owner[Next1(t).arg] = "none"
  BY Zenon DEF Acquire
<1>2. PICK pl \in Plans(t), k \in Nat :
        /\ Placed(t, pl, k) /\ WellLocked(pl) /\ Next1(t) = pl.code[k]
        /\ StepLocked(pl.code, pl.held, k) /\ Rest(todo[t], pl.code, k)
  BY <1>1, Busy, Zenon
<1>3. PICK m \in Mutex : /\ m = Next1(t).arg /\ pl.held[k + 1] = pl.held[k] \cup {m}
                         /\ k < Len(pl.code) /\ Len(pl.code) \in Nat
  BY <1>1, <1>2, Zenon DEF StepLocked, WellLocked
<1>4. Rest(Tail(todo[t]), pl.code, k + 1) /\ k + 1 \in Nat
  BY <1>2, <1>3, RestTail
<1>5. /\ todo'[t] = Tail(todo[t]) /\ DOMAIN todo' = Thread
      /\ \A u \in Thread \ {t} : todo'[u] = todo[u]
  BY DEF Acquire, LockInv
<1>6. /\ owner' \in [Mutex -> Thread \cup {"none"}] /\ owner[m] = "none" /\ owner'[m] = t
      /\ \A n \in Mutex \ {m} : owner'[n] = owner[n]
  BY <1>1, <1>3 DEF Acquire, LockInv
<1>7. t # "none" /\ \A u \in Thread : u # "none"
  BY DEF Thread
<1>8. Owns(t, pl.held[k + 1])'
  BY <1>2, <1>3, <1>6, Zenon DEF Placed, Owns
<1>9. Placed(t, pl, k + 1)'
  BY <1>4, <1>5, <1>8, Zenon DEF Placed
<1>10. OnPath(t)' /\ OnlyOf(t)
  BY <1>4, <1>5, <1>6, <1>7, <1>9, ZenonT(60) DEF OnPath, OnlyOf
<1> QED
  BY <1>5, <1>10, OthersKept, Zenon

\* The end of a lock's scope.
LEMMA FreeKept ==
  ASSUME LockInv, NEW t \in Thread, Free(t)
  PROVE  LockInv' /\ todo'[t] = Tail(todo[t]) /\ \A u \in Thread \ {t} : todo'[u] = todo[u]
<1>1. todo[t] # <<>> /\ Next1(t).op = "unlock"
  BY Zenon DEF Free
<1>2. PICK pl \in Plans(t), k \in Nat :
        /\ Placed(t, pl, k) /\ WellLocked(pl) /\ Next1(t) = pl.code[k]
        /\ StepLocked(pl.code, pl.held, k) /\ Rest(todo[t], pl.code, k)
  BY <1>1, Busy, Zenon
<1>3. PICK m \in Mutex : /\ m = Next1(t).arg /\ pl.held[k + 1] = pl.held[k] \ {m}
                         /\ m \in pl.held[k] /\ k < Len(pl.code) /\ Len(pl.code) \in Nat
  BY <1>1, <1>2, Zenon DEF StepLocked, WellLocked
<1>4. Rest(Tail(todo[t]), pl.code, k + 1) /\ k + 1 \in Nat
  BY <1>2, <1>3, RestTail
<1>5. /\ todo'[t] = Tail(todo[t]) /\ DOMAIN todo' = Thread
      /\ \A u \in Thread \ {t} : todo'[u] = todo[u]
  BY DEF Free, LockInv
<1>6. /\ owner' \in [Mutex -> Thread \cup {"none"}] /\ owner'[m] = "none"
      /\ \A n \in Mutex \ {m} : owner'[n] = owner[n]
  BY <1>3 DEF Free, LockInv
<1>7. owner[m] = t /\ \A u \in Thread : u # "none"
  BY <1>2, <1>3 DEF Thread, Placed, Owns
<1>8. Owns(t, pl.held[k + 1])'
  BY <1>2, <1>3, <1>6, <1>7 DEF Placed, Owns
<1>9. Placed(t, pl, k + 1)'
  BY <1>4, <1>5, <1>8, Zenon DEF Placed
<1>10. OnPath(t)' /\ OnlyOf(t)
  BY <1>4, <1>5, <1>6, <1>7, <1>9, ZenonT(60) DEF OnPath, OnlyOf
<1> QED
  BY <1>5, <1>10, OthersKept, Zenon

\* What a concatenation consists of.
LEMMA Joined ==
  ASSUME NEW q \in Seq(Instruction), NEW r \in Seq(Instruction)
  PROVE  /\ q \o r \in Seq(Instruction) /\ Len(q \o r) = Len(q) + Len(r)
         /\ \A i \in 1 .. Len(q) : (q \o r)[i] = q[i]
         /\ \A i \in 1 .. Len(r) : (q \o r)[Len(q) + i] = r[i]
<1>1. q \o r \in Seq(Instruction) /\ Len(q \o r) = Len(q) + Len(r)
  OBVIOUS
<1>2. \A i \in 1 .. Len(q) : (q \o r)[i] = q[i]
  OBVIOUS
<1>3. \A i \in 1 .. Len(r) : (q \o r)[Len(q) + i] = r[i]
  OBVIOUS
<1> QED
  BY <1>1, <1>2, <1>3

\* The release is put before the rest of a batch.
LEMMA Spliced ==
  ASSUME NEW d, NEW r \in Seq(Instruction), Len(r) = 2, r[1] = Lock(d), r[2] = Run("commit")
  PROVE  Rest(ReleasePath \o r, SecurePlan(d).code, 1)
<1>1. ReleasePath \in Seq(Instruction) /\ Len(ReleasePath) = 6
  BY DEF ReleasePath, Lock, Unlock, Run, Instruction, Mutex, Codes
<1>2. PICK q, j : q \in Seq(Instruction) /\ q = ReleasePath /\ Len(q) = 6 /\ j = q \o r
  BY <1>1, Zenon
<1>3. /\ j \in Seq(Instruction) /\ Len(j) = 6 + 2
      /\ \A i \in 1 .. 6 : j[i] = ReleasePath[i]
      /\ \A i \in 1 .. 2 : j[6 + i] = r[i]
  <2>1. /\ j \in Seq(Instruction) /\ Len(j) = Len(q) + Len(r)
        /\ \A i \in 1 .. Len(q) : j[i] = q[i]
        /\ \A i \in 1 .. Len(r) : j[Len(q) + i] = r[i]
    BY <1>2, Joined, ZenonT(60)
  <2> QED
    BY <1>2, <2>1, Zenon
<1>4. j[7] = Lock(d) /\ j[8] = Run("commit")
  BY <1>3
<1>5. \A i \in 1 .. 6 : ReleasePath[i] = SecurePlan(d).code[i]
  BY SecureCode DEF ReleasePath
<1>6. \A i \in 1 .. 8 : i \in 1 .. 6 \/ i = 7 \/ i = 8
  OBVIOUS
<1>7. \A i \in 1 .. 8 : j[i] = SecurePlan(d).code[i]
  BY <1>3, <1>4, <1>5, <1>6, SecureCode, Zenon
<1>8. PICK p : p = SecurePlan(d).code /\ Len(p) = 8
  BY SecureCode, Zenon
<1>9. Rest(j, p, 1)
  BY <1>3, <1>7, <1>8 DEF Rest
<1> QED
  BY <1>2, <1>8, <1>9, Zenon

\* PresentDisplay: the release comes before the rest of the batch.
LEMMA SecureKept ==
  ASSUME LockInv, HandleSecureSession
  PROVE  LockInv' /\ todo'["server"] = todo["server"]
<1> DEFINE t == "surfaceflinger"
<1>1. t \in Thread /\ todo[t] # <<>> /\ Next1(t) = Run("secure")
  BY Zenon DEF HandleSecureSession, At, Thread
<1>2. PICK pl \in Plans(t), k \in Nat :
        /\ Placed(t, pl, k) /\ WellLocked(pl) /\ Next1(t) = pl.code[k]
        /\ StepLocked(pl.code, pl.held, k) /\ Rest(todo[t], pl.code, k)
  BY <1>1, Busy, Zenon
<1>3. pl.code[k] = Run("secure") /\ k \in 1 .. Len(pl.code)
  BY <1>1, <1>2, Zenon DEF Rest
<1>4. PICK d \in {"builtin", "external"} : pl = BatchPlan(d) /\ k = 2
  <2>1. ASSUME NEW d \in {"builtin", "external"}, pl = SecurePlan(d) PROVE FALSE
    <3>1. k \in 1 .. 8
      BY <1>3, <2>1, SecureCode, Zenon
    <3>2. k = 1 \/ k = 2 \/ k = 3 \/ k = 4 \/ k = 5 \/ k = 6 \/ k = 7 \/ k = 8
      BY <3>1
    <3>3. /\ Lock("lease") # Run("secure") /\ Lock("external") # Run("secure")
          /\ Unlock("lease") # Run("secure") /\ Unlock("external") # Run("secure")
          /\ Lock(d) # Run("secure") /\ Run("release") # Run("secure")
          /\ Run("restore") # Run("secure") /\ Run("commit") # Run("secure")
      BY DEF Lock, Unlock, Run
    <3> QED
      BY <1>3, <2>1, <3>2, <3>3, SecureCode, Zenon
  <2>2. ASSUME NEW d \in {"builtin", "external"}, pl = BatchPlan(d) PROVE k = 2
    BY <1>3, <2>2 DEF BatchPlan, BatchPath, Plan, Lock, Run
  <2>3. \E d \in {"builtin", "external"} : pl = SecurePlan(d) \/ pl = BatchPlan(d)
    BY DEF Plans, BatchPlans, SecurePlans
  <2> QED
    BY <2>1, <2>2, <2>3, Zenon
<1>5. /\ todo'[t] \in {Tail(todo[t]), ReleasePath \o Tail(todo[t])} /\ owner' = owner
      /\ DOMAIN todo' = Thread /\ \A u \in Thread \ {t} : todo'[u] = todo[u]
  BY <1>1 DEF HandleSecureSession, LockInv
<1>6. /\ Len(pl.code) = 4 /\ pl.code[3] = Lock(d) /\ pl.code[4] = Run("commit")
      /\ pl.held[3] = pl.held[2]
  BY <1>4 DEF BatchPlan, Plan, BatchPath
<1>7. Rest(Tail(todo[t]), pl.code, 3) /\ Owns(t, pl.held[3])'
  <2>1. Rest(todo[t], pl.code, 2) /\ Len(pl.code) \in Nat /\ 2 < Len(pl.code)
    BY <1>2, <1>4, <1>6
  <2>2. Rest(Tail(todo[t]), pl.code, 2 + 1)
    BY <2>1, RestTail, Zenon
  <2> QED
    BY <1>2, <1>4, <1>5, <1>6, <2>2 DEF Placed, Owns
<1>8. OnPath(t)'
  <2>1. CASE todo'[t] = Tail(todo[t])
    BY <1>7, <2>1 DEF OnPath, Placed
  <2>2. CASE todo'[t] = ReleasePath \o Tail(todo[t])
    <3>1. Rest(ReleasePath \o Tail(todo[t]), SecurePlan(d).code, 1)
      <4>1. Tail(todo[t]) \in Seq(Instruction) /\ Len(Tail(todo[t])) = 4 - 3 + 1
        BY <1>6, <1>7, Zenon DEF Rest
      <4>2. PICK r \in Seq(Instruction) : r = Tail(todo[t]) /\ Len(r) = 2
        <5>1. 4 - 3 + 1 = 2
          OBVIOUS
        <5> QED
          BY <4>1, <5>1, Zenon
      <4>3. \A i \in 1 .. 2 : r[i] = pl.code[3 + i - 1]
        BY <1>7, <4>2, Zenon DEF Rest
      <4>4. r[1] = pl.code[3] /\ r[2] = pl.code[4]
        BY <4>3
      <4> QED
        BY <1>6, <4>2, <4>4, Spliced, Zenon
    <3>2. SecurePlan(d) \in Plans(t)
      BY <1>4 DEF Plans, SecurePlans
    <3>3. SecurePlan(d).held[1] = pl.held[3]
      BY <1>4 DEF SecurePlan, Plan, BatchPlan
    <3>4. Placed(t, SecurePlan(d), 1)'
      BY <1>7, <2>2, <3>1, <3>2, <3>3, Zenon DEF Placed
    <3> QED
      BY <3>2, <3>4 DEF OnPath
  <2> QED
    BY <1>5, <2>1, <2>2, Zenon
<1>9. OnlyOf(t)
  BY <1>5, Zenon DEF OnlyOf, LockInv
<1> QED
  BY <1>1, <1>5, <1>8, <1>9, OthersKept DEF Thread

\* Steps that leave the threads alone.
LEMMA IdleKept ==
  ASSUME LockInv, UNCHANGED <<owner, todo>>
  PROVE  LockInv'
<1>1. owner' = owner /\ todo' = todo
  OBVIOUS
<1>2. ASSUME NEW t, NEW h, Owns(t, h) PROVE Owns(t, h)'
  BY <1>1, <1>2, Zenon DEF Owns
<1>3. ASSUME NEW t \in Thread, OnPath(t) PROVE OnPath(t)'
  BY <1>1, <1>2, <1>3, Zenon DEF OnPath, Idle, Placed
<1> QED
  BY <1>1, <1>3, Zenon DEF LockInv

\* The composer starts with idle threads.
LEMMA NobodyKept ==
  ASSUME owner' = [m \in Mutex |-> "none"], todo' = [t \in Thread |-> <<>>]
  PROVE  LockInv'
<1>1. owner' \in [Mutex -> Thread \cup {"none"}] /\ DOMAIN todo' = Thread
  OBVIOUS
<1>2. ASSUME NEW t \in Thread PROVE todo'[t] = <<>> /\ t # "none"
  BY DEF Thread
<1>3. ASSUME NEW t \in Thread PROVE Owns(t, {})'
  BY <1>2 DEF Owns
<1> QED
  BY <1>1, <1>2, <1>3, Zenon DEF LockInv, OnPath, Idle

\* Every step keeps every thread on its path, with the path's mutexes.
LEMMA LocksKept ==
  ASSUME LockInv, [Next]_vars
  PROVE  LockInv'
<1> USE DEF Thread
<1>1. CASE ServerRequest
  <2>1. PICK path \in {StatusPath, PreparePath, PausePath, CreatePath, ServerReleasePath} :
          Begin("server", path)
    BY <1>1, Zenon DEF ServerRequest
  <2>2. PICK pl \in ServerPlans : pl.code = path
    BY DEF ServerPlans, StatusPlan, PreparePlan, PausePlan, CreatePlan, ReleasePlan, Plan
  <2>3. pl \in Plans("server") /\ pl.held[1] = {} /\ Rest(pl.code, pl.code, 1)
    BY Started, Zenon DEF Plans
  <2> QED
    BY <2>1, <2>2, <2>3, BeginKept, Zenon DEF Begin
<1>2. CASE Batch
  <2>1. PICK d \in {"builtin", "external"} : Begin("surfaceflinger", BatchPath(d))
    BY <1>2 DEF Batch
  <2>2. PICK pl \in BatchPlans : pl.code = BatchPath(d)
    BY DEF BatchPlans, BatchPlan, Plan
  <2>3. pl \in Plans("surfaceflinger") /\ pl.held[1] = {} /\ Rest(pl.code, pl.code, 1)
    BY Started DEF Plans
  <2> QED
    BY <2>1, <2>2, <2>3, BeginKept, Zenon DEF Begin
<1>3. CASE Plug
  <2>1. HotplugPlan \in Plans("uevent") /\ HotplugPlan.code = HotplugPath
    BY DEF Plans, HotplugPlan, Plan
  <2>2. HotplugPlan.held[1] = {} /\ Rest(HotplugPlan.code, HotplugPlan.code, 1)
    BY Started, Zenon
  <2> QED
    BY <1>3, <2>1, <2>2, BeginKept, Zenon DEF Plug
<1>4. CASE Status
  BY <1>4, ContinueKept, ReturnKept, SkipKept DEF Status, Finals
<1>5. CASE Find \/ Report \/ ProcessPending
  BY <1>5, ContinueKept, ReturnKept DEF Find, Report, ProcessPending, Finals
<1>6. CASE BeginPrepare \/ Select \/ PrepareLease
  BY <1>6, ContinueKept, ReturnKept DEF BeginPrepare, Select, PrepareLease, Finals
<1>7. CASE CheckSequence("sequence_pause", 1) \/ CheckSequence("sequence_create", 2)
  BY <1>7, ContinueKept, ReturnKept DEF CheckSequence, Finals
<1>8. CASE PauseDisplay \/ CreateLease
  BY <1>8, ReturnKept DEF PauseDisplay, CreateLease, AbandonTakeover
<1>9. CASE ResolvePlane \/ ListPlanes
  BY <1>9, ContinueKept, ReturnKept DEF ResolvePlane, ListPlanes, AbandonTakeover, Finals
<1>10. CASE ResetPlanes \/ VerifyPlanes
  BY <1>10, ContinueKept, ReturnKept DEF ResetPlanes, VerifyPlanes, AbandonTakeover, Finals
<1>11. CASE HandleSecureSession
  BY <1>11, SecureKept, Zenon
<1>12. CASE Commit
  BY <1>12, ReturnKept DEF Commit
<1>13. ASSUME NEW t \in Thread, Acquire(t) \/ Free(t)
       PROVE  LockInv'
  BY <1>13, AcquireKept, FreeKept, Zenon
<1>14. ASSUME NEW t \in Thread, BeginRelease(t) \/ RestoreDisplay(t)
       PROVE  LockInv'
  BY <1>14, ContinueKept, SkipKept DEF BeginRelease, RestoreDisplay, Finals
<1>15. ASSUME NEW t \in Thread, Gate(t) \/ HandlePluggableDisplays(t)
       PROVE  LockInv'
  BY <1>15, ContinueKept, ReturnKept DEF Gate, HandlePluggableDisplays, Finals
<1>16. CASE NullDisplay
  BY <1>16, NobodyKept, Zenon DEF NullDisplay
<1>17. CASE Scanout \/ UNCHANGED vars
  BY <1>17, IdleKept, Zenon DEF Scanout, vars
<1> QED
  BY <1>1, <1>2, <1>3, <1>4, <1>5, <1>6, <1>7, <1>8, <1>9, <1>10, <1>11, <1>12, <1>13, <1>14,
     <1>15, <1>16, <1>17, Zenon DEF Next, Server, Shared

\* A thread only waits for a mutex that ranks above all it holds.
LEMMA WaitsAbove ==
  ASSUME LockInv, NEW t \in Thread, todo[t] # <<>>, Next1(t).op = "lock"
  PROVE  /\ Next1(t).arg \in Mutex
         /\ \A m \in Mutex : owner[m] = t => Rank(m) < Rank(Next1(t).arg)
<1>1. PICK pl \in Plans(t), k \in Nat :
        /\ Placed(t, pl, k) /\ WellLocked(pl) /\ Next1(t) = pl.code[k]
        /\ StepLocked(pl.code, pl.held, k) /\ Rest(todo[t], pl.code, k)
  BY Busy, Zenon
<1> QED
  BY <1>1, Zenon DEF StepLocked, Placed, Owns

\* Along threads that wait for each other the ranks would grow for ever.
LEMMA OrderHelps ==
  ASSUME LockInv
  PROVE  NoCircularWait
<1> SUFFICES ASSUME NEW S \in SUBSET Thread, S # {}, WaitingForEachOther(S)
             PROVE  FALSE
  BY Zenon DEF NoCircularWait
<1> DEFINE W(t) == Rank(Next1(t).arg)
<1>1. ASSUME NEW t \in S PROVE W(t) \in 1 .. 4 /\ \E u \in S : W(t) < W(u)
  <2>1. /\ todo[t] # <<>> /\ Next1(t).op = "lock" /\ owner[Next1(t).arg] \in S /\ t \in Thread
    BY Zenon DEF WaitingForEachOther
  <2>2. PICK u \in S : u = owner[Next1(t).arg]
    BY <2>1, Zenon
  <2>3. todo[u] # <<>> /\ Next1(u).op = "lock" /\ u \in Thread
    BY Zenon DEF WaitingForEachOther
  <2>4. W(t) < W(u)
    BY <2>1, <2>2, <2>3, WaitsAbove, Zenon
  <2> QED
    BY <2>4 DEF Rank
<1> HIDE DEF W
<1>2. PICK t1 \in S : TRUE
  OBVIOUS
<1>3. PICK t2 \in S : W(t1) < W(t2)
  BY <1>1
<1>4. PICK t3 \in S : W(t2) < W(t3)
  BY <1>1
<1>5. PICK t4 \in S : W(t3) < W(t4)
  BY <1>1
<1>6. PICK t5 \in S : W(t4) < W(t5)
  BY <1>1
<1> QED
  BY <1>1, <1>3, <1>4, <1>5, <1>6

-----------------------------------------------------------------------------
(* Where the server is. *)

\* The last piece of code of the operation that a piece of code belongs to, and
\* how many instructions are left of it.
EndOf(code) ==
  IF code \in {"status", "find", "report"} THEN "report"
  ELSE IF code \in {"begin", "select", "prepare"} THEN "prepare"
  ELSE IF code \in {"sequence_pause", "pause"} THEN "pause"
  ELSE IF code \in {"release", "restore", "pending", "gate", "hotplug"} THEN "hotplug"
  ELSE "create"
LeftOf(code) ==
  IF code = "release" THEN 10 ELSE IF code = "restore" THEN 8
  ELSE IF code = "sequence_create" THEN 7 ELSE IF code \in {"status", "begin"} THEN 6
  ELSE IF code \in {"resolve", "pending"} THEN 5
  ELSE IF code \in {"find", "select", "list", "gate"} THEN 4
  ELSE IF code \in {"sequence_pause", "reset"} THEN 3 ELSE IF code = "verify" THEN 2 ELSE 1

\* The server holds the mutexes of what it found out: h is what it holds with n
\* instructions left of the operation that ends with e.
Covered(e, n, h) ==
  /\ e = "prepare" /\ n <= 6 => "lease" \in h
  /\ e = "pause" /\ n <= 3 => "lease" \in h
  /\ e = "create" /\ n <= 6 => "command" \in h /\ "lease" \in h
  /\ e = "create" /\ n <= 5 => "external" \in h

\* Locks and unlocks are not where it finds them out.
Apart(e, n) ==
  (e = "prepare" => n # 6) /\ (e = "pause" => n # 3) /\ (e = "create" => n \notin {2, 3, 4, 5, 7})

Spotted(p, h, k) ==
  \E e \in Finals :
    /\ p[Len(p)] = Run(e) /\ Covered(e, Len(p) - k + 1, h[k])
    /\ p[k].op = "run" => e = EndOf(p[k].arg) /\ Len(p) - k + 1 = LeftOf(p[k].arg)
    /\ p[k].op # "run" => Apart(e, Len(p) - k + 1)

\* The server's paths differ in their last instruction.
LEMMA ServerSpotted ==
  ASSUME NEW pl \in ServerPlans, NEW k \in 1 .. Len(pl.code)
  PROVE  Spotted(pl.code, pl.held, k)
<1> USE DEF Spotted, Covered, Apart, EndOf, LeftOf, Finals, Lock, Unlock, Run, Plan
<1>1. CASE pl = StatusPlan
  <2> HIDE DEF Plan, Spotted
  <2>1. PICK p, h : p = StatusPlan.code /\ h = StatusPlan.held
    OBVIOUS
  <2>2. /\ Len(p) = 7 /\ p[1] = Lock("lease") /\ p[2] = Run("status") /\ p[3] = Lock("pluggable")
        /\ p[4] = Run("find") /\ p[5] = Unlock("pluggable") /\ p[6] = Lock("external")
        /\ p[7] = Run("report")
    BY <2>1 DEF StatusPlan, StatusPath, Plan
  <2>3. k \in 1 .. 7
    BY <1>1, <2>1, <2>2, Zenon
  <2>5. /\ p[k].op = "run" => "report" = EndOf(p[k].arg) /\ 7 - k + 1 = LeftOf(p[k].arg)
        /\ Covered("report", 7 - k + 1, h[k])
        /\ p[k].op # "run" => Apart("report", 7 - k + 1)
    BY <2>2, <2>3
  <2>6. \E e \in Finals : p[Len(p)] = Run(e) /\ e = "report"
    BY <2>2
  <2> QED
    BY <1>1, <2>1, <2>2, <2>5, <2>6, ZenonT(60) DEF Spotted
<1>2. CASE pl = PreparePlan
  <2> HIDE DEF Plan, Spotted
  <2>1. PICK p, h : p = PreparePlan.code /\ h = PreparePlan.held
    OBVIOUS
  <2>2. /\ Len(p) = 7 /\ p[1] = Lock("lease") /\ p[2] = Run("begin") /\ p[3] = Lock("pluggable")
        /\ p[4] = Run("select") /\ p[5] = Unlock("pluggable") /\ p[6] = Lock("external")
        /\ p[7] = Run("prepare")
    BY <2>1 DEF PreparePlan, PreparePath, Plan
  <2>3. k \in 1 .. 7
    BY <1>2, <2>1, <2>2, Zenon
  <2>4. "lease" \notin h[k] => k = 1
    BY <2>1, <2>3 DEF PreparePlan, Plan
  <2>5. /\ p[k].op = "run" => "prepare" = EndOf(p[k].arg) /\ 7 - k + 1 = LeftOf(p[k].arg)
        /\ Covered("prepare", 7 - k + 1, h[k])
        /\ p[k].op # "run" => Apart("prepare", 7 - k + 1)
    BY <2>2, <2>3, <2>4
  <2>6. \E e \in Finals : p[Len(p)] = Run(e) /\ e = "prepare"
    BY <2>2
  <2> QED
    BY <1>2, <2>1, <2>2, <2>5, <2>6, ZenonT(60) DEF Spotted
<1>3. CASE pl = PausePlan
  <2> HIDE DEF Plan, Spotted
  <2>1. PICK p, h : p = PausePlan.code /\ h = PausePlan.held
    OBVIOUS
  <2>2. /\ Len(p) = 4 /\ p[1] = Lock("lease") /\ p[2] = Run("sequence_pause")
        /\ p[3] = Lock("external") /\ p[4] = Run("pause")
    BY <2>1 DEF PausePlan, PausePath, Plan
  <2>3. k \in 1 .. 4
    BY <1>3, <2>1, <2>2, Zenon
  <2>4. "lease" \notin h[k] => k = 1
    BY <2>1, <2>3 DEF PausePlan, Plan
  <2>5. /\ p[k].op = "run" => "pause" = EndOf(p[k].arg) /\ 4 - k + 1 = LeftOf(p[k].arg)
        /\ Covered("pause", 4 - k + 1, h[k])
        /\ p[k].op # "run" => Apart("pause", 4 - k + 1)
    BY <2>2, <2>3, <2>4
  <2>6. \E e \in Finals : p[Len(p)] = Run(e) /\ e = "pause"
    BY <2>2
  <2> QED
    BY <1>3, <2>1, <2>2, <2>5, <2>6, ZenonT(60) DEF Spotted
<1>4. CASE pl = CreatePlan
  <2> HIDE DEF Plan, Spotted
  <2>1. PICK p, h : p = CreatePlan.code /\ h = CreatePlan.held
    OBVIOUS
  <2>2. /\ Len(p) = 9 /\ p[1] = Lock("command") /\ p[2] = Lock("lease")
        /\ p[3] = Run("sequence_create") /\ p[4] = Lock("external") /\ p[5] = Run("resolve")
        /\ p[6] = Run("list") /\ p[7] = Run("reset") /\ p[8] = Run("verify") /\ p[9] = Run("create")
    BY <2>1 DEF CreatePlan, CreatePath, Plan
  <2>3. k \in 1 .. 9
    BY <1>4, <2>1, <2>2, Zenon
  <2>4. /\ "command" \notin h[k] => k = 1
        /\ "lease" \notin h[k] => k \in {1, 2}
        /\ "external" \notin h[k] => k \in {1, 2, 3, 4}
    BY <2>1, <2>3 DEF CreatePlan, Plan
  <2>5. /\ p[k].op = "run" => "create" = EndOf(p[k].arg) /\ 9 - k + 1 = LeftOf(p[k].arg)
        /\ Covered("create", 9 - k + 1, h[k])
        /\ p[k].op # "run" => Apart("create", 9 - k + 1)
    BY <2>2, <2>3, <2>4
  <2>6. \E e \in Finals : p[Len(p)] = Run(e) /\ e = "create"
    BY <2>2
  <2> QED
    BY <1>4, <2>1, <2>2, <2>5, <2>6, ZenonT(60) DEF Spotted
<1>5. CASE pl = ReleasePlan
  <2> HIDE DEF Plan, Spotted
  <2>1. PICK p : p = ReleasePlan.code
    OBVIOUS
  <2>2. /\ Len(p) = 11 /\ p[1] = Lock("lease") /\ p[2] = Run("release") /\ p[3] = Lock("external")
        /\ p[4] = Run("restore") /\ p[5] = Unlock("external") /\ p[6] = Unlock("lease")
        /\ p[7] = Run("pending") /\ p[8] = Run("gate") /\ p[9] = Lock("pluggable")
        /\ p[10] = Lock("external") /\ p[11] = Run("hotplug")
    BY <2>1, ReleaseCode, Zenon
  <2>3. k \in 1 .. 11
    BY <1>5, <2>1, <2>2, Zenon
  <2>4. /\ p[k].op = "run" => "hotplug" = EndOf(p[k].arg) /\ 11 - k + 1 = LeftOf(p[k].arg)
        /\ Covered("hotplug", 11 - k + 1, pl.held[k]) /\ Apart("hotplug", 11 - k + 1)
    BY <2>2, <2>3
  <2>5. \E e \in Finals : p[Len(p)] = Run(e) /\ e = "hotplug"
    BY <2>2
  <2> QED
    BY <1>5, <2>1, <2>2, <2>4, <2>5, ZenonT(60) DEF Spotted
<1> QED
  BY <1>1, <1>2, <1>3, <1>4, <1>5, ZenonT(60) DEF ServerPlans

\* The server is n instructions before the end of the operation that ends with e.
Before(e, n) ==
  LET s == todo["server"]
  IN  s \in Seq(Instruction) /\ n \in Nat \ {0} /\ s # <<>> /\ Len(s) = n /\ s[n] = Run(e)

\* A busy server is at a known distance from the end of its operation and
\* holds the mutexes that the rest of it relies on.
LEMMA ServerWhere ==
  ASSUME LockInv, todo["server"] # <<>>
  PROVE  \E e \in Finals, n \in Nat \ {0}, h \in SUBSET Mutex :
           /\ Before(e, n) /\ Owns("server", h) /\ Covered(e, n, h)
           /\ Next1("server").op = "run" =>
                e = EndOf(Next1("server").arg) /\ n = LeftOf(Next1("server").arg)
           /\ Next1("server").op # "run" => Apart(e, n)
<1> DEFINE s == todo["server"]
<1>1. "server" \in Thread
  BY DEF Thread
<1>2. PICK pl \in Plans("server"), k \in Nat :
        /\ Placed("server", pl, k) /\ WellLocked(pl) /\ Next1("server") = pl.code[k]
        /\ StepLocked(pl.code, pl.held, k) /\ Rest(s, pl.code, k)
  BY <1>1, Busy, Zenon
<1>3. PICK p, h, n : p = pl.code /\ h = pl.held[k] /\ n = Len(p) - k + 1
  OBVIOUS
<1>4. Spotted(p, pl.held, k)
  BY <1>2, <1>3, ServerSpotted, Zenon DEF Plans, Rest
<1>5. PICK e \in Finals :
        /\ p[Len(p)] = Run(e) /\ Covered(e, n, h)
        /\ p[k].op = "run" => e = EndOf(p[k].arg) /\ n = LeftOf(p[k].arg)
        /\ p[k].op # "run" => Apart(e, n)
  BY <1>3, <1>4, Zenon DEF Spotted
<1>6. h \in SUBSET Mutex /\ Owns("server", h) /\ Len(p) \in Nat
  BY <1>2, <1>3, Zenon DEF StepLocked, Placed, WellLocked
<1>7. /\ s \in Seq(Instruction) /\ Len(s) \in Nat \ {0} /\ s[Len(s)] = p[Len(p)] /\ Len(s) = n
      /\ s # <<>>
  <2>1. Rest(s, p, k)
    BY <1>2, <1>3, Zenon
  <2> QED
    BY <1>3, <1>6, <2>1, RestEnd, ZenonT(60)
<1>8. Before(e, n)
  BY <1>5, <1>7, Zenon DEF Before
<1>9. n \in Nat \ {0}
  BY <1>7, Zenon
<1> QED
  BY <1>2, <1>3, <1>5, <1>6, <1>8, <1>9, Zenon

\* Within, for a server whose place is known.
LEMMA WithinBefore ==
  ASSUME NEW e, NEW n, Before(e, n)
  PROVE  \A c, j : Within(c, j) <=> c = e /\ n <= j
BY DEF Within, Before, Run

\* Every piece of code runs under its mutexes.
LEMMA Guarded ==
  ASSUME LockInv, NEW t \in Thread, NEW c, At(t, c)
  PROVE  \A m \in Needs(c) : m \in Mutex /\ owner[m] = t
<1>1. PICK pl \in Plans(t), k \in Nat :
        /\ Placed(t, pl, k) /\ WellLocked(pl) /\ Next1(t) = pl.code[k]
        /\ StepLocked(pl.code, pl.held, k) /\ Rest(todo[t], pl.code, k)
  BY Busy, Zenon DEF At
<1>2. pl.code[k].op = "run" /\ pl.code[k].arg = c
  BY <1>1 DEF Run, At
<1> QED
  BY <1>1, <1>2, Zenon DEF StepLocked, Placed, Owns

\* What the server found out is guarded: nobody else has the mutexes.
LEMMA ServerCovered ==
  ASSUME LockInv
  PROVE  /\ Within("prepare", 5) => owner["lease"] = "server"
         /\ Within("pause", 2) => owner["lease"] = "server"
         /\ Within("create", 6) => owner["command"] = "server" /\ owner["lease"] = "server"
         /\ Within("create", 5) => owner["external"] = "server"
<1>1. CASE todo["server"] = <<>>
  BY <1>1, Zenon DEF Within
<1>2. CASE todo["server"] # <<>>
  <2>1. PICK e \in Finals, n \in Nat \ {0}, h \in SUBSET Mutex :
          Before(e, n) /\ Owns("server", h) /\ Covered(e, n, h)
    BY <1>2, ServerWhere, Zenon
  <2>2. \A c, j : Within(c, j) <=> c = e /\ n <= j
    BY <2>1, WithinBefore, Zenon
  <2>3. \A m \in h : owner[m] = "server"
    BY <2>1, Zenon DEF Owns
  <2> QED
    BY <2>1, <2>2, <2>3 DEF Covered
<1> QED
  BY <1>1, <1>2, Zenon

\* The server at a piece of code.
LEMMA ServerAt ==
  ASSUME LockInv, NEW c, At("server", c)
  PROVE  Before(EndOf(c), LeftOf(c))
<1>1. todo["server"] # <<>> /\ Next1("server").op = "run" /\ Next1("server").arg = c
  BY DEF At, Run
<1> QED
  BY <1>1, ServerWhere, Zenon

\* The server goes on by one instruction.
LEMMA ServerTail ==
  ASSUME NEW e, NEW n \in Nat, n > 1, Before(e, n), todo'["server"] = Tail(todo["server"])
  PROVE  Before(e, n - 1)'
<1>1. PICK s \in Seq(Instruction) : s = todo["server"] /\ Len(s) = n /\ s[n] = Run(e) /\ s # <<>>
  BY Zenon DEF Before
<1>2. /\ Tail(s) \in Seq(Instruction) /\ Len(Tail(s)) = n - 1
      /\ \A i \in 1 .. n - 1 : Tail(s)[i] = s[i + 1]
  BY <1>1
<1>3. n - 1 \in 1 .. n - 1 /\ n - 1 + 1 = n /\ n - 1 \in Nat \ {0}
  OBVIOUS
<1>4. Tail(s)[n - 1] = Run(e)
  BY <1>1, <1>2, <1>3, Zenon
<1>5. Tail(s) # <<>>
  BY <1>2, <1>3, Zenon
<1> QED
  BY <1>1, <1>2, <1>3, <1>4, <1>5, Zenon DEF Before

\* A step in which the server finds nothing out.
Quiet ==
  /\ Within("prepare", 5)' => Within("prepare", 5)
  /\ Within("pause", 2)' => Within("pause", 2)
  /\ Within("create", 6)' => Within("create", 6)
  /\ Within("create", 4)' => todo'["server"] = todo["server"]

\* Another thread's step, and the end of an operation.
LEMMA QuietOthers ==
  ASSUME todo'["server"] = todo["server"] \/ todo'["server"] = <<>>
  PROVE  Quiet
BY Zenon DEF Quiet, Within

\* Code of the server that goes on; checks end an operation or find something out.
LEMMA ServerRuns ==
  ASSUME LockInv, NEW c \in Codes \ (Finals \cup {"secure"}), At("server", c),
         todo'["server"] = Tail(todo["server"])
  PROVE  /\ \A d, j : Within(d, j) <=> d = EndOf(c) /\ LeftOf(c) <= j
         /\ \A d, j : Within(d, j)' <=> d = EndOf(c) /\ LeftOf(c) - 1 <= j
<1>1. Before(EndOf(c), LeftOf(c))
  BY ServerAt, Zenon
<1>2. LeftOf(c) \in Nat /\ LeftOf(c) > 1
  BY DEF LeftOf, Codes, Finals
<1>3. Before(EndOf(c), LeftOf(c) - 1)'
  BY <1>1, <1>2, ServerTail, Zenon
<1>4. \A d, j : Within(d, j) <=> d = EndOf(c) /\ LeftOf(c) <= j
  BY <1>1, WithinBefore, Zenon
<1>5. PICK e, n : e = EndOf(c) /\ n = LeftOf(c) - 1
  OBVIOUS
<1>6. Before(e, n)'
  BY <1>3, <1>5, Zenon
<1>7. \A d, j : Within(d, j)' <=> d = e /\ n <= j
  BY <1>6, SMTT(60) DEF Within, Before, Run
<1> QED
  BY <1>4, <1>5, <1>7, Zenon

\* Code that goes on without having found anything out.
LEMMA QuietCode ==
  ASSUME LockInv, NEW c \in {"status", "find", "select", "release", "restore", "pending", "gate"},
         At("server", c), todo'["server"] = Tail(todo["server"])
  PROVE  Quiet
<1>1. c \in Codes \ (Finals \cup {"secure"})
  BY DEF Codes, Finals
<1>2. /\ \A d, j : Within(d, j) <=> d = EndOf(c) /\ LeftOf(c) <= j
      /\ \A d, j : Within(d, j)' <=> d = EndOf(c) /\ LeftOf(c) - 1 <= j
  BY <1>1, ServerRuns, Zenon
<1> QED
  BY <1>2 DEF Quiet, EndOf, LeftOf

\* Locks and unlocks of the server.
LEMMA QuietLocks ==
  ASSUME LockInv, todo["server"] # <<>>, Next1("server").op # "run",
         todo'["server"] = Tail(todo["server"])
  PROVE  Quiet
<1>1. PICK e \in Finals, n \in Nat \ {0} : Before(e, n) /\ Apart(e, n)
  BY ServerWhere, Zenon
<1>2. CASE n = 1
  <2>1. Tail(todo["server"]) = <<>>
    <3>1. PICK s \in Seq(Instruction) : s = todo["server"] /\ Len(s) = 1 /\ s # <<>>
      BY <1>1, <1>2, Zenon DEF Before
    <3>2. PICK q \in Seq(Instruction) : q = Tail(s) /\ Len(q) = 0
      <4>1. Tail(s) \in Seq(Instruction) /\ Len(Tail(s)) = Len(s) - 1
        BY <3>1
      <4>2. Len(s) - 1 = 0
        BY <3>1
      <4> QED
        BY <4>1, <4>2, Zenon
    <3>3. q = <<>>
      BY <3>2
    <3> QED
      BY <3>1, <3>2, <3>3, Zenon
  <2> QED
    BY <2>1, QuietOthers, Zenon
<1>3. CASE n > 1
  <2>1. \A c, j : Within(c, j) <=> c = e /\ n <= j
    BY <1>1, WithinBefore, Zenon
  <2>2. Before(e, n - 1)'
    BY <1>1, <1>3, ServerTail
  <2>3. \A c, j : Within(c, j)' <=> c = e /\ n - 1 <= j
    BY <2>2 DEF Within, Before, Run
  <2>4. ~(e = "create" /\ n - 1 <= 4)
    BY <1>1, <1>3 DEF Apart
  <2>5. /\ e = "prepare" /\ n - 1 <= 5 => n <= 5
        /\ e = "pause" /\ n - 1 <= 2 => n <= 2
        /\ e = "create" /\ n - 1 <= 6 => n <= 6
    BY <1>1 DEF Apart
  <2> QED
    BY <2>1, <2>3, <2>4, <2>5, Zenon DEF Quiet
<1> QED
  BY <1>2, <1>3

\* A new operation is far from its end.
LEMMA QuietBegin ==
  ASSUME NEW path \in {StatusPath, PreparePath, PausePath, CreatePath, ServerReleasePath},
         todo'["server"] = path
  PROVE  Quiet
<1> USE DEF Quiet, Within, Lock, Unlock, Run
<1>1. CASE path = StatusPath
  BY <1>1 DEF StatusPath
<1>2. CASE path = PreparePath
  BY <1>2 DEF PreparePath
<1>3. CASE path = PausePath
  BY <1>3 DEF PausePath
<1>4. CASE path = CreatePath
  BY <1>4 DEF CreatePath
<1>5. CASE path = ServerReleasePath
  BY <1>5 DEF ServerReleasePath, ReleasePath, HotplugPath
<1> QED
  BY <1>1, <1>2, <1>3, <1>4, <1>5, Zenon

\* The status of a lease in progress and an empty release.
LEMMA QuietSkip ==
  ASSUME LockInv, NEW c \in {"status", "release"}, At("server", c),
         todo'["server"] = SubSeq(todo["server"], 4 + 1, Len(todo["server"]))
  PROVE  Quiet
<1>1. Before(EndOf(c), LeftOf(c))
  BY ServerAt, Zenon
<1>2. PICK e \in {"report", "hotplug"}, n \in {6, 10} : Before(e, n)
  BY <1>1 DEF EndOf, LeftOf
<1>3. PICK s \in Seq(Instruction) : s = todo["server"] /\ Len(s) = n /\ s[n] = Run(e)
  BY <1>2, Zenon DEF Before
<1>4. Len(SubSeq(s, 4 + 1, Len(s))) = n - 4 /\ SubSeq(s, 4 + 1, Len(s))[n - 4] = s[n]
  BY <1>3
<1>5. \A d, j : d \in {"prepare", "pause", "create"} => ~Within(d, j)'
  BY <1>3, <1>4 DEF Within, Run
<1> QED
  BY <1>5 DEF Quiet

\* All steps but those in which the server checks something.
QuietNext ==
  \/ ServerRequest \/ Status \/ Find \/ Report \/ Select \/ PrepareLease \/ PauseDisplay
  \/ CreateLease \/ ProcessPending
  \/ Batch \/ HandleSecureSession \/ Commit
  \/ \E t \in Thread : Shared(t)
  \/ NullDisplay \/ Scanout \/ Plug \/ UNCHANGED vars
CheckNext ==
  \/ BeginPrepare \/ CheckSequence("sequence_pause", 1) \/ CheckSequence("sequence_create", 2)
  \/ ResolvePlane \/ ListPlanes \/ ResetPlanes \/ VerifyPlanes

\* The steps that touch neither the lease nor the sanitising are quiet.
LEMMA QuietSteps ==
  ASSUME LockInv, QuietNext
  PROVE  Quiet
<1>1. "server" \in Thread /\ "surfaceflinger" \in Thread /\ "uevent" \in Thread
      /\ "server" # "surfaceflinger" /\ "server" # "uevent"
  BY DEF Thread
<1>2. \A t \in Thread : Return(t) => todo'["server"] \in {todo["server"], <<>>}
  BY <1>1, ReturnKept
<1>3. \A t \in Thread : Return(t) => Quiet
  BY <1>2, QuietOthers
<1>4. ASSUME NEW t \in Thread,
             NEW c \in {"status", "find", "select", "release", "restore", "pending", "gate"},
             At(t, c), Continue(t)
      PROVE  Quiet
  <2>1. c \notin Finals
    BY DEF Finals
  <2>2. todo'[t] = Tail(todo[t]) /\ \A u \in Thread \ {t} : todo'[u] = todo[u]
    BY <1>4, <2>1, ContinueKept, Zenon
  <2> QED
    BY <1>1, <1>4, <2>2, QuietCode, QuietOthers, Zenon
<1>5. ASSUME NEW t \in Thread, NEW c \in {"status", "release"}, At(t, c), Skip(t, 4)
      PROVE  Quiet
  <2>1. /\ todo'[t] = SubSeq(todo[t], 4 + 1, Len(todo[t]))
        /\ \A u \in Thread \ {t} : todo'[u] = todo[u]
    BY <1>5, SkipKept, Zenon
  <2> QED
    BY <1>1, <1>5, <2>1, QuietSkip, QuietOthers, Zenon
<1>6. CASE ServerRequest
  <2>1. PICK path \in {StatusPath, PreparePath, PausePath, CreatePath, ServerReleasePath} :
          Begin("server", path)
    BY <1>6, Zenon DEF ServerRequest
  <2>2. todo'["server"] = path
    BY <1>1, <2>1 DEF Begin, LockInv
  <2> QED
    BY <2>2, QuietBegin, Zenon
<1>7. CASE Status \/ Find \/ Report
  BY <1>1, <1>3, <1>4, <1>5, <1>7 DEF Status, Find, Report
<1>8. CASE Select \/ PrepareLease \/ ProcessPending
  BY <1>1, <1>3, <1>4, <1>8 DEF Select, PrepareLease, ProcessPending
<1>9. CASE PauseDisplay \/ CreateLease
  BY <1>1, <1>3, <1>9 DEF PauseDisplay, CreateLease, AbandonTakeover
<1>10. CASE Batch \/ Plug
  <2>1. todo'["server"] = todo["server"]
    BY <1>1, <1>10 DEF Batch, Begin, Plug, LockInv
  <2> QED
    BY <2>1, QuietOthers
<1>11. CASE HandleSecureSession
  BY <1>11, SecureKept, QuietOthers, Zenon
<1>12. CASE Commit
  BY <1>1, <1>3, <1>12 DEF Commit
<1>13. ASSUME NEW t \in Thread, Shared(t) PROVE Quiet
  <2>1. CASE Acquire(t)
    <3>1. todo'[t] = Tail(todo[t]) /\ \A u \in Thread \ {t} : todo'[u] = todo[u]
      BY <2>1, AcquireKept, Zenon
    <3>2. todo[t] # <<>> /\ Next1(t).op # "run"
      BY <2>1 DEF Acquire
    <3> QED
      BY <1>1, <3>1, <3>2, QuietLocks, QuietOthers, Zenon
  <2>2. CASE Free(t)
    <3>1. todo'[t] = Tail(todo[t]) /\ \A u \in Thread \ {t} : todo'[u] = todo[u]
      BY <2>2, FreeKept, Zenon
    <3>2. todo[t] # <<>> /\ Next1(t).op # "run"
      BY <2>2 DEF Free
    <3> QED
      BY <1>1, <3>1, <3>2, QuietLocks, QuietOthers, Zenon
  <2>3. CASE BeginRelease(t)
    BY <1>4, <1>5, <2>3 DEF BeginRelease
  <2>4. CASE RestoreDisplay(t)
    BY <1>4, <2>4 DEF RestoreDisplay
  <2>5. CASE Gate(t) \/ HandlePluggableDisplays(t)
    BY <1>3, <1>4, <2>5, SMTT(60) DEF Gate, HandlePluggableDisplays
  <2> QED
    BY <1>13, <2>1, <2>2, <2>3, <2>4, <2>5, Zenon DEF Shared
<1>14. CASE NullDisplay
  BY <1>1, <1>14, QuietOthers, ZenonT(60) DEF NullDisplay
<1>15. CASE Scanout \/ UNCHANGED vars
  BY <1>15, QuietOthers DEF Scanout, vars
<1> QED
  BY <1>6, <1>7, <1>8, <1>9, <1>10, <1>11, <1>12, <1>13, <1>14, <1>15, Zenon DEF QuietNext

\* An operation that is over has found out nothing.
LEMMA StopSteps ==
  ASSUME LockInv, Return("server")
  PROVE  \A d, j : ~Within(d, j)'
<1>1. "server" \in Thread
  BY DEF Thread
<1>2. todo'["server"] = <<>>
  BY <1>1, ReturnKept, Zenon
<1> QED
  BY <1>2, Zenon DEF Within

\* A check that succeeds goes on.
LEMMA CheckSteps ==
  ASSUME LockInv, NEW c \in {"begin", "sequence_pause", "sequence_create", "resolve", "list",
                             "reset", "verify"}, At("server", c), Continue("server")
  PROVE  /\ \A d, j : Within(d, j) <=> d = EndOf(c) /\ LeftOf(c) <= j
         /\ \A d, j : Within(d, j)' <=> d = EndOf(c) /\ LeftOf(c) - 1 <= j
<1>1. "server" \in Thread /\ c \notin Finals /\ c \in Codes \ (Finals \cup {"secure"})
  BY DEF Thread, Finals, Codes
<1>2. todo'["server"] = Tail(todo["server"])
  BY <1>1, ContinueKept, Zenon
<1> QED
  BY <1>1, <1>2, ServerRuns, Zenon

\* Together these are all steps.
LEMMA AllSteps == [Next]_vars => QuietNext \/ CheckNext
BY Zenon DEF Next, Server, QuietNext, CheckNext

-----------------------------------------------------------------------------
(* The transition and the lease. *)

\* The server at a piece of code knows what it found out before.
LEMMA ServerWithin ==
  ASSUME LockInv, NEW c, At("server", c)
  PROVE  \A d, j : Within(d, j) <=> d = EndOf(c) /\ LeftOf(c) <= j
BY ServerAt, WithinBefore, Zenon

\* hdmi_lease_mutex_ keeps releases out of an operation of the server.
LEMMA SessionKept ==
  ASSUME LockInv, SessionInv, [Next]_vars
  PROVE  SessionInv'
<1>1. CASE QuietNext /\ UNCHANGED session
  BY <1>1, QuietSteps, Zenon DEF Quiet, SessionInv, session
<1>2. ASSUME NEW t \in Thread, BeginRelease(t) \/ RestoreDisplay(t) PROVE SessionInv'
  <2>1. Quiet
    BY <1>2, QuietSteps, Zenon DEF QuietNext, Shared
  <2>2. CASE t = "server"
    <3>1. PICK c \in {"release", "restore"} : At("server", c)
      BY <1>2, <2>2, ZenonT(60) DEF BeginRelease, RestoreDisplay
    <3>2. \A d, j : Within(d, j) => d = EndOf(c)
      BY <3>1, ServerWithin, Zenon
    <3>3. EndOf(c) = "hotplug"
      BY DEF EndOf
    <3> QED
      BY <2>1, <3>2, <3>3, SMTT(60) DEF Quiet, SessionInv
  <2>3. CASE t # "server"
    <3>1. PICK c \in {"release", "restore"} : At(t, c)
      BY <1>2, ZenonT(60) DEF BeginRelease, RestoreDisplay
    <3>2. owner["lease"] = t
      <4>1. "lease" \in Needs(c)
        BY DEF Needs
      <4> QED
        BY <3>1, <4>1, Guarded, Zenon
    <3> QED
      BY <2>1, <2>3, <3>2, ServerCovered, ZenonT(60) DEF Quiet, SessionInv
  <2> QED
    BY <2>2, <2>3
<1>3. CASE Select \/ PrepareLease \/ PauseDisplay \/ CreateLease
  <2>1. UNCHANGED session \/ Return("server")
    BY <1>3 DEF Select, PrepareLease, PauseDisplay, CreateLease, AbandonTakeover
  <2>2. Return("server") => todo'["server"] = <<>>
    BY ReturnKept DEF Thread
  <2>3. CASE Return("server")
    BY <2>2, <2>3, Zenon DEF SessionInv, Within
  <2> QED
    BY <1>1, <1>3, <2>1, <2>3, Zenon DEF QuietNext
<1>4. CASE NullDisplay
  <2>1. todo'["server"] = <<>>
    BY <1>4 DEF NullDisplay, Thread
  <2> QED
    BY <2>1, Zenon DEF SessionInv, Within
<1>5. CASE BeginPrepare
  <2>1. At("server", "begin")
    BY <1>5, Zenon DEF BeginPrepare
  <2>2. CASE Return("server")
    BY <2>2, StopSteps, Zenon DEF SessionInv
  <2>3. CASE Continue("server") /\ state' = "DRAINING" /\ phase = 0 /\ phase' = phase
    <3>1. \A d, j : Within(d, j)' => d = "prepare"
      BY <2>1, <2>3, CheckSteps DEF EndOf
    <3> QED
      BY <2>3, <3>1 DEF SessionInv
  <2> QED
    BY <1>5, <2>2, <2>3 DEF BeginPrepare
<1>6. ASSUME NEW c \in {"sequence_pause", "sequence_create"}, NEW n \in {1, 2},
             c = "sequence_pause" <=> n = 1, CheckSequence(c, n)
      PROVE  SessionInv'
  <2>1. At("server", c) /\ UNCHANGED session
    BY <1>6, Zenon DEF CheckSequence
  <2>2. CASE Return("server")
    BY <2>2, StopSteps, Zenon DEF SessionInv
  <2>3. CASE Continue("server") /\ state = "DRAINING" /\ phase = n
    <3>1. \A d, j : Within(d, j)' => d = EndOf(c)
      BY <2>1, <2>3, CheckSteps, Zenon
    <3> QED
      BY <1>6, <2>1, <2>3, <3>1 DEF SessionInv, EndOf, session
  <2> QED
    BY <1>6, <2>2, <2>3 DEF CheckSequence
<1>7. ASSUME NEW c \in {"resolve", "list", "reset", "verify"}, At("server", c),
             Return("server") \/ (Continue("server") /\ UNCHANGED session)
      PROVE  SessionInv'
  <2>1. CASE Return("server")
    BY <2>1, StopSteps, Zenon DEF SessionInv
  <2>2. CASE Continue("server") /\ UNCHANGED session
    <3>1. \A d, j : Within(d, j)' => d = EndOf(c)
      BY <1>7, <2>2, CheckSteps, Zenon
    <3>2. Within("create", 6) <=> "create" = EndOf(c) /\ LeftOf(c) <= 6
      BY <1>7, ServerWithin, ZenonT(60)
    <3>3. Within("create", 6) /\ EndOf(c) = "create"
      BY <3>2 DEF EndOf, LeftOf
    <3> QED
      BY <2>2, <3>1, <3>3 DEF SessionInv, session
  <2> QED
    BY <1>7, <2>1, <2>2
<1>8. CASE ResolvePlane \/ ListPlanes
  BY <1>7, <1>8 DEF ResolvePlane, ListPlanes, AbandonTakeover
<1>9. CASE ResetPlanes \/ VerifyPlanes
  BY <1>7, <1>9, SMTT(60) DEF ResetPlanes, VerifyPlanes, AbandonTakeover
<1>10. CASE ServerRequest \/ Status \/ Find \/ Report \/ ProcessPending
  BY <1>1, <1>10, ZenonT(60)
  DEF QuietNext, ServerRequest, Begin, Status, Find, Report, ProcessPending, session
<1>11. CASE Batch \/ HandleSecureSession \/ Commit \/ Scanout \/ Plug \/ UNCHANGED vars
  BY <1>1, <1>11, Zenon
  DEF QuietNext, Batch, Begin, HandleSecureSession, Commit, Scanout, Plug, vars, session
<1>12. ASSUME NEW t \in Thread, Acquire(t) \/ Free(t) \/ Gate(t) \/ HandlePluggableDisplays(t)
       PROVE  SessionInv'
  <2>1. QuietNext
    BY <1>12, ZenonT(60) DEF QuietNext, Shared
  <2>2. UNCHANGED session
    BY <1>12, ZenonT(60) DEF Acquire, Free, Gate, HandlePluggableDisplays, session
  <2> QED
    BY <1>1, <2>1, <2>2
<1> QED
  BY <1>2, <1>3, <1>4, <1>5, <1>6, <1>8, <1>9, <1>10, <1>11, <1>12 DEF Next, Server, Shared

\* Up to the handoff there is no lease.
LEMMA NotYet ==
  ASSUME SessionInv, LeaseInv, Within("prepare", 5) \/ Within("pause", 2) \/ Within("create", 6)
  PROVE  lease = NoLease
BY DEF SessionInv, LeaseInv

\* Steps that leave the lease, its display and the reservation alone.
SameLease == UNCHANGED <<phase, entry, ext, lease, reserved>>

\* A lease lives from the handoff to the release or the unplugging.
LEMMA LeaseKept ==
  ASSUME LockInv, Typed, SessionInv, LeaseInv, SanitizeInv, [Next]_vars
  PROVE  LeaseInv'
<1>1. CASE SameLease
  BY <1>1 DEF SameLease, LeaseInv, Present
<1>2. CASE lease' = NoLease
  BY <1>2 DEF LeaseInv
<1>3. ASSUME NEW c \in {"select", "prepare", "pause", "resolve", "list", "reset", "verify"},
             At("server", c), UNCHANGED lease
      PROVE  LeaseInv'
  <2>1. /\ Within("prepare", 5) <=> "prepare" = EndOf(c) /\ LeftOf(c) <= 5
        /\ Within("pause", 2) <=> "pause" = EndOf(c) /\ LeftOf(c) <= 2
        /\ Within("create", 6) <=> "create" = EndOf(c) /\ LeftOf(c) <= 6
    BY <1>3, ServerWithin, ZenonT(60)
  <2>2. Within("prepare", 5) \/ Within("pause", 2) \/ Within("create", 6)
    BY <2>1 DEF EndOf, LeftOf
  <2> QED
    BY <1>2, <1>3, <2>2, NotYet, Zenon
<1>4. CASE Select \/ PrepareLease \/ PauseDisplay
  BY <1>3, <1>4 DEF Select, PrepareLease, PauseDisplay
<1>5. CASE ResolvePlane \/ ListPlanes \/ ResetPlanes \/ VerifyPlanes
  BY <1>3, <1>5 DEF ResolvePlane, ListPlanes, ResetPlanes, VerifyPlanes
<1>6. CASE CreateLease
  <2>1. At("server", "create")
    BY <1>6, Zenon DEF CreateLease
  <2>2. /\ Within("create", 6) <=> "create" = EndOf("create") /\ LeftOf("create") <= 6
        /\ Within("create", 4) <=> "create" = EndOf("create") /\ LeftOf("create") <= 4
    BY <2>1, ServerWithin, Zenon
  <2>3. Within("create", 6) /\ Within("create", 4)
    BY <2>2 DEF EndOf, LeftOf
  <2>4. lease = NoLease /\ Present /\ ~ext.on /\ entry.plane = reserved /\ reserved # 0
    BY <2>3, NotYet, Zenon DEF SanitizeInv
  <2>5. CASE UNCHANGED lease
    BY <1>2, <2>4, <2>5
  <2>6. CASE /\ lease' = [crtc |-> ext.crtc, plane |-> entry.plane]
             /\ entry' = [entry EXCEPT !.active = TRUE] /\ phase' = 3 /\ UNCHANGED ext
    <3>1. reserved' = reserved
      BY <1>6 DEF CreateLease, boot
    <3> QED
      BY <2>4, <2>6, <3>1 DEF LeaseInv, Present, Typed, DisplayTyped
  <2> QED
    BY <1>6, <2>5, <2>6 DEF CreateLease
<1>7. ASSUME NEW t \in Thread, BeginRelease(t) PROVE LeaseInv'
  <2>1. UNCHANGED <<entry, ext, lease, reserved>> /\ (phase' = phase \/ ~Present)
    BY <1>7 DEF BeginRelease, display, boot, session
  <2> QED
    BY <2>1 DEF LeaseInv, Present
<1>8. ASSUME NEW t \in Thread, RestoreDisplay(t) PROVE LeaseInv'
  <2>1. lease' = IF phase = 3 /\ entry.active THEN NoLease ELSE lease
    BY <1>8, Zenon DEF RestoreDisplay
  <2> QED
    BY <1>2, <2>1 DEF LeaseInv
<1>9. ASSUME NEW t \in Thread, HandlePluggableDisplays(t) PROVE LeaseInv'
  <2>1. UNCHANGED <<phase, reserved>>
    BY <1>9 DEF HandlePluggableDisplays, session, boot
  <2>2. CASE ~Present
    BY <1>2, <1>9, <2>2, ZenonT(60) DEF HandlePluggableDisplays, LeaseInv
  <2>3. CASE UNCHANGED <<ext, entry, lease>>
    BY <1>1, <2>1, <2>3 DEF SameLease
  <2>4. CASE lease' = IF entry.active THEN NoLease ELSE lease
    BY <1>2, <2>4, ZenonT(60) DEF LeaseInv
  <2> QED
    BY <1>9, <2>2, <2>3, <2>4 DEF HandlePluggableDisplays
<1>10. CASE NullDisplay
  BY <1>2, <1>10, SMTT(60) DEF NullDisplay
<1>11. CASE ServerRequest \/ Status \/ Find \/ Report \/ ProcessPending \/ BeginPrepare
  BY <1>1, <1>11, ZenonT(60)
  DEF ServerRequest, Begin, Status, Find, Report, ProcessPending, BeginPrepare, SameLease,
      session, display, boot
<1>12. CASE CheckSequence("sequence_pause", 1) \/ CheckSequence("sequence_create", 2)
  BY <1>1, <1>12, SMTT(60) DEF CheckSequence, SameLease, session, display, boot
<1>13. CASE Batch \/ HandleSecureSession \/ Commit \/ Scanout \/ Plug \/ UNCHANGED vars
  BY <1>1, <1>13, ZenonT(60)
  DEF Batch, Begin, HandleSecureSession, Commit, Scanout, Plug, vars, SameLease, session,
      display, boot
<1>14. ASSUME NEW t \in Thread, Acquire(t) \/ Free(t) \/ Gate(t) PROVE LeaseInv'
  BY <1>1, <1>14 DEF Acquire, Free, Gate, SameLease, session, display, boot
<1> QED
  BY <1>4, <1>5, <1>6, <1>7, <1>8, <1>9, <1>10, <1>11, <1>12, <1>13, <1>14, ZenonT(60)
  DEF Next, Server, Shared

\* No step but a restart changes the topology, the reservation and the pipes.
LEMMA BootSame ==
  ASSUME [Next]_vars
  PROVE  drm' = drm /\ (NullDisplay \/ UNCHANGED boot)
<1>1. CASE NullDisplay
  BY <1>1, SMTT(60) DEF NullDisplay
<1>2. CASE Server
  BY <1>2, ZenonT(60)
  DEF Server, ServerRequest, Begin, Status, Find, Report, BeginPrepare, Select, PrepareLease,
      CheckSequence, PauseDisplay, ResolvePlane, ListPlanes, ResetPlanes, VerifyPlanes,
      CreateLease, ProcessPending, boot
<1>3. CASE Batch \/ HandleSecureSession \/ Commit \/ Scanout \/ Plug \/ UNCHANGED vars
  <2>1. CASE Batch \/ HandleSecureSession
    BY <2>1, Zenon DEF Batch, Begin, HandleSecureSession, boot
  <2>2. CASE Commit \/ Scanout \/ Plug \/ UNCHANGED vars
    BY <2>2, ZenonT(60) DEF Commit, Scanout, Plug, vars, boot
  <2> QED
    BY <1>3, <2>1, <2>2, Zenon
<1>4. ASSUME NEW t \in Thread, Shared(t) PROVE drm' = drm /\ UNCHANGED boot
  BY <1>4, ZenonT(60)
  DEF Shared, Acquire, Free, BeginRelease, RestoreDisplay, Gate, HandlePluggableDisplays, boot
<1> QED
  BY <1>1, <1>2, <1>3, <1>4, Zenon DEF Next

\* The lessee's CRTC stays the lessee's.
LEMMA CrtcKept ==
  ASSUME LockInv, Typed, SessionInv, LeaseInv, CrtcInv, SanitizeInv, [Next]_vars
  PROVE  CrtcInv'
<1>1. Planes' = Planes
  BY BootSame DEF Planes
<1>2. CASE UNCHANGED <<lease, crtcOf>>
  BY <1>1, <1>2 DEF CrtcInv
<1>3. CASE lease' = NoLease
  BY <1>3 DEF CrtcInv
<1>4. CASE ResetPlanes
  <2>1. Within("create", 6)
    <3>1. At("server", "reset")
      BY <1>4, Zenon DEF ResetPlanes
    <3>2. Within("create", 6) <=> "create" = EndOf("reset") /\ LeftOf("reset") <= 6
      BY <3>1, ServerWithin, Zenon
    <3> QED
      BY <3>2 DEF EndOf, LeftOf
  <2> QED
    BY <1>3, <1>4, <2>1, NotYet DEF ResetPlanes
<1>5. CASE CreateLease
  <2>1. Within("create", 2) /\ Within("create", 6)
    <3>1. At("server", "create")
      BY <1>5, Zenon DEF CreateLease
    <3>2. /\ Within("create", 6) <=> "create" = EndOf("create") /\ LeftOf("create") <= 6
          /\ Within("create", 2) <=> "create" = EndOf("create") /\ LeftOf("create") <= 2
      BY <3>1, ServerWithin, Zenon
    <3> QED
      BY <3>2 DEF EndOf, LeftOf
  <2>2. lease = NoLease /\ \A p \in Planes : crtcOf[p] # ext.crtc
    BY <2>1, NotYet, Zenon DEF SanitizeInv
  <2>3. crtcOf' = crtcOf /\ (lease' = lease \/ lease'.crtc = ext.crtc)
    BY <1>5 DEF CreateLease
  <2> QED
    BY <1>1, <1>3, <2>2, <2>3 DEF CrtcInv
<1>6. ASSUME NEW t \in Thread, RestoreDisplay(t) PROVE CrtcInv'
  <2>1. lease' = IF phase = 3 /\ entry.active THEN NoLease ELSE lease
    BY <1>6, ZenonT(60) DEF RestoreDisplay
  <2> QED
    BY <1>3, <2>1 DEF LeaseInv
<1>7. ASSUME NEW t \in Thread, HandlePluggableDisplays(t) PROVE CrtcInv'
  <2>1. CASE UNCHANGED <<lease, crtcOf>>
    BY <1>2, <2>1
  <2>2. CASE lease' = IF entry.active THEN NoLease ELSE lease
    BY <1>3, <2>2 DEF LeaseInv
  <2> QED
    BY <1>7, <2>1, <2>2 DEF HandlePluggableDisplays
<1>8. CASE Commit
  <2> SUFFICES ASSUME lease # NoLease, NEW p \in Planes, crtcOf'[p] = lease.crtc
               PROVE  p = lease.plane
    BY <1>1, <1>8, ZenonT(60) DEF Commit, CrtcInv
  <2>1. lease.crtc = ext.crtc /\ ext.crtc # drm.crtcs[1] /\ ~ext.on /\ ext.crtc # 0
    BY DEF LeaseInv, Typed, DisplayTyped, Present
  <2>2. CASE owner["external"] = "surfaceflinger"
    BY <1>8, <2>1, <2>2 DEF Commit, CrtcInv, planes
  <2>3. CASE owner["external"] # "surfaceflinger"
    <3>1. PICK used : \A q \in Planes :
            crtcOf'[q] = IF q \in used THEN Committing
                         ELSE IF crtcOf[q] = Committing THEN 0 ELSE crtcOf[q]
      BY <1>8, <2>3 DEF Commit
    <3>2. Committing # lease.crtc /\ lease.crtc # 0
      BY <2>1, <2>3 DEF Committing
    <3>3. crtcOf[p] = lease.crtc
      BY <3>1, <3>2
    <3> QED
      BY <3>3, Zenon DEF CrtcInv
  <2> QED
    BY <2>2, <2>3, SMTT(60)
<1>9. CASE Scanout
  <2>1. /\ lease' = lease /\ crtcOf' = [crtcOf EXCEPT ![lease.plane] = lease.crtc]
        /\ crtcOf \in [Planes -> Crtcs \cup {0}]
    BY <1>9 DEF Scanout, Typed, PlanesTyped
  <2>2. \A p \in Planes : p # lease.plane => crtcOf'[p] = crtcOf[p]
    BY <2>1
  <2> QED
    BY <1>1, <2>1, <2>2, Zenon DEF CrtcInv
<1>10. CASE NullDisplay
  BY <1>3, <1>10, SMTT(60) DEF NullDisplay
<1>11. CASE ServerRequest \/ Status \/ Find \/ Report \/ ProcessPending \/ BeginPrepare
  BY <1>2, <1>11, ZenonT(60)
  DEF ServerRequest, Begin, Status, Find, Report, ProcessPending, BeginPrepare, planes
<1>12. CASE CheckSequence("sequence_pause", 1) \/ CheckSequence("sequence_create", 2)
  BY <1>2, <1>12 DEF CheckSequence, planes
<1>13. CASE Select \/ PrepareLease \/ PauseDisplay \/ ResolvePlane \/ ListPlanes \/ VerifyPlanes
  BY <1>2, <1>13, SMTT(60)
  DEF Select, PrepareLease, PauseDisplay, ResolvePlane, ListPlanes, VerifyPlanes, planes
<1>14. CASE Batch \/ HandleSecureSession \/ Plug \/ UNCHANGED vars
  BY <1>2, <1>14, ZenonT(60) DEF Batch, Begin, HandleSecureSession, Plug, vars, planes
<1>15. ASSUME NEW t \in Thread, Acquire(t) \/ Free(t) \/ Gate(t) \/ BeginRelease(t) PROVE CrtcInv'
  BY <1>2, <1>15, ZenonT(60) DEF Acquire, Free, Gate, BeginRelease, planes
<1> QED
  BY <1>4, <1>5, <1>6, <1>7, <1>8, <1>9, <1>10, <1>11, <1>12, <1>13, <1>14, <1>15, ZenonT(60)
  DEF Next, Server, Shared

-----------------------------------------------------------------------------
(* The cleaning of the planes. *)

\* What SanitizeExternalPlanesForLease looks at.
SamePlanes == UNCHANGED <<reserved, entry, ext, targets, clean, skipped, crtcOf>>

\* The stages of the handoff include each other.
LEMMA Stages ==
  ASSUME LockInv'
  PROVE  \A i, j \in Nat : Within("create", i)' /\ i <= j => Within("create", j)'
<1>1. Len(todo'["server"]) \in Nat
  <2>1. OnPath("server")'
    BY Zenon DEF LockInv, Thread
  <2>2. CASE todo'["server"] = <<>>
    BY <2>2
  <2>3. ASSUME NEW pl \in Plans("server"), NEW k \in Nat, Rest(todo'["server"], pl.code, k)
        PROVE  Len(todo'["server"]) \in Nat
    BY <2>3 DEF Rest
  <2> QED
    BY <2>1, <2>2, <2>3, Zenon DEF OnPath, Idle, Placed
<1> QED
  BY <1>1 DEF Within

\* Nothing moves the planes during the handoff: SurfaceFlinger is kept out by
\* command_seq_mutex_, hotplug by the display's mutex, releases by the lease mutex.
LEMMA SanitizeKept ==
  ASSUME LockInv, Typed, SessionInv, LeaseInv, SanitizeInv, [Next]_vars
  PROVE  SanitizeInv'
<1>1. Planes' = Planes
  BY BootSame DEF Planes
<1>2. /\ Within("create", 1)' => Within("create", 4)'
      /\ Within("create", 2)' => Within("create", 4)'
      /\ Within("create", 3)' => Within("create", 4)'
  BY LocksKept, Stages
<1>3. CASE ~Within("create", 4)'
  BY <1>2, <1>3, Zenon DEF SanitizeInv
<1>4. CASE QuietNext /\ SamePlanes
  <2>1. CASE todo'["server"] = todo["server"]
    <3>1. \A c, j : Within(c, j)' <=> Within(c, j)
      BY <2>1, Zenon DEF Within
    <3>2. /\ reserved' = reserved /\ entry' = entry /\ ext' = ext /\ targets' = targets
          /\ clean' = clean /\ skipped' = skipped /\ crtcOf' = crtcOf
      BY <1>4 DEF SamePlanes
    <3>3. Present' = Present /\ SanitizeTargets' = SanitizeTargets
      BY <1>1, <3>2 DEF Present, SanitizeTargets
    <3> QED
      BY <1>1, <3>1, <3>2, <3>3, Zenon DEF SanitizeInv
  <2> QED
    BY <1>3, <1>4, <2>1, QuietSteps, Zenon DEF Quiet
<1>5. CASE QuietNext /\ ~Within("create", 4)
  <2>1. CASE todo'["server"] = todo["server"]
    BY <1>3, <1>5, <2>1, Zenon DEF Within
  <2> QED
    BY <1>3, <1>5, <2>1, QuietSteps, Zenon DEF Quiet
<1>6. CASE Return("server")
  BY <1>3, <1>6, StopSteps, Zenon
<1>7. Within("create", 4) => lease = NoLease /\ \A m \in {"command", "lease", "external"} :
                                                   owner[m] = "server"
  <2>1. Within("create", 4) => Within("create", 5) /\ Within("create", 6)
    <3>1. CASE todo["server"] = <<>>
      BY <3>1, Zenon DEF Within
    <3>2. CASE todo["server"] # <<>>
      <4>1. PICK e \in Finals, n \in Nat \ {0} : Before(e, n)
        BY <3>2, ServerWhere, Zenon
      <4>2. \A c, j : Within(c, j) <=> c = e /\ n <= j
        BY <4>1, WithinBefore, Zenon
      <4> QED
        BY <4>2
    <3> QED
      BY <3>1, <3>2
  <2> QED
    BY <2>1, NotYet, ServerCovered
<1>8. ASSUME NEW t \in Thread \ {"server"}, NEW m \in {"command", "lease", "external"},
             owner[m] = t, QuietNext
      PROVE  SanitizeInv'
  BY <1>5, <1>7, <1>8, Zenon
<1>9. CASE Commit
  <2>1. At("surfaceflinger", "commit") /\ QuietNext
    BY <1>9, Zenon DEF Commit, QuietNext
  <2>2. "surfaceflinger" \in Thread \ {"server"} /\ "command" \in Needs("commit")
    BY DEF Thread, Needs
  <2> QED
    BY <1>8, <2>1, <2>2, Guarded
<1>10. ASSUME NEW t \in Thread, RestoreDisplay(t) \/ HandlePluggableDisplays(t)
       PROVE  SanitizeInv'
  <2>1. QuietNext
    BY <1>10, ZenonT(60) DEF QuietNext, Shared
  <2>2. PICK c \in {"restore", "hotplug"} : At(t, c)
    BY <1>10, ZenonT(60) DEF RestoreDisplay, HandlePluggableDisplays
  <2>3. CASE t = "server"
    <3>1. Within("create", 4) <=> "create" = EndOf(c) /\ LeftOf(c) <= 4
      BY <2>2, <2>3, ServerWithin, Zenon
    <3>2. ~Within("create", 4)
      BY <3>1 DEF EndOf
    <3> QED
      BY <1>5, <2>1, <3>2
  <2>4. CASE t # "server"
    <3>1. "external" \in Needs(c)
      BY DEF Needs
    <3>2. owner["external"] = t
      BY <2>2, <3>1, Guarded, ZenonT(60)
    <3> QED
      BY <1>8, <2>1, <2>4, <3>2
  <2> QED
    BY <2>3, <2>4
<1>11. CASE Scanout
  BY <1>5, <1>7, <1>11 DEF Scanout, QuietNext
<1>12. CASE NullDisplay
  <2>1. todo'["server"] = <<>>
    BY <1>12, SMTT(60) DEF NullDisplay, Thread
  <2> QED
    BY <1>3, <2>1, Zenon DEF Within
<1>13. ASSUME NEW c \in {"resolve", "list", "reset", "verify"}, At("server", c), Continue("server")
       PROVE  /\ c = "resolve" \/ Within("create", 4)
              /\ c = "reset" => Within("create", 3) /\ ~Within("create", 2)
              /\ c = "verify" => Within("create", 2)
              /\ Within("create", 3)' => c # "resolve"
              /\ Within("create", 2)' => c \notin {"resolve", "list"}
              /\ Within("create", 1)' => c = "verify"
              /\ c # "list" => ~Within("create", 3)' \/ Within("create", 2)'
  <2>1. /\ \A d, j : Within(d, j) <=> d = EndOf(c) /\ LeftOf(c) <= j
        /\ \A d, j : Within(d, j)' <=> d = EndOf(c) /\ LeftOf(c) - 1 <= j
    BY <1>13, CheckSteps, ZenonT(60)
  <2> QED
    BY <2>1 DEF EndOf, LeftOf
<1>14. CASE ResolvePlane
  <2>1. At("server", "resolve") /\ reserved' = reserved
    BY <1>14 DEF ResolvePlane, boot
  <2>2. CASE Continue("server") /\ ~AbandonTakeover
    <3>1. ext' = ext /\ Present /\ ~ext.on /\ entry'.plane = reserved /\ reserved # 0
      BY <1>14, <2>2 DEF ResolvePlane, LeasablePlane, Typed, DisplayTyped
    <3>2. ~Within("create", 3)' /\ ~Within("create", 2)' /\ ~Within("create", 1)'
      BY <1>13, <2>1, <2>2
    <3> QED
      BY <2>1, <3>1, <3>2 DEF SanitizeInv, Present
  <2>3. CASE Return("server")
    BY <1>6, <2>3, SMTT(60)
  <2> QED
    BY <1>14, <2>2, <2>3 DEF ResolvePlane, AbandonTakeover
<1>15. CASE ListPlanes
  <2>1. At("server", "list") /\ reserved' = reserved /\ crtcOf' = crtcOf
    BY <1>15, SMTT(60) DEF ListPlanes, boot
  <2>2. CASE /\ Continue("server") /\ crtcOf[entry.plane] \in {0, ext.crtc}
             /\ targets' = SanitizeTargets /\ UNCHANGED <<ext, entry>>
    <3>1. Within("create", 4) /\ ~Within("create", 2)' /\ ~Within("create", 1)'
      BY <1>13, <2>1, <2>2, ZenonT(60)
    <3>2. SanitizeTargets' = SanitizeTargets
      BY <1>1, <2>1, <2>2 DEF SanitizeTargets
    <3> QED
      BY <2>1, <2>2, <3>1, <3>2, ZenonT(60) DEF SanitizeInv, Present
  <2>3. CASE Return("server")
    BY <1>6, <2>3, SMTT(60)
  <2> QED
    BY <1>15, <2>2, <2>3, ZenonT(60) DEF ListPlanes, AbandonTakeover
<1>16. CASE ResetPlanes
  <2>1. At("server", "reset") /\ reserved' = reserved
    BY <1>16, SMTT(60) DEF ResetPlanes, boot
  <2>2. CASE /\ Continue("server") /\ UNCHANGED <<ext, entry, targets>>
             /\ crtcOf' = [p \in Planes |-> IF p \in targets THEN 0 ELSE crtcOf[p]]
    <3>1. /\ Within("create", 4) /\ Within("create", 3) /\ ~Within("create", 2)
          /\ ~Within("create", 1)' /\ (~Within("create", 3)' \/ Within("create", 2)')
      BY <1>13, <2>1, <2>2
    <3>2. /\ targets = SanitizeTargets /\ Present /\ ~ext.on
          /\ entry.plane = reserved /\ reserved # 0
      BY <3>1, ZenonT(60) DEF SanitizeInv
    <3>3. entry.plane \in Planes /\ entry.plane \in targets
      BY <3>2, ZenonT(60) DEF Typed, BootTyped, SanitizeTargets
    <3>4. \A p \in Planes : crtcOf'[p] # ext.crtc
      BY <2>2, <3>2 DEF SanitizeTargets, Present
    <3>5. crtcOf'[entry.plane] = 0
      BY <2>2, <3>3
    <3> QED
      BY <1>1, <2>1, <2>2, <3>1, <3>2, <3>3, <3>4, <3>5, ZenonT(60) DEF SanitizeInv, Present
  <2>3. CASE Return("server")
    BY <1>6, <2>3
  <2> QED
    BY <1>16, <2>2, <2>3, SMTT(60) DEF ResetPlanes, AbandonTakeover
<1>17. CASE VerifyPlanes
  <2>1. At("server", "verify") /\ reserved' = reserved /\ crtcOf' = crtcOf
    BY <1>17, SMTT(60) DEF VerifyPlanes, boot
  <2>2. CASE /\ Continue("server") /\ ResetVerified
             /\ UNCHANGED <<ext, entry, targets, clean, skipped>>
    <3>1. /\ Within("create", 4) /\ Within("create", 2)
          /\ (~Within("create", 3)' \/ Within("create", 2)')
      BY <1>13, <2>1, <2>2, SMTT(60)
    <3>2. entry.plane \in clean \cup skipped
      BY <2>2, <3>1 DEF SanitizeInv, ResetVerified
    <3> QED
      BY <1>1, <2>1, <2>2, <3>1, <3>2, ZenonT(60) DEF SanitizeInv, Present
  <2>3. CASE Return("server")
    BY <1>6, <2>3, SMTT(60)
  <2> QED
    BY <1>17, <2>2, <2>3 DEF VerifyPlanes, AbandonTakeover, sanitize
<1>18. CASE BeginPrepare \/ CheckSequence("sequence_pause", 1) \/ CheckSequence("sequence_create", 2)
  <2>1. PICK c \in {"begin", "sequence_pause", "sequence_create"} : At("server", c)
    BY <1>18 DEF BeginPrepare, CheckSequence
  <2>2. CASE Continue("server")
    <3>1. \A d, j : Within(d, j)' <=> d = EndOf(c) /\ LeftOf(c) - 1 <= j
      BY <2>1, <2>2, CheckSteps, SMTT(60)
    <3>2. ~Within("create", 4)'
      BY <3>1 DEF EndOf, LeftOf
    <3> QED
      BY <1>3, <3>2
  <2> QED
    BY <1>6, <1>18, <2>2, ZenonT(60) DEF BeginPrepare, CheckSequence
<1>19. CASE PrepareLease \/ PauseDisplay \/ CreateLease \/ Report
  <2>1. CASE PrepareLease \/ Report
    BY <1>6, <2>1, ZenonT(60) DEF PrepareLease, Report
  <2>2. CASE PauseDisplay \/ CreateLease
    BY <1>6, <2>2 DEF PauseDisplay, CreateLease, AbandonTakeover
  <2> QED
    BY <1>19, <2>1, <2>2, SMTT(60)
<1>20. CASE ServerRequest \/ Status \/ Find \/ Select \/ ProcessPending
  BY <1>4, <1>20, ZenonT(60)
  DEF ServerRequest, Begin, Status, Find, Select, ProcessPending, SamePlanes, boot, display,
      planes, sanitize, QuietNext
<1>21. CASE Batch \/ HandleSecureSession \/ Plug \/ UNCHANGED vars
  BY <1>4, <1>21, ZenonT(60)
  DEF Batch, Begin, HandleSecureSession, Plug, vars, SamePlanes, boot, display, planes, sanitize,
      QuietNext
<1>22. ASSUME NEW t \in Thread, Acquire(t) \/ Free(t) \/ Gate(t) \/ BeginRelease(t)
       PROVE  SanitizeInv'
  <2>1. QuietNext
    BY <1>22, ZenonT(60) DEF QuietNext, Shared
  <2>2. SamePlanes
    BY <1>22, ZenonT(60) DEF Acquire, Free, Gate, BeginRelease, SamePlanes, boot, display, planes, sanitize
  <2> QED
    BY <1>4, <2>1, <2>2
<1> QED
  BY <1>9, <1>10, <1>11, <1>12, <1>14, <1>15, <1>16, <1>17, <1>18, <1>19, <1>20, <1>21, <1>22,
     ZenonT(60)
  DEF Next, Server, Shared

-----------------------------------------------------------------------------
(* Types. *)

\* A fixed primary plane is a plane of the driver.
LEMMA FixedPlane ==
  ASSUME NEW d, NEW crtc, NEW readable, d.planes \in Seq(Nat \ {0})
  PROVE  GetFixedPrimaryPlane(d, crtc, readable) \in Elements(d.planes) \cup {0}
<1> DEFINE index == CHOOSE i \in 1 .. Len(d.crtcs) : d.crtcs[i] = crtc
           counted(j) == {i \in 1 .. j : d.planes[i] \in d.primary \cap readable}
           nth == {j \in counted(Len(d.planes)) : Cardinality(counted(j)) = index}
<1>1. GetFixedPrimaryPlane(d, crtc, readable) =
        IF \E j \in nth : index \in d.possible[d.planes[j]]
          THEN d.planes[CHOOSE j \in nth : TRUE] ELSE 0
  BY ZenonT(60) DEF GetFixedPrimaryPlane
<1>2. nth \subseteq 1 .. Len(d.planes)
  BY SMTT(60)
<1> HIDE DEF nth, index
<1>3. CASE nth = {}
  BY <1>1, <1>3
<1>4. CASE nth # {}
  <2>1. (CHOOSE j \in nth : TRUE) \in 1 .. Len(d.planes)
    BY <1>2, <1>4, Zenon
  <2>2. d.planes[CHOOSE j \in nth : TRUE] \in Elements(d.planes)
    BY <2>1, Zenon DEF Elements
  <2> QED
    BY <1>1, <2>2, Zenon
<1> QED
  BY <1>3, <1>4

\* Every step keeps the types of the topology and of the reservation.
LEMMA BootKept ==
  ASSUME BootTyped, [Next]_vars
  PROVE  BootTyped'
<1>1. drm' = drm /\ Planes' = Planes
  BY BootSame DEF Planes
<1>2. CASE UNCHANGED boot
  BY <1>1, <1>2, SMTT(60) DEF BootTyped, boot
<1>3. CASE NullDisplay
  <2>1. PICK readable : reserved' = ReservePlane(drm, readable)
    BY <1>3 DEF NullDisplay
  <2>2. drm.planes \in Seq(Nat \ {0})
    BY TopologyAssumption, SMTT(60) DEF TopologyAssumption, BootTyped
  <2>3. reserved' \in Planes \cup {0}
    BY <2>1, <2>2, FixedPlane DEF ReservePlane, Planes
  <2> QED
    BY <1>1, <1>3, <2>3, SMTT(60) DEF BootTyped, NullDisplay
<1> QED
  BY <1>2, <1>3, BootSame

\* Every step keeps the types of the session and of the hotplug flags.
LEMMA SessionTypesKept ==
  ASSUME SessionTyped, [Next]_vars
  PROVE  SessionTyped'
<1>1. /\ state' \in {"ANDROID", "DRAINING", "LEASED", "RESTORING", "ERROR"} /\ phase' \in 0 .. 3
  <2> USE DEF SessionTyped, session, ResetTransition
  <2>1. CASE ServerRequest \/ Status \/ Find \/ Report \/ BeginPrepare \/ Select \/ PrepareLease
    <3>1. CASE ServerRequest \/ Status \/ Find \/ Report
      BY <3>1, ZenonT(60) DEF ServerRequest, Begin, Status, Find, Report
    <3>2. CASE BeginPrepare
      BY <3>2 DEF BeginPrepare
    <3>3. CASE Select
      BY <3>3 DEF Select
    <3>4. CASE PrepareLease
      BY <3>4 DEF PrepareLease
    <3> QED
      BY <2>1, <3>1, <3>2, <3>3, <3>4, Zenon
  <2>2. CASE \/ CheckSequence("sequence_pause", 1) \/ CheckSequence("sequence_create", 2)
             \/ PauseDisplay \/ ResolvePlane \/ ListPlanes
    BY <2>2 DEF CheckSequence, PauseDisplay, ResolvePlane, ListPlanes, AbandonTakeover
  <2>3. CASE ResetPlanes \/ VerifyPlanes \/ CreateLease \/ ProcessPending
    BY <2>3 DEF ResetPlanes, VerifyPlanes, CreateLease, ProcessPending, AbandonTakeover
  <2>4. CASE Batch \/ HandleSecureSession \/ Commit \/ Scanout \/ Plug \/ UNCHANGED vars
    <3>1. UNCHANGED session
      BY <2>4, ZenonT(60) DEF Batch, Begin, HandleSecureSession, Commit, Scanout, Plug, vars
    <3> QED
      BY <3>1, SMTT(60)
  <2>5. ASSUME NEW t \in Thread, Shared(t)
        PROVE  /\ state' \in {"ANDROID", "DRAINING", "LEASED", "RESTORING", "ERROR"}
               /\ phase' \in 0 .. 3
    <3>1. CASE Acquire(t) \/ Free(t) \/ Gate(t) \/ HandlePluggableDisplays(t)
      BY <3>1, ZenonT(60) DEF Acquire, Free, Gate, HandlePluggableDisplays
    <3>2. CASE BeginRelease(t)
      <4>1. UNCHANGED session \/ (state' = "RESTORING" /\ UNCHANGED phase) \/ ResetTransition
        BY <3>2, Zenon DEF BeginRelease
      <4> QED
        BY <4>1
    <3>3. CASE RestoreDisplay(t)
      <4>1. ResetTransition \/ (state' = "ERROR" /\ UNCHANGED phase)
        BY <3>3, Zenon DEF RestoreDisplay
      <4> QED
        BY <4>1
    <3> QED
      BY <2>5, <3>1, <3>2, <3>3, ZenonT(60) DEF Shared
  <2>6. CASE NullDisplay
    BY <2>6 DEF NullDisplay
  <2> QED
    BY <2>1, <2>2, <2>3, <2>4, <2>5, <2>6, ZenonT(60) DEF Next, Server
<1>2. pending' \in BOOLEAN
  <2> USE DEF SessionTyped
  <2>1. CASE Server
    BY <2>1, ZenonT(60)
    DEF Server, ServerRequest, Begin, Status, Find, Report, BeginPrepare, Select, PrepareLease,
        CheckSequence, PauseDisplay, ResolvePlane, ListPlanes, ResetPlanes, VerifyPlanes,
        CreateLease, ProcessPending
  <2>2. CASE Batch \/ HandleSecureSession \/ Commit \/ Scanout \/ Plug \/ UNCHANGED vars
    BY <2>2, ZenonT(60) DEF Batch, Begin, HandleSecureSession, Commit, Scanout, Plug, vars
  <2>3. ASSUME NEW t \in Thread, Shared(t) PROVE pending' \in BOOLEAN
    <3>1. CASE pending' = pending
      BY <3>1
    <3>2. CASE pending' = TRUE \/ pending' = FALSE \/ pending' = (pending \/ ~plugged)
      BY <3>2, Zenon
    <3> QED
      BY <2>3, <3>1, <3>2, Zenon
      DEF Shared, Acquire, Free, BeginRelease, RestoreDisplay, Gate, HandlePluggableDisplays
  <2>4. CASE NullDisplay
    BY <2>4, Zenon DEF NullDisplay
  <2> QED
    BY <2>1, <2>2, <2>3, <2>4, ZenonT(60) DEF Next
<1>3. plugged' \in BOOLEAN
  <2> USE DEF SessionTyped, display
  <2>1. CASE Server
    BY <2>1, ZenonT(60)
    DEF Server, ServerRequest, Begin, Status, Find, Report, BeginPrepare, Select, PrepareLease,
        CheckSequence, PauseDisplay, ResolvePlane, ListPlanes, ResetPlanes, VerifyPlanes,
        CreateLease, ProcessPending
  <2>2. CASE Batch \/ HandleSecureSession \/ Commit \/ Scanout \/ NullDisplay \/ UNCHANGED vars
    <3>1. plugged' = plugged
      BY <2>2, ZenonT(60) DEF Batch, Begin, HandleSecureSession, Commit, Scanout, NullDisplay, vars
    <3> QED
      BY <3>1, SMTT(60)
  <2>3. ASSUME NEW t \in Thread, Shared(t) PROVE plugged' \in BOOLEAN
    BY <2>3, Zenon
    DEF Shared, Acquire, Free, BeginRelease, RestoreDisplay, Gate, HandlePluggableDisplays
  <2>4. CASE Plug
    BY <2>4, Zenon DEF Plug
  <2> QED
    BY <2>1, <2>2, <2>3, <2>4, ZenonT(60) DEF Next
<1> QED
  BY <1>1, <1>2, <1>3, Zenon DEF SessionTyped

\* Every step keeps the types of the display, its entry and the lease.
LEMMA DisplayKept ==
  ASSUME BootTyped, DisplayTyped, [Next]_vars
  PROVE  DisplayTyped'
<1>1. drm' = drm /\ Planes' = Planes /\ Crtcs' = Crtcs
  BY BootSame DEF Planes, Crtcs
<1>2. drm.planes \in Seq(Nat \ {0}) /\ drm.crtcs[1] # 0
  <2>1. drm.planes \in Seq(Nat \ {0}) /\ drm.crtcs \in Seq(Nat \ {0}) /\ drm.crtcs # <<>>
    BY TopologyAssumption, Zenon DEF TopologyAssumption, BootTyped
  <2> QED
    BY <2>1
<1>3. \A readable : LeasablePlane(readable) \in Planes \cup {0}
  BY <1>2, FixedPlane DEF LeasablePlane, Planes
<1>4. /\ ext.crtc \in Crtcs \cup {0} /\ ext.on \in BOOLEAN /\ entry.plane \in Planes \cup {0}
      /\ entry.active \in BOOLEAN
  BY DEF DisplayTyped
<1>5. /\ NoEntry \in [plane : Planes \cup {0}, active : BOOLEAN]
      /\ NoLease \in [crtc : Crtcs \cup {0}, plane : Planes \cup {0}]
  BY DEF NoEntry, NoLease
<1>6. CASE UNCHANGED <<ext, entry, lease>>
  BY <1>1, <1>6 DEF DisplayTyped
<1>7. AbandonTakeover => /\ ext' \in [crtc : Crtcs \cup {0}, on : BOOLEAN] /\ ext'.crtc = ext.crtc
                         /\ entry' \in [plane : Planes \cup {0}, active : BOOLEAN]
  BY <1>5, Zenon DEF AbandonTakeover, Resume, DisplayTyped
<1>8. CASE PrepareLease
  <2>1. UNCHANGED <<ext, lease>>
    BY <1>8 DEF PrepareLease, display
  <2>2. \/ entry' = entry
        \/ \E p \in Planes \cup {0} : entry' = [plane |-> p, active |-> FALSE]
    BY <1>3, <1>8 DEF PrepareLease
  <2>3. ASSUME NEW p \in Planes \cup {0}
        PROVE  [plane |-> p, active |-> FALSE] \in [plane : Planes \cup {0}, active : BOOLEAN]
    OBVIOUS
  <2>4. entry' \in [plane : Planes \cup {0}, active : BOOLEAN]
    BY <2>2, <2>3, Zenon DEF DisplayTyped
  <2> QED
    BY <1>1, <2>1, <2>4, SMTT(60) DEF DisplayTyped
<1>9. CASE PauseDisplay
  BY <1>1, <1>7, <1>9, Zenon DEF PauseDisplay, DisplayTyped
<1>10. CASE ResolvePlane
  BY <1>1, <1>3, <1>7, <1>10, SMTT(60) DEF ResolvePlane, DisplayTyped
<1>11. CASE ListPlanes \/ ResetPlanes \/ VerifyPlanes
  BY <1>1, <1>7, <1>11, ZenonT(60) DEF ListPlanes, ResetPlanes, VerifyPlanes, DisplayTyped
<1>12. CASE CreateLease
  <2>1. CASE AbandonTakeover /\ UNCHANGED lease
    BY <1>1, <1>7, <2>1 DEF DisplayTyped
  <2>2. CASE /\ lease' = [crtc |-> ext.crtc, plane |-> entry.plane]
             /\ entry' = [entry EXCEPT !.active = TRUE] /\ UNCHANGED ext
    BY <1>1, <1>4, <2>2, Zenon DEF DisplayTyped
  <2> QED
    BY <1>12, <2>1, <2>2, SMTT(60) DEF CreateLease
<1>13. ASSUME NEW t \in Thread, RestoreDisplay(t) PROVE DisplayTyped'
  <2>1. entry' = NoEntry /\ lease' \in {lease, NoLease}
    BY <1>13, ZenonT(60) DEF RestoreDisplay
  <2>2. ext' = ext \/ ext' = [ext EXCEPT !.on = TRUE]
    BY <1>13, SMTT(60) DEF RestoreDisplay, Resume
  <2> QED
    BY <1>1, <1>5, <2>1, <2>2, ZenonT(60) DEF DisplayTyped
<1>14. ASSUME NEW t \in Thread, HandlePluggableDisplays(t) PROVE DisplayTyped'
  <2>1. CASE UNCHANGED <<entry, lease>> /\ \E crtc \in Crtcs \ {drm.crtcs[1]} : ext' = [crtc |-> crtc, on |-> TRUE]
    BY <1>1, <2>1, SMTT(60) DEF DisplayTyped
  <2>2. CASE ext' = [crtc |-> 0, on |-> FALSE] /\ entry' = NoEntry /\ lease' \in {lease, NoLease}
    BY <1>1, <1>2, <1>5, <2>2, ZenonT(60) DEF DisplayTyped
  <2> QED
    BY <1>6, <1>14, <2>1, <2>2, ZenonT(60) DEF HandlePluggableDisplays
<1>15. CASE NullDisplay
  BY <1>1, <1>5, <1>15, ZenonT(60) DEF NullDisplay, DisplayTyped, display
<1>16. CASE ServerRequest \/ Status \/ Find \/ Report \/ ProcessPending \/ BeginPrepare \/ Select
  BY <1>6, <1>16, ZenonT(60)
  DEF ServerRequest, Begin, Status, Find, Report, ProcessPending, BeginPrepare, Select, display
<1>17. CASE CheckSequence("sequence_pause", 1) \/ CheckSequence("sequence_create", 2)
  BY <1>6, <1>17, SMTT(60) DEF CheckSequence, display
<1>18. CASE Batch \/ HandleSecureSession \/ Commit \/ Scanout \/ Plug \/ UNCHANGED vars
  BY <1>6, <1>18, ZenonT(60) DEF Batch, Begin, HandleSecureSession, Commit, Scanout, Plug, vars, display
<1>19. ASSUME NEW t \in Thread, Acquire(t) \/ Free(t) \/ Gate(t) \/ BeginRelease(t)
       PROVE  DisplayTyped'
  BY <1>6, <1>19, ZenonT(60) DEF Acquire, Free, Gate, BeginRelease, display
<1> QED
  BY <1>8, <1>9, <1>10, <1>11, <1>12, <1>13, <1>14, <1>15, <1>16, <1>17, <1>18, <1>19, ZenonT(60)
  DEF Next, Server, Shared

\* Every step keeps the types of the planes and of the sanitising.
LEMMA PlanesKept ==
  ASSUME BootTyped, DisplayTyped, PlanesTyped, [Next]_vars
  PROVE  PlanesTyped'
<1>1. drm' = drm /\ Planes' = Planes /\ Crtcs' = Crtcs
  BY BootSame DEF Planes, Crtcs
<1>2. CASE UNCHANGED <<crtcOf, clean, targets, skipped>>
  BY <1>1, <1>2 DEF PlanesTyped
<1>3. AbandonTakeover => clean' \subseteq Planes /\ targets' \subseteq Planes /\ skipped' \subseteq Planes
  BY DEF AbandonTakeover
<1>4. CASE PauseDisplay \/ ResolvePlane \/ VerifyPlanes
  BY <1>1, <1>3, <1>4 DEF PauseDisplay, ResolvePlane, VerifyPlanes, PlanesTyped, sanitize
<1>5. CASE ListPlanes
  BY <1>1, <1>3, <1>5, SMTT(60) DEF ListPlanes, SanitizeTargets, PlanesTyped
<1>6. CASE ResetPlanes
  <2>1. CASE AbandonTakeover /\ UNCHANGED crtcOf
    BY <1>1, <1>3, <2>1 DEF PlanesTyped
  <2>2. CASE /\ crtcOf' = [p \in Planes |-> IF p \in targets THEN 0 ELSE crtcOf[p]]
             /\ clean' \subseteq targets /\ skipped' \subseteq targets /\ targets' = targets
    BY <1>1, <2>2 DEF PlanesTyped
  <2> QED
    <3>1. \A found \in Readable(targets) : found \subseteq targets
      BY DEF Readable
    <3> QED
      BY <1>6, <2>1, <2>2, <3>1 DEF ResetPlanes
<1>7. CASE CreateLease
  BY <1>1, <1>3, <1>7 DEF CreateLease, PlanesTyped
<1>8. ASSUME NEW t \in Thread, RestoreDisplay(t) PROVE PlanesTyped'
  <2>1. PICK off : crtcOf' = [p \in Planes |-> IF p \in off THEN 0 ELSE crtcOf[p]]
    BY <1>8, ZenonT(60) DEF RestoreDisplay
  <2>2. UNCHANGED <<clean, targets, skipped>>
    BY <1>8, ZenonT(60) DEF RestoreDisplay, sanitize
  <2> QED
    BY <1>1, <2>1, <2>2 DEF PlanesTyped
<1>9. ASSUME NEW t \in Thread, HandlePluggableDisplays(t) PROVE PlanesTyped'
  <2>1. UNCHANGED <<clean, targets, skipped>>
    BY <1>9, ZenonT(60) DEF HandlePluggableDisplays, sanitize
  <2>2. CASE crtcOf' = crtcOf
    BY <1>2, <2>1, <2>2
  <2>3. CASE \E left \in BOOLEAN :
               crtcOf' = [p \in Planes |-> IF crtcOf[p] = ext.crtc /\ ~left THEN 0 ELSE crtcOf[p]]
    BY <1>1, <2>1, <2>3 DEF PlanesTyped
  <2> QED
    BY <1>9, <2>2, <2>3, ZenonT(60) DEF HandlePluggableDisplays
<1>10. CASE Commit
  <2>1. UNCHANGED <<targets, skipped>>
    BY <1>10 DEF Commit, sanitize
  <2>2. CASE UNCHANGED planes
    BY <1>2, <2>1, <2>2 DEF planes
  <2>3. ASSUME NEW used,
               crtcOf' = [p \in Planes |-> IF p \in used THEN Committing
                                           ELSE IF crtcOf[p] = Committing THEN 0 ELSE crtcOf[p]],
               clean' = clean \ used
        PROVE  PlanesTyped'
    <3>1. drm.crtcs \in Seq(Nat \ {0}) /\ drm.crtcs # <<>>
      BY TopologyAssumption, Zenon DEF TopologyAssumption, BootTyped
    <3>2. drm.crtcs[1] \in Crtcs
      BY <3>1, SMTT(60) DEF Crtcs, Elements
    <3>3. Committing \in Crtcs \cup {0}
      BY <3>2 DEF Committing, DisplayTyped
    <3> QED
      BY <1>1, <2>1, <2>3, <3>3 DEF PlanesTyped
  <2> QED
    BY <1>10, <2>2, <2>3 DEF Commit
<1>11. CASE Scanout
  <2>1. lease.crtc \in Crtcs \cup {0}
    BY DEF DisplayTyped
  <2> QED
    BY <1>1, <1>11, <2>1, Zenon DEF Scanout, PlanesTyped, sanitize
<1>12. CASE NullDisplay
  BY <1>1, <1>12, ZenonT(60) DEF NullDisplay, PlanesTyped
<1>13. CASE \/ ServerRequest \/ Status \/ Find \/ Report \/ ProcessPending \/ BeginPrepare \/ Select
            \/ PrepareLease
  BY <1>2, <1>13, ZenonT(60)
  DEF ServerRequest, Begin, Status, Find, Report, ProcessPending, BeginPrepare, Select,
      PrepareLease, planes, sanitize
<1>14. CASE CheckSequence("sequence_pause", 1) \/ CheckSequence("sequence_create", 2)
  BY <1>2, <1>14, SMTT(60) DEF CheckSequence, planes, sanitize
<1>15. CASE Batch \/ HandleSecureSession \/ Plug \/ UNCHANGED vars
  BY <1>2, <1>15, ZenonT(60) DEF Batch, Begin, HandleSecureSession, Plug, vars, planes, sanitize
<1>16. ASSUME NEW t \in Thread, Acquire(t) \/ Free(t) \/ Gate(t) \/ BeginRelease(t)
       PROVE  PlanesTyped'
  BY <1>2, <1>16 DEF Acquire, Free, Gate, BeginRelease, planes, sanitize
<1> QED
  BY <1>4, <1>5, <1>6, <1>7, <1>8, <1>9, <1>10, <1>11, <1>12, <1>13, <1>14, <1>15, <1>16, ZenonT(60)
  DEF Next, Server, Shared

-----------------------------------------------------------------------------
(* The theorems. *)

\* A composer that has just started satisfies the invariant.
LEMMA HandoffInit == Init => HandoffInv
<1> SUFFICES ASSUME Init PROVE HandoffInv
  OBVIOUS
<1>1. LockInv
  <2>1. owner \in [Mutex -> Thread \cup {"none"}] /\ DOMAIN todo = Thread
    BY SMTT(60) DEF Init
  <2>2. ASSUME NEW t \in Thread PROVE todo[t] = <<>> /\ t # "none"
    BY SMTT(60) DEF Init, Thread
  <2>3. ASSUME NEW t \in Thread PROVE Owns(t, {})
    BY <2>2, SMTT(60) DEF Owns, Init
  <2> QED
    BY <2>1, <2>2, <2>3, ZenonT(60) DEF LockInv, OnPath, Idle
<1>2. todo["server"] = <<>> /\ lease = NoLease
  BY ZenonT(60) DEF Init, Thread
<1>3. SessionInv /\ LeaseInv /\ CrtcInv /\ SanitizeInv
  BY <1>2, Zenon DEF SessionInv, LeaseInv, CrtcInv, SanitizeInv, Within
<1>4. /\ drm \in Topologies /\ drm.planes \in Seq(Nat \ {0}) /\ drm.crtcs \in Seq(Nat \ {0})
      /\ drm.crtcs # <<>>
  BY TopologyAssumption, ZenonT(60) DEF TopologyAssumption, Init
<1>5. BootTyped
  <2>1. PICK readable : reserved = ReservePlane(drm, readable)
    BY ZenonT(60) DEF Init
  <2>2. reserved \in Planes \cup {0}
    BY <1>4, <2>1, FixedPlane, ZenonT(60) DEF ReservePlane, Planes
  <2> QED
    BY <1>4, <2>2 DEF BootTyped, Init
<1>6. SessionTyped
  <2>1. pending \in BOOLEAN /\ plugged \in BOOLEAN
    BY ZenonT(60) DEF Init
  <2> QED
    BY <2>1 DEF SessionTyped, Init
<1>7. DisplayTyped
  <2>1. drm.crtcs[1] # 0
    BY <1>4, SMTT(60)
  <2> QED
    BY <2>1, ZenonT(60) DEF DisplayTyped, Init, NoEntry, NoLease
<1>8. PlanesTyped
  BY ZenonT(60) DEF PlanesTyped, Init
<1> QED
  BY <1>1, <1>3, <1>5, <1>6, <1>7, <1>8, Zenon DEF HandoffInv, Typed

\* Every step of every thread keeps the invariant.
LEMMA HandoffNext == HandoffInv /\ [Next]_vars => HandoffInv'
<1> SUFFICES ASSUME HandoffInv, [Next]_vars PROVE HandoffInv'
  OBVIOUS
<1>1. /\ LockInv /\ Typed /\ SessionInv /\ LeaseInv /\ CrtcInv /\ SanitizeInv
      /\ BootTyped /\ SessionTyped /\ DisplayTyped /\ PlanesTyped
  BY Zenon DEF HandoffInv, Typed
<1>2. LockInv' /\ SessionInv' /\ LeaseInv' /\ CrtcInv' /\ SanitizeInv'
  BY <1>1, LocksKept, SessionKept, LeaseKept, CrtcKept, SanitizeKept, ZenonT(60)
<1>3. BootTyped' /\ SessionTyped' /\ DisplayTyped' /\ PlanesTyped'
  BY <1>1, BootKept, SessionTypesKept, DisplayKept, PlanesKept, ZenonT(60)
<1> QED
  BY <1>2, <1>3, Zenon DEF HandoffInv, Typed

\* The inductive invariant: threads on their paths with the paths' mutexes, what
\* the server found out, whose the lease is and how far the handoff has got.
THEOREM HandoffInvariance == Spec => []HandoffInv
BY HandoffInit, HandoffNext, PTL DEF Spec

\* Type correctness, of the instructions left to each thread included.
THEOREM HandoffTypes == Spec => []TypeOK
<1>1. ASSUME HandoffInv PROVE TypeOK
  <2>1. LockInv /\ BootTyped /\ SessionTyped /\ DisplayTyped /\ PlanesTyped
    BY <1>1, ZenonT(60) DEF HandoffInv, Typed
  <2>2. ASSUME NEW t \in Thread, NEW i \in 1 .. Len(todo[t])
        PROVE  todo[t][i].op \in {"lock", "unlock", "run"}
    <3>1. CASE todo[t] = <<>>
      BY <3>1, SMTT(60)
    <3>2. CASE todo[t] # <<>>
      <4>1. todo[t] \in Seq(Instruction)
        BY <2>1, <3>2, Busy, ZenonT(60) DEF Rest
      <4>2. todo[t][i] \in Instruction
        BY <4>1, SMTT(60)
      <4> QED
        BY <4>2 DEF Instruction
    <3> QED
      BY <3>1, <3>2, ZenonT(60)
  <2>3. pipes \subseteq drm.pipes
    BY <2>1 DEF BootTyped, AllocatorPipes
  <2>4. owner \in [Mutex -> Thread \cup {"none"}] /\ drm \in Topologies /\ reserved \in Planes \cup {0}
    BY <2>1, Zenon DEF LockInv, BootTyped
  <2> QED
    BY <2>1, <2>2, <2>3, <2>4, Zenon DEF TypeOK, SessionTyped, DisplayTyped, PlanesTyped
<1> QED
  BY <1>1, HandoffInvariance, PTL

\* The composer's threads never wait for each other in a circle: the order
\* command_seq_mutex_, hdmi_lease_mutex_, pluggable_handler_lock_, a display's mutex
\* holds on every path, the release from inside a batch included.
THEOREM LocksAreOrdered == Spec => []NoCircularWait
<1>1. ASSUME HandoffInv PROVE NoCircularWait
  BY <1>1, OrderHelps, Zenon DEF HandoffInv
<1> QED
  BY <1>1, HandoffInvariance, PTL

\* A live lease is exclusive, on every topology.
THEOREM LesseeIsAlone == Spec => []LeaseExclusive
<1>1. ASSUME HandoffInv PROVE LeaseExclusive
  BY <1>1, ZenonT(60) DEF HandoffInv, LeaseInv, CrtcInv, LeaseExclusive, Typed, BootTyped, AllocatorPipes
<1> QED
  BY <1>1, HandoffInvariance, PTL

\* drmModeCreateLease finds the CRTC empty and the plane clean.
THEOREM HandoffIsClean == Spec => CleanHandoff
<1> DEFINE Clean == lease = NoLease /\ lease' # NoLease =>
                      /\ \A p \in Planes : crtcOf[p] # lease'.crtc
                      /\ crtcOf[lease'.plane] = 0
                      /\ lease'.plane \in clean \cup skipped
<1>1. ASSUME HandoffInv, [Next]_vars PROVE [Clean]_vars
  <2> SUFFICES ASSUME lease = NoLease, lease' # NoLease PROVE Clean
    BY Zenon
  <2>1. CreateLease
    <3>1. ASSUME NEW t \in Thread, Shared(t) PROVE lease' \in {lease, NoLease}
      BY <3>1, ZenonT(60)
      DEF Shared, Acquire, Free, BeginRelease, RestoreDisplay, Gate, HandlePluggableDisplays
    <3>2. CASE Batch \/ HandleSecureSession \/ Commit \/ Scanout \/ Plug \/ NullDisplay
               \/ UNCHANGED vars
      BY <3>2, ZenonT(60) DEF Batch, Begin, HandleSecureSession, Commit, Scanout, Plug, NullDisplay, vars
    <3>3. Server /\ ~CreateLease => lease' = lease
      BY
      DEF Server, ServerRequest, Begin, Status, Find, Report, BeginPrepare, Select, PrepareLease,
          CheckSequence, PauseDisplay, ResolvePlane, ListPlanes, ResetPlanes, VerifyPlanes,
          ProcessPending
    <3>4. CASE \E t \in Thread : Shared(t)
      BY <3>1, <3>4
    <3> QED
      BY <1>1, <3>2, <3>3, <3>4, Zenon DEF Next
  <2>2. LockInv /\ SanitizeInv /\ At("server", "create")
    BY <1>1, <2>1, Zenon DEF HandoffInv, CreateLease
  <2>3. /\ Within("create", 2) <=> "create" = EndOf("create") /\ LeftOf("create") <= 2
        /\ Within("create", 1) <=> "create" = EndOf("create") /\ LeftOf("create") <= 1
    BY <2>2, ServerWithin, ZenonT(60)
  <2>4. Within("create", 2) /\ Within("create", 1)
    BY <2>3 DEF EndOf, LeftOf
  <2>5. lease' = [crtc |-> ext.crtc, plane |-> entry.plane]
    BY <2>1 DEF CreateLease
  <2> QED
    BY <2>2, <2>4, <2>5, ZenonT(60) DEF SanitizeInv
<1> QED
  BY <1>1, HandoffInvariance, PTL DEF Spec, CleanHandoff

\* The cleaning commit takes no plane from the built-in display.
THEOREM CleaningKeepsOthers == Spec => SanitizeKeepsOthers
<1> DEFINE Keeps == ResetPlanes => \A p \in Planes : crtcOf[p] \notin {0, ext.crtc} =>
                                     crtcOf'[p] = crtcOf[p]
<1>1. ASSUME HandoffInv, [Next]_vars PROVE [Keeps]_vars
  <2> SUFFICES ASSUME ResetPlanes PROVE Keeps
    BY Zenon
  <2>1. LockInv /\ SanitizeInv /\ At("server", "reset")
    BY <1>1, Zenon DEF HandoffInv, ResetPlanes
  <2>2. /\ Within("create", 3) <=> "create" = EndOf("reset") /\ LeftOf("reset") <= 3
        /\ Within("create", 2) <=> "create" = EndOf("reset") /\ LeftOf("reset") <= 2
    BY <2>1, ServerWithin, ZenonT(60)
  <2>3. Within("create", 3) /\ ~Within("create", 2)
    BY <2>2 DEF EndOf, LeftOf
  <2>4. targets = SanitizeTargets /\ crtcOf[entry.plane] \in {0, ext.crtc}
    BY <2>1, <2>3, ZenonT(60) DEF SanitizeInv
  <2>5. \/ crtcOf' = crtcOf
        \/ crtcOf' = [p \in Planes |-> IF p \in targets THEN 0 ELSE crtcOf[p]]
    BY DEF ResetPlanes
  <2> QED
    BY <2>4, <2>5 DEF SanitizeTargets
<1> QED
  BY <1>1, HandoffInvariance, PTL DEF Spec, SanitizeKeepsOthers

=============================================================================
