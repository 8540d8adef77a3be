--------------------------- MODULE AgentProcesses ---------------------------
(***************************************************************************)
(* The processes that the chroot agent starts and ends: the tracer's       *)
(* preflight, the input bridge, Xorg and the desktop session, together     *)
(* with the files they leave behind (src/native/agent/main.cpp).           *)
(* BrokerSession has the agent's messages; here a request of the broker is *)
(* what starts an operation, and its answer the end of one.                *)
(*                                                                         *)
(* The agent runs one thread.  `todo' is what it still has to do of the    *)
(* present operation; it is in run_agent's loop when nothing is left.  A   *)
(* wait with a time limit may end at any moment.  A process may exit at    *)
(* any moment, so that a SIGTERM needs no step of its own; one that got    *)
(* SIGKILL is "dying".                                                     *)
(***************************************************************************)
EXTENDS Naturals, Sequences

CONSTANT
  Agents     \* the agents that run one after the other, the last one not killed

\* Values of `lock', `seen', `env' and `paths' that are no agent.
NoAgent == {"none", "dead", "former"}

ASSUME AgentAssumption == Agents # {} /\ Agents \cap NoAgent = {}

VARIABLES
  up,        \* an agent runs
  quit,      \* it has left its loop
  todo,      \* its remaining instructions
  known,     \* groups of which it has the pid: g_session, g_xorg, g_bridge
  prepared,  \* g_probe_mode # NONE
  started,   \* the broker has sent a START since its last PREPARE
  fds,       \* open copies of the lease that verify_scanout uses
  leaked,    \* a lease fd that was received and never closed
  leader,    \* group -> its leader: none, running, dying, zombie
  kin,       \* group -> its other processes: none, running, dying, left
  orphan,    \* <<agent, group>>: leaders that a killed agent left running
  test,      \* the preflight's child: state, trace record, hangup, exit status
  loaded,    \* the preflight relayed the tracer's first record
  lock,      \* /tmp/.X1-lock: none, or whose Xorg's pid, or dead
  sock,      \* /tmp/.X11-unix/X1 exists
  seen,      \* the owner that prepare_session read from the lock
  raced,     \* that lock was replaced before it was removed
  serving,   \* the agents whose X servers have display :1
  env,       \* input.env: none, or whose bridge wrote it, or former
  told,      \* the agents whose bridges have written it
  paths,     \* the bridge whose g_mouse and g_keyboard the agent uses
  killed     \* the agents that got SIGKILL

agent == <<up, quit, prepared, started, fds, leaked>>
groups == <<known, leader, kin>>
preflight == <<test, loaded>>
display == <<lock, sock, seen, raced, serving>>
input == <<env, told, paths>>
vars == <<agent, todo, groups, orphan, preflight, display, input, killed>>

Group == {"session", "xorg", "bridge"}

\* The agent that runs, or that is launched next.
Me == CHOOSE a \in Agents : a \notin killed

NoTest == [st |-> "none", rec |-> "none", hup |-> FALSE, clean |-> FALSE]

\* An instruction and the group it is about.
Do(code) == [do |-> code, of |-> "none"]
Term(g) == [do |-> "term", of |-> g]

Idle == up /\ ~quit /\ todo = <<>>
At(code) == up /\ todo # <<>> /\ Head(todo).do = code
Continue == todo' = Tail(todo)

\* Mutant: the lease's copy is forgotten.
CleanupPathKeepsLease == <<Term("session"), Term("xorg"), Term("bridge"), Do("unlink")>>

\* cleanup_session.
CleanupPath == <<Term("session"), Term("xorg"), Do("close"), Term("bridge"), Do("unlink")>>

\* Mutant: an old input.env is left to be overwritten.
PreparePathKeepsPaths ==
  <<Term("session"), Term("xorg"), Term("bridge"), Do("fork_test"), Do("poll"), Do("window"),
    Do("final"), Do("fork_bridge"), Do("await"), Do("lock"), Do("clear"), Do("xauth"), Do("ready")>>

\* prepare_session; its unlink comes before everything that is new.
PreparePath ==
  <<Term("session"), Term("xorg"), Term("bridge"), Do("unlink"), Do("fork_test"), Do("poll"),
    Do("window"), Do("final"), Do("fork_bridge"), Do("await"), Do("lock"), Do("clear"),
    Do("xauth"), Do("ready")>>

\* start_xorg.
StartPath == <<Do("mode"), Do("fork_xorg"), Do("startup"), Do("desktop")>>

\* run_agent cleans up after a prepare_session or start_xorg that failed.
Fail == todo' = CleanupPath

----------------------------------------------------------------------------
(* terminate_group.                                                        *)

\* Mutant: a zombie is not alive.
ProcessAliveNoZombie(g) == leader[g] \in {"running", "dying"}

\* process_alive: kill(pid, 0) succeeds for a zombie too.
ProcessAlive(g) == leader[g] # "none"

\* Mutant: SIGTERM once more.
KillGroupGently(g) == UNCHANGED <<leader, kin>>

\* SIGKILL to the group.
KillGroup(g) ==
  /\ leader' = [leader EXCEPT ![g] = IF @ = "running" THEN "dying" ELSE @]
  /\ kin' = [kin EXCEPT ![g] = IF @ = "running" THEN "dying" ELSE @]

\* SIGTERM to the group, then up to two seconds.
Terminate ==
  /\ At("term")
  /\ LET g == Head(todo).of
         next == IF g \notin known THEN <<>>
                 ELSE IF ProcessAlive(g) THEN <<[do |-> "grace", of |-> g]>>
                 ELSE <<[do |-> "reap", of |-> g]>>
     IN  todo' = next \o Tail(todo)
  /\ UNCHANGED <<agent, groups, orphan, preflight, display, input, killed>>

GraceEnds ==
  /\ At("grace")
  /\ LET g == Head(todo).of
     IN  /\ IF ProcessAlive(g) THEN KillGroup(g) ELSE UNCHANGED <<leader, kin>>
         /\ todo' = <<[do |-> "reap", of |-> g]>> \o Tail(todo)
  /\ UNCHANGED <<agent, known, orphan, preflight, display, input, killed>>

\* waitpid without a limit.
Reap ==
  /\ At("reap")
  /\ LET g == Head(todo).of
     IN  /\ leader[g] = "zombie"
         /\ leader' = [leader EXCEPT ![g] = "none"]
         /\ known' = known \ {g}
  /\ Continue
  /\ UNCHANGED <<agent, kin, orphan, preflight, display, input, killed>>

\* The rest of cleanup_session: the trace and the lease's copy, input.env.
CloseLease ==
  /\ At("close")
  /\ fds' = 0 /\ Continue
  /\ UNCHANGED <<up, quit, prepared, started, leaked, groups, orphan, preflight, display, input, killed>>

UnlinkPaths ==
  /\ At("unlink")
  /\ env' = "none" /\ Continue
  /\ UNCHANGED <<agent, groups, orphan, preflight, display, told, paths, killed>>

----------------------------------------------------------------------------
(* trace_preflight: does the tracer load into this Xorg?                   *)

\* The runtime directory, the checks of the files, and the fork.
ForkTest ==
  /\ At("fork_test")
  /\ \/ test' = [NoTest EXCEPT !.st = "running"] /\ Continue
     \/ UNCHANGED test /\ Fail
  /\ loaded' = FALSE
  /\ UNCHANGED <<agent, groups, orphan, display, input, killed>>

\* relay_trace_record: the broker acknowledges the record and the child gets
\* the acknowledgement.
Relay(ok) ==
  /\ test.rec = "sent"
  /\ ok \in IF test.hup THEN {FALSE} ELSE BOOLEAN
  /\ test' = [test EXCEPT !.rec = IF ok THEN "answered" ELSE "refused"]

\* Two seconds for the first record.
PollTest ==
  /\ At("poll")
  /\ \/ \E ok \in BOOLEAN : Relay(ok) /\ loaded' = ok
     \/ loaded' = FALSE /\ UNCHANGED test
  /\ Continue
  /\ UNCHANGED <<agent, groups, orphan, display, input, killed>>

\* The child is gone; what it has shown decides.
Decide(exited, rest) ==
  /\ test' = NoTest
  /\ IF loaded /\ exited /\ test.clean THEN todo' = rest ELSE Fail

\* Three seconds for the exit; late records are relayed, a hangup is not an end.
AwaitTest ==
  /\ At("window")
  /\ \/ test.st = "exited" /\ Decide(TRUE, Tail(Tail(todo)))
     \/ test.st # "exited" /\ (\E ok \in BOOLEAN : Relay(ok)) /\ UNCHANGED todo
     \/ Continue /\ UNCHANGED test
  /\ UNCHANGED <<agent, groups, orphan, loaded, display, input, killed>>

\* Mutant: no second look after the time is up.
FinalExitedForgotten == FALSE

\* The look at the child after the three seconds.
FinalExited == test.st = "exited"

\* One that has not exited is killed and reaped.
FinishTest ==
  /\ At("final")
  /\ Decide(FinalExited, Tail(todo))
  /\ UNCHANGED <<agent, groups, orphan, loaded, display, input, killed>>

----------------------------------------------------------------------------
(* The rest of prepare_session.                                            *)

ForkBridge ==
  /\ At("fork_bridge")
  /\ \/ /\ known' = known \cup {"bridge"}
        /\ leader' = [leader EXCEPT !["bridge"] = "running"]
        /\ told' = told \ {Me}
        /\ Continue
     \/ Fail /\ UNCHANGED <<known, leader, told>>
  /\ UNCHANGED <<agent, kin, orphan, preflight, display, env, paths, killed>>

\* read_input_paths, again and again for 4.5 seconds.
AwaitPaths ==
  /\ At("await")
  /\ \/ env # "none" /\ paths' = env /\ Continue
     \/ Fail /\ UNCHANGED paths
  /\ UNCHANGED <<agent, groups, orphan, preflight, display, env, told, killed>>

\* Mutant: any lock is taken for a stale one.
LockHeldNever(reused) == FALSE

\* The lock names a live process: Xorg itself, or one that has got its pid.
LockHeld(reused) == lock \in Agents \/ (lock = "dead" /\ reused)

\* Display :1 must be free, or its lock stale.
ReadLock ==
  /\ At("lock")
  /\ \E reused \in BOOLEAN :
       IF LockHeld(reused) \/ (lock = "none" /\ sock) THEN Fail ELSE Continue
  /\ seen' = lock
  /\ UNCHANGED <<agent, groups, orphan, preflight, lock, sock, raced, serving, input, killed>>

\* A stale lock is removed, with the socket.
ClearLock ==
  /\ At("clear")
  /\ IF seen # "none" THEN lock' = "none" /\ sock' = FALSE ELSE UNCHANGED <<lock, sock>>
  /\ raced' = (raced \/ (seen # "none" /\ lock # seen)) /\ seen' = "none"
  /\ Continue
  /\ UNCHANGED <<agent, groups, orphan, preflight, serving, input, killed>>

\* The cookie, xauth and the directories: run_wait ends, by a kill if need be.
Authorize ==
  /\ At("xauth")
  /\ Continue \/ Fail
  /\ UNCHANGED <<agent, groups, orphan, preflight, display, input, killed>>

PrepareReady ==
  /\ At("ready")
  /\ prepared' = TRUE /\ Continue
  /\ UNCHANGED <<up, quit, started, fds, leaked, groups, orphan, preflight, display, input, killed>>

----------------------------------------------------------------------------
(* start_xorg.                                                             *)

\* read_android_mode and write_xorg_config; the lease is closed if they fail.
ReadMode ==
  /\ At("mode")
  /\ Continue \/ Fail
  /\ UNCHANGED <<agent, groups, orphan, preflight, display, input, killed>>

\* A copy of the lease is kept, the lease itself goes to the child.
ForkXorg ==
  /\ At("fork_xorg")
  /\ \/ /\ known' = known \cup {"xorg"}
        /\ leader' = [leader EXCEPT !["xorg"] = "running"]
        /\ kin' = [kin EXCEPT !["xorg"] = "none"]
        /\ fds' = fds + 1 /\ Continue
     \/ Fail /\ fds' \in {fds, fds + 1} /\ UNCHANGED groups
  /\ UNCHANGED <<up, quit, prepared, started, leaked, orphan, preflight, display, input, killed>>

\* Fourteen seconds for Xorg to answer, to scan out and to be verified.
AwaitXorg ==
  /\ At("startup")
  /\ \/ Me \in serving /\ Continue
     \/ Fail
  /\ UNCHANGED <<agent, groups, orphan, preflight, display, input, killed>>

\* spawn_lxde, unless the agent was started without a session.
ForkDesktop ==
  /\ At("desktop")
  /\ \/ /\ known' = known \cup {"session"}
        /\ leader' = [leader EXCEPT !["session"] = "running"]
        /\ kin' = [kin EXCEPT !["session"] = "none"] /\ Continue
     \/ Continue /\ UNCHANGED groups
     \/ Fail /\ UNCHANGED groups
  /\ UNCHANGED <<agent, orphan, preflight, display, input, killed>>

----------------------------------------------------------------------------
(* run_agent.                                                              *)

\* The broker prepares only after the last Xorg was stopped: it sends STOP at
\* the end of every session and of every start that fails.
ReceivePrepare ==
  /\ Idle /\ "xorg" \notin known
  /\ todo' = PreparePath
  /\ prepared' = FALSE /\ started' = FALSE /\ paths' = "none"
  /\ UNCHANGED <<up, quit, fds, leaked, groups, orphan, preflight, display, env, told, killed>>

\* The broker sends one START after a PREPARE.  One that does not fit the
\* preparation is refused, and its lease fd is not closed.
ReceiveStart ==
  /\ Idle /\ "xorg" \notin known /\ ~started /\ started' = TRUE
  /\ todo' = IF prepared THEN StartPath ELSE CleanupPath
  /\ leaked' = (leaked \/ ~prepared)
  /\ UNCHANGED <<up, quit, prepared, fds, groups, orphan, preflight, display, input, killed>>

ReceiveStop ==
  /\ Idle
  /\ todo' = CleanupPath /\ prepared' = FALSE
  /\ UNCHANGED <<up, quit, started, fds, leaked, groups, orphan, preflight, display, input, killed>>

\* Mutant: the pid of the reaped Xorg is kept.
ForgetXorgNot == known

\* g_xorg = -1.
ForgetXorg == known \ {"xorg"}

\* The loop's waitpid finds that Xorg has exited; nobody signals its group.
XorgExited ==
  /\ Idle /\ "xorg" \in known /\ leader["xorg"] = "zombie"
  /\ leader' = [leader EXCEPT !["xorg"] = "none"]
  /\ kin' = [kin EXCEPT !["xorg"] = IF @ = "running" THEN "left" ELSE @]
  /\ known' = ForgetXorg
  /\ todo' = CleanupPath
  /\ UNCHANGED <<agent, orphan, preflight, display, input, killed>>

\* The relay or a later scanout fails.
SessionFails ==
  /\ Idle /\ "xorg" \in known
  /\ todo' = CleanupPath
  /\ UNCHANGED <<agent, groups, orphan, preflight, display, input, killed>>

\* A signal, or the broker's socket is gone: the loop is left.
Quit ==
  /\ Idle
  /\ quit' = TRUE /\ todo' = CleanupPath
  /\ UNCHANGED <<up, prepared, started, fds, leaked, groups, orphan, preflight, display, input, killed>>

Exit ==
  /\ up /\ quit /\ todo = <<>>
  /\ up' = FALSE /\ leaked' = FALSE
  /\ UNCHANGED <<quit, prepared, started, fds, todo, groups, orphan, preflight, display, input, killed>>

\* The launcher starts an agent.
Launch ==
  /\ ~up
  /\ up' = TRUE /\ quit' = FALSE /\ prepared' = FALSE /\ started' = FALSE /\ paths' = "none"
  /\ UNCHANGED <<fds, leaked, todo, groups, orphan, preflight, display, env, told, killed>>

----------------------------------------------------------------------------
(* The launcher's SIGKILL, and the processes themselves.                   *)

\* run-agent.sh waits two seconds after its SIGTERM and then kills an agent that
\* is still in an operation or in its last cleanup.  What runs goes on as an
\* orphan; the desktop is no longer followed.
KillAgent ==
  /\ up /\ todo # <<>> /\ killed \cup {Me} # Agents
  /\ killed' = killed \cup {Me}
  /\ up' = FALSE /\ quit' = FALSE /\ todo' = <<>>
  /\ prepared' = FALSE /\ started' = FALSE /\ fds' = 0 /\ leaked' = FALSE
  /\ orphan' = orphan \cup {<<Me, g>> : g \in {g \in {"xorg", "bridge"} : leader[g] = "running"}}
  /\ known' = {} /\ leader' = [g \in Group |-> "none"] /\ kin' = [g \in Group |-> "none"]
  /\ test' = NoTest /\ loaded' = FALSE
  /\ IF leader["xorg"] = "running" THEN UNCHANGED <<lock, serving>>
     ELSE /\ lock' = IF lock = Me THEN "dead" ELSE lock
          /\ serving' = serving \ {Me}
  /\ seen' = "none" /\ paths' = "none" /\ UNCHANGED <<sock, raced, told>>
  /\ env' = IF env = "none" THEN "none" ELSE "former"

\* The X server `me' is gone: a clean exit removes its lock and its socket.
XorgGone(me, clean) ==
  /\ serving' = serving \ {me}
  /\ IF lock = me
       THEN IF clean THEN lock' = "none" /\ sock' = FALSE ELSE lock' = "dead" /\ UNCHANGED sock
       ELSE UNCHANGED <<lock, sock>>

LeaderExits(g) ==
  /\ leader[g] \in {"running", "dying"}
  /\ leader' = [leader EXCEPT ![g] = "zombie"]
  /\ IF g = "xorg" THEN \E clean \in {leader[g] = "running", FALSE} : XorgGone(Me, clean)
     ELSE UNCHANGED <<lock, sock, serving>>
  /\ UNCHANGED <<agent, todo, known, kin, orphan, preflight, seen, raced, input, killed>>

KinStarts(g) ==
  /\ g # "bridge" /\ leader[g] = "running" /\ kin[g] = "none"
  /\ kin' = [kin EXCEPT ![g] = "running"]
  /\ UNCHANGED <<agent, todo, known, leader, orphan, preflight, display, input, killed>>

KinExits(g) ==
  /\ kin[g] # "none"
  /\ kin' = [kin EXCEPT ![g] = "none"]
  /\ UNCHANGED <<agent, todo, known, leader, orphan, preflight, display, input, killed>>

OrphanExits(me, g) ==
  /\ orphan' = orphan \ {<<me, g>>}
  /\ IF g = "xorg" THEN \E clean \in BOOLEAN : XorgGone(me, clean)
     ELSE UNCHANGED <<lock, sock, serving>>
  /\ UNCHANGED <<agent, todo, groups, preflight, seen, raced, input, killed>>

\* The leader of group g, of this agent or of a killed one.
Runs(me, g) == <<me, g>> \in orphan \/ (me = Me /\ leader[g] = "running")

\* An X server takes display :1 if it finds no lock or a stale one; otherwise
\* it gives up, which is an exit.
Serve(me) ==
  /\ Runs(me, "xorg")
  /\ me \notin serving /\ lock \in {"none", "dead"}
  /\ lock' = me /\ sock' = TRUE /\ serving' = serving \cup {me}
  /\ UNCHANGED <<agent, todo, groups, orphan, preflight, seen, raced, input, killed>>

\* The input bridge writes input.env once, under its own name first.
Publish(me) ==
  /\ Runs(me, "bridge")
  /\ me \notin told
  /\ env' = me /\ told' = told \cup {me}
  /\ UNCHANGED <<agent, todo, groups, orphan, preflight, display, paths, killed>>

\* The preflight's child: the tracer sends a record and waits for its answer,
\* and without one it ends with status 125.  A child that the tracer was not
\* loaded into sends nothing.
TestSends ==
  /\ test.st = "running" /\ test.rec = "none" /\ ~test.hup
  /\ test' = [test EXCEPT !.rec = "sent"]
  /\ UNCHANGED <<agent, todo, groups, orphan, loaded, display, input, killed>>

\* Its end shows as a hangup and as an exit status, in either order.
TestHangsUp ==
  /\ test.st # "none" /\ ~test.hup
  /\ test' = [test EXCEPT !.hup = TRUE]
  /\ UNCHANGED <<agent, todo, groups, orphan, loaded, display, input, killed>>

TestExits ==
  /\ test.st = "running"
  /\ \E clean \in IF test.rec \in {"none", "answered"} THEN BOOLEAN ELSE {FALSE} :
       test' = [test EXCEPT !.st = "exited", !.clean = clean]
  /\ UNCHANGED <<agent, todo, groups, orphan, loaded, display, input, killed>>

----------------------------------------------------------------------------

\* A socket can be left without its lock, by whoever removed the lock.
Init ==
  /\ up = FALSE /\ quit = FALSE /\ todo = <<>>
  /\ prepared = FALSE /\ started = FALSE /\ fds = 0 /\ leaked = FALSE
  /\ known = {} /\ leader = [g \in Group |-> "none"] /\ kin = [g \in Group |-> "none"]
  /\ orphan = {}
  /\ test = NoTest /\ loaded = FALSE
  /\ lock = "none" /\ sock \in BOOLEAN /\ seen = "none" /\ raced = FALSE /\ serving = {}
  /\ env = "none" /\ told = {} /\ paths = "none"
  /\ killed = {}

Operation ==
  \/ Terminate \/ GraceEnds \/ Reap \/ CloseLease \/ UnlinkPaths
  \/ ForkTest \/ PollTest \/ AwaitTest \/ FinishTest
  \/ ForkBridge \/ AwaitPaths \/ ReadLock \/ ClearLock \/ Authorize \/ PrepareReady
  \/ ReadMode \/ ForkXorg \/ AwaitXorg \/ ForkDesktop

Loop ==
  \/ ReceivePrepare \/ ReceiveStart \/ ReceiveStop \/ XorgExited \/ SessionFails
  \/ Quit \/ Exit \/ Launch

Processes ==
  \/ \E g \in Group : LeaderExits(g) \/ KinStarts(g) \/ KinExits(g)
  \/ \E o \in orphan : OrphanExits(o[1], o[2])
  \/ \E me \in Agents : Serve(me) \/ Publish(me)
  \/ TestSends \/ TestHangsUp \/ TestExits

Next == Operation \/ Loop \/ KillAgent \/ Processes

Spec == Init /\ [][Next]_vars

\* The agent is scheduled, its time limits pass, and what SIGKILL hits dies.
FairSpec ==
  /\ Spec
  /\ WF_vars(Operation)
  /\ \A g \in Group : WF_vars(leader[g] = "dying" /\ LeaderExits(g))

----------------------------------------------------------------------------
(* Properties.                                                             *)

TypeOK ==
  /\ {up, quit, prepared, started, leaked, loaded, sock, raced} \subseteq BOOLEAN
  /\ fds \in {0, 1} /\ killed \subseteq Agents /\ killed # Agents
  /\ \A i \in 1 .. Len(todo) : todo[i].of \in Group \cup {"none"}
  /\ known \subseteq Group /\ orphan \subseteq killed \X {"xorg", "bridge"}
  /\ leader \in [Group -> {"none", "running", "dying", "zombie"}]
  /\ kin \in [Group -> {"none", "running", "dying", "left"}]
  /\ test \in [st : {"none", "running", "exited"}, rec : {"none", "sent", "answered", "refused"},
               hup : BOOLEAN, clean : BOOLEAN]
  /\ {lock, seen} \subseteq Agents \cup {"none", "dead"}
  /\ {env, paths} \subseteq Agents \cup {"none", "former"}
  /\ serving \subseteq Agents /\ told \subseteq Agents

\* Once terminate_group is through with a group, no process of it runs: the
\* leader is reaped, and every other member has left or has got SIGKILL, also
\* when the leader itself obeyed SIGTERM at once.  Left out: what Xorg leaves
\* behind when it exits by itself and run_agent's waitpid finds it.
GroupGone ==
  \A g \in Group \ known : leader[g] = "none" /\ kin[g] \in {"none", "dying", "left"}

\* A pid that the agent keeps is a child that it has not reaped yet, so that
\* terminate_group never signals a stranger that has got the same pid.
PidsOwned == \A g \in known : leader[g] # "none"

\* With no Xorg, an agent in its loop holds no copy of the lease, whichever
\* step of start_xorg or of the session failed.  (The fd of a refused START,
\* `leaked', is not closed before the agent exits.)
LeaseReturned == Idle /\ "xorg" \notin known => fds = 0

\* At most one X server has display :1, also when killed agents left some
\* behind: prepare_session takes away no lock that it saw a live server own.
\* Left out: an orphan that replaces the stale lock between the agent's look
\* at it and the unlink (`raced').
OneServer == ~raced => \A a, b \in serving : a = b

\* The input paths are never those that an earlier bridge left in input.env
\* (the unlink of prepare_session).  An orphaned bridge that writes its file
\* only now is not told apart from the agent's own.
PathsFresh == paths # "former"

\* A tracer that loaded and an Xorg that exited cleanly are accepted, in
\* whichever order hangup, exit and the end of the three seconds come: "A clean
\* child exit and the trace socket hangup can become visible in either order"
\* (trace_preflight).
PreflightAccepts ==
  [][(At("window") \/ At("final")) /\ test.st = "exited" /\ test.clean /\ loaded
       => test' = test \/ ~up' \/ todo' # CleanupPath]_vars

\* Every operation of the agent ends, so that a STOP is answered however
\* stubborn the processes are.
OperationEnds == (todo # <<>>) ~> (todo = <<>>)
====
