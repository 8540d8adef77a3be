--------------------------- MODULE BrokerSession ---------------------------
(***************************************************************************)
(* One takeover session across the three processes: Start, ProbeLease and  *)
(* Release of the broker, the command loop of the chroot agent, and the    *)
(* lease as the composer keeps it (ComposerLease has the detail).          *)
(*                                                                         *)
(* The broker and the agent each run one thread and talk over a stream     *)
(* socket, a queue in each direction.  Every message carries the id of the *)
(* request it belongs to; WaitAgent looks only at the opcode.  A wait of   *)
(* the broker may end at any moment: its own timeout, the session's        *)
(* deadline, the volume keys, a hotplug event or a hangup.                 *)
(***************************************************************************)
EXTENDS Naturals, Sequences

CONSTANT
  MaxStarts   \* bound on the sessions and probes that clients ask for

ASSUME SessionAssumption == MaxStarts \in Nat \ {0}

VARIABLES
  pc,         \* where the broker is
  active,     \* active_
  volumes,    \* volumes_ holds the two key devices
  wake,       \* the kernel holds the wake lock "hdmi-los"
  starts,     \* requests so far; the id of the present one
  probing,    \* probing_
  reg,        \* agent_fd_ >= 0
  link,       \* composer_fd_ >= 0
  lease,      \* the composer's takeover: none, prepared, paused, leased
  owner,      \* the connection that took it is the broker's present one
  agent,      \* where the agent is ("gone" when it does not run)
  cur,        \* the id of the request the agent works on
  prepared,   \* g_probe_mode # NONE
  xorg,       \* g_xorg: none, starting, verified, doomed (one of its records stays
              \* unanswered), or dead and not yet reaped
  bridge,     \* g_bridge > 1
  toAgent,    \* messages from the broker to the agent
  toBroker    \* messages from the agent to the broker

broker == <<pc, active, volumes, wake, starts, probing, reg>>
composer == <<link, lease, owner>>
child == <<cur, prepared, xorg, bridge>>
queues == <<toAgent, toBroker>>
vars == <<broker, composer, agent, child, queues>>

Init ==
  /\ pc = "loop" /\ active = FALSE /\ volumes = FALSE /\ wake = FALSE
  /\ starts = 0 /\ probing = FALSE /\ reg = FALSE
  /\ link = FALSE /\ lease = "none" /\ owner = FALSE
  /\ agent = "gone" /\ cur = 0 /\ prepared = FALSE /\ xorg = "none" /\ bridge = FALSE
  /\ toAgent = <<>> /\ toBroker = <<>>

-----------------------------------------------------------------------------
(* The composer. *)

\* An ACQUIRE phase, from the state it needs to the state it reaches.  The
\* composer rolls back a transition whose phase fails and refuses one that
\* another lease blocks.  A response can be lost with the connection, and a
\* pending disconnect makes the broker take a success for a failure.
Acquire(from, to, ok) ==
  \/ lease = from /\ link' = TRUE /\ lease' = to /\ owner' = TRUE /\ ok \in BOOLEAN
  \/ /\ link' = TRUE /\ ok = FALSE /\ UNCHANGED owner
     /\ lease' = IF from = "none" THEN lease ELSE "none"
  \/ /\ link' = FALSE /\ owner' = FALSE /\ ok = FALSE
     /\ lease' \in {lease} \cup (IF lease = from THEN {to} ELSE {})

\* RELEASE, whose result the broker does not need.
ReleaseLease ==
  \/ link' = TRUE /\ lease' = "none" /\ owner' = FALSE
  \/ link' = FALSE /\ owner' = FALSE /\ UNCHANGED lease

\* The status request of AcceptClient and AdvanceArmed reopens a connection.
Reconnect ==
  /\ pc = "loop" /\ ~link /\ link' = TRUE
  /\ UNCHANGED <<broker, lease, owner, agent, child, queues>>

\* The composer ends a takeover by itself: its watchdog, the backstop after an
\* unplug, the secure display, or the broker's connection that is gone.
ComposerEnds ==
  /\ lease # "none" /\ lease' = "none" /\ owner' = FALSE
  /\ UNCHANGED <<broker, link, agent, child, queues>>

-----------------------------------------------------------------------------
(* The broker: Start. *)

\* A message to the agent, lost when the agent is gone.
Send(op, id) ==
  toAgent' = IF reg /\ agent # "gone" THEN Append(toAgent, [op |-> op, id |-> id]) ELSE toAgent

CleanupGuardsKeepsKeys == wake' = FALSE /\ UNCHANGED volumes

CleanupGuards == volumes' = FALSE /\ wake' = FALSE

\* VolumeGuard::Acquire and the wake lock; when either fails nothing is kept.
AcquireGuards == volumes' = TRUE /\ wake' = TRUE

\* Start up to the wait for the agent's preparation.  The volume keys and the
\* wake lock are taken first.
Start ==
  /\ pc = "loop" /\ ~active /\ reg /\ starts < MaxStarts
  /\ starts' = starts + 1
  /\ AcquireGuards
  /\ Send("PREPARE", starts') /\ pc' = "prepareWait"
  /\ UNCHANGED <<active, probing, reg, composer, agent, child, toBroker>>

\* ProbeLease goes to the composer at once.
ProbeLease ==
  /\ pc = "loop" /\ ~active /\ starts < MaxStarts
  /\ starts' = starts + 1
  /\ AcquireGuards
  /\ probing' = TRUE /\ pc' = "prepare"
  /\ UNCHANGED <<active, reg, composer, agent, child, queues>>

\* A failed takeover stops the agent, without waiting for it, and then has the
\* composer released; a probe has no agent to stop.
AbortForgetsAgent == pc' = "abort" /\ UNCHANGED toAgent

Abort ==
  /\ pc' = "abort"
  /\ IF probing THEN UNCHANGED toAgent ELSE Send("STOP", starts)

\* The three phases, each a request of its own.
Phase(at, from, to, next) ==
  /\ pc = at
  /\ \E ok \in BOOLEAN :
       /\ Acquire(from, to, ok)
       /\ IF ok THEN pc' = next /\ UNCHANGED toAgent ELSE Abort
  /\ UNCHANGED <<active, volumes, wake, starts, probing, reg, agent, child, toBroker>>

ComposerPrepare == Phase("prepare", "none", "prepared", "pause")
ComposerPause == Phase("pause", "prepared", "paused", "create")
ComposerCreate == Phase("create", "paused", "leased", IF probing THEN "hold" ELSE "start")

\* The lease fd goes to the agent.  If it cannot be delivered, only the
\* composer is told.
SendLease ==
  /\ pc = "start"
  /\ \/ agent # "gone" /\ Send("START", starts) /\ pc' = "startWait"
     \/ agent = "gone" /\ pc' = "abort" /\ UNCHANGED toAgent
  /\ UNCHANGED <<active, volumes, wake, starts, probing, reg, composer, agent, child, toBroker>>

AbortReleaseForgotten ==
  /\ pc = "abort" /\ pc' = "loop"
  /\ CleanupGuards /\ probing' = FALSE
  /\ UNCHANGED <<active, starts, reg, composer, agent, child, queues>>

\* The end of a failed Start and of every probe (FinishLeaseProbe).
AbortRelease ==
  /\ pc = "abort" /\ pc' = "loop"
  /\ ReleaseLease
  /\ CleanupGuards /\ probing' = FALSE
  /\ UNCHANGED <<active, starts, reg, agent, child, queues>>

\* The three seconds of a lease-only probe pass, or the volume keys end them.
HoldEnds ==
  /\ pc = "hold" /\ pc' = "abort"
  /\ UNCHANGED <<active, volumes, wake, starts, probing, reg, composer, agent, child, queues>>

-----------------------------------------------------------------------------
(* The broker: WaitAgent, which every wait shares. *)

Waiting == pc \in {"prepareWait", "startWait", "stopWait"}

\* A progress record is logged and acknowledged, in a wait or in the loop.
AnswerProgress ==
  /\ Waiting \/ pc = "loop"
  /\ reg /\ toBroker # <<>> /\ Head(toBroker).op = "PROGRESS"
  /\ toBroker' = Tail(toBroker)
  /\ toAgent' = Append(toAgent, [op |-> "ACK", id |-> Head(toBroker).id])
  /\ UNCHANGED <<broker, composer, agent, child>>

\* The wait is over, by an answer or by giving up.
WaitDone(ok) ==
  \/ /\ reg /\ toBroker # <<>> /\ Head(toBroker).op # "PROGRESS"
     /\ toBroker' = Tail(toBroker)
     /\ ok = (Head(toBroker).op = "READY" /\ Head(toBroker).ok)
  \/ ok = FALSE /\ UNCHANGED toBroker

PrepareWait ==
  /\ pc = "prepareWait"
  /\ \E ok \in BOOLEAN :
       /\ WaitDone(ok)
       /\ IF ok
          THEN pc' = "prepare" /\ UNCHANGED <<toAgent, volumes, wake>>
          ELSE pc' = "loop" /\ Send("STOP", starts) /\ CleanupGuards
  /\ UNCHANGED <<active, starts, probing, reg, composer, agent, child>>

StartWait ==
  /\ pc = "startWait"
  /\ \E ok \in BOOLEAN :
       /\ WaitDone(ok)
       /\ IF ok
          THEN pc' = "loop" /\ active' = TRUE /\ UNCHANGED toAgent
          ELSE Abort /\ UNCHANGED active
  /\ UNCHANGED <<volumes, wake, starts, probing, reg, composer, agent, child>>

-----------------------------------------------------------------------------
(* The broker: Release and the loop. *)

\* Release sends STOP when it has an agent, waits for it, then tells the
\* composer unless that connection is what was lost.
BeginRelease ==
  /\ pc' = "stopWait"
  /\ Send("STOP", starts)

\* The deadline, the volume keys, a failed heartbeat, an unplug, a client.
SessionEnds ==
  /\ pc = "loop" /\ active /\ BeginRelease
  /\ UNCHANGED <<active, volumes, wake, starts, probing, reg, composer, agent, child, toBroker>>

ComposerHangup ==
  /\ pc = "loop" /\ link /\ link' = FALSE /\ owner' = FALSE
  /\ IF active THEN BeginRelease ELSE UNCHANGED <<pc, toAgent>>
  /\ UNCHANGED <<active, volumes, wake, starts, probing, reg, lease, agent, child, toBroker>>

\* The agent's socket hangs up.
AgentHangup ==
  /\ pc = "loop" /\ reg /\ agent = "gone"
  /\ reg' = FALSE /\ toAgent' = <<>> /\ toBroker' = <<>>
  /\ pc' = IF active THEN "stopWait" ELSE pc
  /\ UNCHANGED <<active, volumes, wake, starts, probing, composer, agent, child>>

\* The loop reads a message that nobody waits for: a failure ends the session.
AgentEvent ==
  /\ pc = "loop" /\ reg /\ agent # "gone" /\ toBroker # <<>> /\ Head(toBroker).op # "PROGRESS"
  /\ toBroker' = Tail(toBroker)
  /\ IF active /\ Head(toBroker).op = "FAILED"
     THEN BeginRelease
     ELSE UNCHANGED <<pc, toAgent>>
  /\ UNCHANGED <<active, volumes, wake, starts, probing, reg, composer, agent, child>>

StopWait ==
  /\ pc = "stopWait"
  /\ \E ok \in BOOLEAN : WaitDone(ok)
  /\ pc' = "release"
  /\ UNCHANGED <<active, volumes, wake, starts, probing, reg, composer, agent, child, toAgent>>

FinishRelease ==
  /\ pc = "release" /\ pc' = "loop"
  /\ IF link THEN ReleaseLease ELSE UNCHANGED composer
  /\ active' = FALSE /\ CleanupGuards
  /\ UNCHANGED <<starts, probing, reg, agent, child, queues>>

\* AcceptClient registers an agent when it has none.
Register ==
  /\ pc = "loop" /\ ~active /\ ~reg /\ agent = "gone"
  /\ reg' = TRUE /\ agent' = "idle"
  /\ toAgent' = <<>> /\ toBroker' = <<>>
  /\ UNCHANGED <<pc, active, volumes, wake, starts, probing, composer, child>>

\* The broker dies and is started again.  The kernel drops its sockets and its
\* grabs of the volume keys; the wake lock belongs to no process.
BrokerDies ==
  /\ pc' = "loop" /\ active' = FALSE /\ volumes' = FALSE /\ probing' = FALSE
  /\ reg' = FALSE /\ link' = FALSE /\ owner' = FALSE
  /\ agent' = IF agent = "gone" THEN "gone" ELSE "orphan"
  /\ toAgent' = <<>> /\ toBroker' = <<>>
  /\ UNCHANGED <<wake, starts, lease, child>>

-----------------------------------------------------------------------------
(* The agent. *)

ReplyWithoutStatus(op, id, ok) ==
  toBroker' = IF reg THEN Append(toBroker, [op |-> op, id |-> id]) ELSE toBroker

\* response_for and write_full, lost when the broker is gone.
Reply(op, id, ok) ==
  toBroker' = IF reg THEN Append(toBroker, [op |-> op, id |-> id, ok |-> ok]) ELSE toBroker

\* cleanup_session: the desktop, Xorg and the input bridge end, in that order,
\* each after up to two seconds of grace.
Cleanup == xorg' = "none" /\ bridge' = FALSE

\* run_agent reads a request.  A START without a matching PREPARE fails.
ReceivePrepare ==
  /\ agent = "idle" /\ toAgent # <<>> /\ Head(toAgent).op = "PREPARE"
  /\ agent' = "preparing" /\ cur' = Head(toAgent).id /\ toAgent' = Tail(toAgent)
  /\ UNCHANGED <<broker, composer, prepared, xorg, bridge, toBroker>>

ReceiveStart ==
  /\ agent = "idle" /\ toAgent # <<>> /\ Head(toAgent).op = "START"
  /\ cur' = Head(toAgent).id /\ toAgent' = Tail(toAgent)
  /\ IF prepared
     THEN agent' = "starting" /\ xorg' = "starting" /\ UNCHANGED <<bridge, toBroker>>
     ELSE Cleanup /\ Reply("FAILED", Head(toAgent).id, FALSE) /\ UNCHANGED agent
  /\ UNCHANGED <<broker, composer, prepared>>

ReceiveStop ==
  /\ agent = "idle" /\ toAgent # <<>> /\ Head(toAgent).op = "STOP"
  /\ agent' = "stopping" /\ cur' = Head(toAgent).id /\ toAgent' = Tail(toAgent)
  /\ UNCHANGED <<broker, composer, prepared, xorg, bridge, toBroker>>

\* An acknowledgement that nobody waits for is an unknown request.
ReceiveUnknown ==
  /\ agent = "idle" /\ toAgent # <<>> /\ Head(toAgent).op = "ACK"
  /\ toAgent' = Tail(toAgent) /\ Reply("FAILED", Head(toAgent).id, FALSE)
  /\ UNCHANGED <<broker, composer, agent, child>>

\* prepare_session ends what an earlier session left, then starts the bridge.
PrepareDone ==
  /\ agent = "preparing" /\ agent' = "idle"
  /\ \E ok \in BOOLEAN :
       /\ xorg' = "none" /\ bridge' = ok /\ prepared' = ok
       /\ Reply("READY", cur, ok)
  /\ UNCHANGED <<broker, composer, cur, toAgent>>

\* start_xorg: Xorg came up and its scanout was verified, or not in time.
StartDone ==
  /\ agent = "starting" /\ agent' = "idle"
  /\ \/ /\ xorg \in {"starting", "doomed"} /\ UNCHANGED bridge
        /\ xorg' = IF xorg = "starting" THEN "verified" ELSE xorg
        /\ Reply("READY", cur, TRUE)
     \/ Cleanup /\ Reply("FAILED", cur, FALSE)
  /\ UNCHANGED <<broker, composer, cur, prepared, toAgent>>

StopDone ==
  /\ agent = "stopping" /\ agent' = "idle"
  /\ Cleanup /\ prepared' = FALSE
  /\ Reply("READY", cur, TRUE)
  /\ UNCHANGED <<broker, composer, cur, toAgent>>

\* forward_trace_record: a DRM record of Xorg is sent on, and the next message
\* from the broker must be its acknowledgement.
ForwardRecord ==
  /\ \/ agent = "preparing" /\ agent' = "prepareAck"
     \/ agent = "starting" /\ xorg \in {"starting", "doomed"} /\ agent' = "startAck"
     \/ agent = "idle" /\ xorg \in {"verified", "doomed"} /\ agent' = "idleAck"
  /\ Reply("PROGRESS", cur, TRUE)
  /\ UNCHANGED <<broker, composer, child, toAgent>>

\* The acknowledgement lets Xorg go on.
RecordAnswered ==
  /\ toAgent # <<>> /\ Head(toAgent).op = "ACK" /\ toAgent' = Tail(toAgent)
  /\ \/ agent = "prepareAck" /\ agent' = "preparing"
     \/ agent = "startAck" /\ agent' = "starting"
     \/ agent = "idleAck" /\ agent' = "idle"
  /\ UNCHANGED <<broker, composer, child, toBroker>>

\* Any other message is consumed in its place, and what was going on fails.
RecordRefused ==
  /\ toAgent # <<>> /\ Head(toAgent).op # "ACK" /\ toAgent' = Tail(toAgent)
  /\ \/ agent = "prepareAck" /\ Reply("READY", cur, FALSE) /\ prepared' = FALSE
     \/ agent = "startAck" /\ Reply("FAILED", cur, FALSE) /\ UNCHANGED prepared
     \/ agent = "idleAck" /\ Reply("FAILED", 0, FALSE) /\ UNCHANGED prepared
  /\ agent' = "idle" /\ Cleanup
  /\ UNCHANGED <<broker, composer, cur>>

\* In the run_wait of xorg_ready what fails is only this look at Xorg: start_xorg
\* goes on, and the thread of Xorg that waits for the acknowledgement will end it.
ReadyRefused ==
  /\ toAgent # <<>> /\ Head(toAgent).op # "ACK" /\ toAgent' = Tail(toAgent)
  /\ agent = "startAck" /\ agent' = "starting"
  /\ xorg' = IF xorg = "starting" THEN "doomed" ELSE xorg
  /\ UNCHANGED <<broker, composer, cur, prepared, bridge, toBroker>>

\* Xorg exits by itself, and run_agent finds it with waitpid.
XorgExits ==
  /\ xorg \in {"starting", "verified", "doomed"} /\ xorg' = "dead"
  /\ UNCHANGED <<broker, composer, agent, cur, prepared, bridge, queues>>

ReapXorg ==
  /\ agent = "idle" /\ xorg = "dead"
  /\ Cleanup /\ Reply("FAILED", 0, FALSE)
  /\ UNCHANGED <<broker, composer, agent, cur, prepared, toAgent>>

\* A later modeset of Xorg fails.
ScanoutFails ==
  /\ agent = "idle" /\ xorg \in {"verified", "doomed"}
  /\ Cleanup /\ Reply("FAILED", 0, FALSE)
  /\ UNCHANGED <<broker, composer, agent, cur, prepared, toAgent>>

\* SIGTERM, or the broker's socket is gone: the loop ends with a cleanup.
AgentExits ==
  /\ agent \in {"idle", "orphan"} /\ agent' = "gone"
  /\ Cleanup /\ prepared' = FALSE /\ cur' = 0
  /\ toAgent' = <<>> /\ toBroker' = <<>>
  /\ UNCHANGED <<broker, composer>>

-----------------------------------------------------------------------------
Takeover == \/ Start \/ ProbeLease \/ ComposerPrepare \/ ComposerPause \/ ComposerCreate
            \/ SendLease \/ AbortRelease \/ HoldEnds \/ PrepareWait \/ StartWait
BrokerLoop == \/ AnswerProgress \/ AgentHangup \/ AgentEvent \/ StopWait \/ FinishRelease
              \/ Register \/ Reconnect
Ending == SessionEnds \/ ComposerHangup \/ ComposerEnds \/ BrokerDies \/ XorgExits
Agent == \/ ReceivePrepare \/ ReceiveStart \/ ReceiveStop \/ ReceiveUnknown \/ PrepareDone
         \/ StartDone \/ StopDone \/ ForwardRecord \/ RecordAnswered \/ RecordRefused
         \/ ReadyRefused \/ ReapXorg \/ ScanoutFails \/ AgentExits

Next == Takeover \/ BrokerLoop \/ Ending \/ Agent

Spec == Init /\ [][Next]_vars

\* The two loops run.  Nobody is obliged to start a session, to end one or to
\* exit, and Xorg need not emit a record.  A thread of Xorg waits two seconds for
\* an acknowledgement, then ends the process.
FairSpec ==
  /\ Spec
  /\ WF_vars(ComposerPrepare \/ ComposerPause \/ ComposerCreate \/ SendLease \/ AbortRelease
               \/ HoldEnds \/ PrepareWait \/ StartWait \/ StopWait \/ FinishRelease)
  /\ WF_vars(AnswerProgress \/ AgentEvent \/ AgentHangup)
  /\ WF_vars(ReceivePrepare \/ ReceiveStart \/ ReceiveStop \/ ReceiveUnknown \/ ReapXorg
               \/ RecordAnswered \/ RecordRefused \/ ReadyRefused)
  /\ SF_vars(PrepareDone) /\ SF_vars(StartDone) /\ SF_vars(StopDone)
  /\ WF_vars(agent = "orphan" /\ AgentExits)
  /\ WF_vars(xorg = "doomed" /\ XorgExits)

-----------------------------------------------------------------------------
ToAgent == [op : {"PREPARE", "START", "STOP", "ACK"}, id : 0 .. MaxStarts]
ToBroker == [op : {"READY", "FAILED", "PROGRESS"}, id : 0 .. MaxStarts, ok : BOOLEAN]

TypeOK ==
  /\ pc \in {"loop", "prepareWait", "prepare", "pause", "create", "start", "startWait", "abort",
             "hold", "stopWait", "release"}
  /\ active \in BOOLEAN /\ volumes \in BOOLEAN /\ wake \in BOOLEAN /\ probing \in BOOLEAN
  /\ starts \in 0 .. MaxStarts /\ reg \in BOOLEAN /\ link \in BOOLEAN /\ owner \in BOOLEAN
  /\ lease \in {"none", "prepared", "paused", "leased"}
  /\ agent \in {"gone", "idle", "preparing", "starting", "stopping", "prepareAck", "startAck",
                "idleAck", "orphan"}
  /\ cur \in 0 .. MaxStarts /\ prepared \in BOOLEAN /\ bridge \in BOOLEAN
  /\ xorg \in {"none", "starting", "verified", "doomed", "dead"}
  /\ toAgent \in Seq(ToAgent) /\ toBroker \in Seq(ToBroker)

\* A broker in its loop without a session owns no lease at the composer: each
\* failure path of Start, ProbeLease and Release asked for the release, or lost
\* the connection, and then the composer lets go by itself.
NoLeaseWithoutSession == pc = "loop" /\ ~active => ~owner \/ lease = "none"

\* The volume keys are grabbed exactly while a session or a takeover in
\* progress needs them, and the phone cannot suspend under it.
GuardsMatchSession ==
  /\ pc = "loop" => (volumes <=> active)
  /\ volumes => wake

\* When the broker has no session, Xorg and the input bridge end, whatever the
\* agent was doing when it was told to stop.
XorgStops ==
  (pc = "loop" /\ ~active) ~> (active \/ (xorg = "none" /\ ~bridge))

\* The composer is asked to resume Android only after Xorg stopped: "Losing
\* either volume device, holding both keys for three seconds or losing either
\* control connection stops Xorg before asking composer to resume Android"
\* (docs/ARCHITECTURE.md:181-184).
StopBeforeRelease ==
  [][pc = "release" /\ link /\ lease = "leased" /\ lease' = "none" /\ pc' = "loop"
       => xorg \in {"none", "dead"}]_vars
=============================================================================
