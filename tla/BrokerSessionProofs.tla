------------------------- MODULE BrokerSessionProofs -------------------------
(***************************************************************************)
(* Proofs about BrokerSession, for any number of sessions and probes: a    *)
(* broker without a session owns no lease, and it holds the volume keys    *)
(* and the wake lock exactly while it needs them.                          *)
(***************************************************************************)
EXTENDS BrokerSession, TLAPS

\* The types once more, with names for the sets of places.
Pcs == {"loop", "prepareWait", "prepare", "pause", "create", "start", "startWait", "abort",
        "hold", "stopWait", "release"}
Leases == {"none", "prepared", "paused", "leased"}
Agents == {"gone", "idle", "preparing", "starting", "stopping", "prepareAck", "startAck",
           "idleAck", "orphan"}
Xorgs == {"none", "starting", "verified", "doomed", "dead"}

BrokerTyped ==
  /\ pc \in Pcs /\ active \in BOOLEAN /\ volumes \in BOOLEAN /\ wake \in BOOLEAN
  /\ starts \in 0 .. MaxStarts /\ probing \in BOOLEAN /\ reg \in BOOLEAN
ComposerTyped == link \in BOOLEAN /\ lease \in Leases /\ owner \in BOOLEAN
AgentTyped ==
  /\ agent \in Agents /\ cur \in 0 .. MaxStarts /\ prepared \in BOOLEAN /\ xorg \in Xorgs
  /\ bridge \in BOOLEAN
QueuesTyped == toAgent \in Seq(ToAgent) /\ toBroker \in Seq(ToBroker)
Typed == BrokerTyped /\ ComposerTyped /\ AgentTyped /\ QueuesTyped

\* A session is active only in the loop and on its way out of it.
ActiveInv == active => pc \in {"loop", "stopWait", "release"}

\* The lease belongs to a connection, and outside of a takeover and a session the
\* broker has none.  Start and its wait for the agent come before the takeover.
OwnerInv ==
  /\ owner => link
  /\ pc \in {"loop", "prepareWait"} /\ ~active => ~owner \/ lease = "none"

\* Outside of the loop the keys are held; the wake lock comes and goes with them,
\* except that it survives the broker.
GuardsInv ==
  /\ pc # "loop" => volumes
  /\ pc = "loop" => (volumes <=> active)
  /\ volumes => wake

SessionInv == Typed /\ ActiveInv /\ OwnerInv /\ GuardsInv

-----------------------------------------------------------------------------
(* Types. *)

\* The names are those of TypeOK.
LEMMA TypedIsTypeOK == Typed <=> TypeOK
BY Zenon DEF Typed, BrokerTyped, ComposerTyped, AgentTyped, QueuesTyped, TypeOK, Pcs, Leases, Agents, Xorgs

\* A message that the broker sends has its type.
LEMMA SendTyped ==
  ASSUME QueuesTyped, NEW op \in {"PREPARE", "START", "STOP"}, NEW id \in 0 .. MaxStarts, Send(op, id)
  PROVE  toAgent' \in Seq(ToAgent)
<1>1. [op |-> op, id |-> id] \in ToAgent
  BY DEF ToAgent
<1> QED
  BY <1>1 DEF Send, QueuesTyped

\* So has a reply of the agent.
LEMMA ReplyTyped ==
  ASSUME QueuesTyped, NEW op \in {"READY", "FAILED", "PROGRESS"}, NEW id \in 0 .. MaxStarts,
         NEW ok \in BOOLEAN, Reply(op, id, ok)
  PROVE  toBroker' \in Seq(ToBroker)
<1>1. [op |-> op, id |-> id, ok |-> ok] \in ToBroker
  BY DEF ToBroker
<1> QED
  BY <1>1 DEF Reply, QueuesTyped

\* What is read from a queue has the type of the queue, and so has the rest.
LEMMA QueueTyped ==
  ASSUME QueuesTyped
  PROVE  /\ toAgent # <<>> => Head(toAgent).id \in 0 .. MaxStarts /\ Tail(toAgent) \in Seq(ToAgent)
         /\ toBroker # <<>> =>
              /\ Head(toBroker).id \in 0 .. MaxStarts /\ Head(toBroker).ok \in BOOLEAN
              /\ Tail(toBroker) \in Seq(ToBroker)
<1>1. ASSUME toAgent # <<>> PROVE Head(toAgent) \in ToAgent /\ Tail(toAgent) \in Seq(ToAgent)
  BY <1>1 DEF QueuesTyped
<1>2. ASSUME toBroker # <<>> PROVE Head(toBroker) \in ToBroker /\ Tail(toBroker) \in Seq(ToBroker)
  BY <1>2 DEF QueuesTyped
<1>3. /\ \A m \in ToAgent : m.id \in 0 .. MaxStarts
      /\ \A m \in ToBroker : m.id \in 0 .. MaxStarts /\ m.ok \in BOOLEAN
  BY DEF ToAgent, ToBroker
<1> QED
  BY <1>1, <1>2, <1>3

\* Every step keeps the types of the broker's variables.
LEMMA BrokerStep ==
  ASSUME Typed, [Next]_vars PROVE BrokerTyped'
<1> USE DEF broker, BrokerTyped
<1>1. CASE Start \/ ProbeLease
  <2>1. starts' \in 0 .. MaxStarts
    BY <1>1, SessionAssumption DEF SessionAssumption, Start, ProbeLease, Typed
  <2> QED
    BY <1>1, <2>1, Zenon DEF Start, ProbeLease, AcquireGuards, Typed, Pcs
<1>2. CASE ComposerPrepare \/ ComposerPause \/ ComposerCreate
  BY <1>2, ZenonT(60) DEF ComposerPrepare, ComposerPause, ComposerCreate, Phase, Abort, Typed, Pcs
<1>3. CASE SendLease \/ AbortRelease \/ HoldEnds
  BY <1>3, Zenon DEF SendLease, AbortRelease, HoldEnds, CleanupGuards, Typed, Pcs
<1>4. CASE PrepareWait \/ StartWait \/ StopWait
  BY <1>4, ZenonT(60) DEF PrepareWait, StartWait, StopWait, CleanupGuards, Abort, Typed, Pcs
<1>5. CASE AgentHangup \/ AgentEvent \/ SessionEnds \/ ComposerHangup
  BY <1>5, Zenon DEF AgentHangup, AgentEvent, SessionEnds, ComposerHangup, BeginRelease, Typed, Pcs
<1>6. CASE FinishRelease \/ Register \/ BrokerDies
  BY <1>6, Zenon DEF FinishRelease, Register, BrokerDies, CleanupGuards, Typed, Pcs
<1>7. CASE Agent \/ AnswerProgress \/ Reconnect \/ ComposerEnds \/ XorgExits \/ UNCHANGED vars
  <2>1. UNCHANGED broker
    BY <1>7, Zenon DEF Agent, AnswerProgress, Reconnect, ComposerEnds, XorgExits, vars,
             ReceivePrepare, ReceiveStart, ReceiveStop, ReceiveUnknown, PrepareDone, StartDone,
             StopDone, ForwardRecord, RecordAnswered, RecordRefused, ReadyRefused, ReapXorg,
             ScanoutFails, AgentExits
  <2> QED
    BY <2>1, Zenon DEF Typed
<1> QED
  BY <1>1, <1>2, <1>3, <1>4, <1>5, <1>6, <1>7, Zenon DEF Next, Takeover, BrokerLoop, Ending

\* Those of the composer's.
LEMMA ComposerStep ==
  ASSUME Typed, [Next]_vars PROVE ComposerTyped'
<1> USE DEF composer, ComposerTyped
<1>1. CASE ComposerPrepare \/ ComposerPause \/ ComposerCreate
  BY <1>1, Zenon DEF ComposerPrepare, ComposerPause, ComposerCreate, Phase, Acquire, Typed, Leases
<1>2. CASE AbortRelease \/ FinishRelease
  BY <1>2, Zenon DEF AbortRelease, FinishRelease, ReleaseLease, Typed, Leases
<1>3. CASE Reconnect \/ ComposerEnds \/ ComposerHangup \/ BrokerDies
  BY <1>3, Zenon DEF Reconnect, ComposerEnds, ComposerHangup, BrokerDies, Typed, Leases
<1>4. CASE \/ Start \/ ProbeLease \/ SendLease \/ HoldEnds \/ PrepareWait \/ StartWait \/ AnswerProgress
           \/ AgentHangup \/ AgentEvent \/ StopWait \/ Register \/ SessionEnds \/ XorgExits
           \/ Agent \/ UNCHANGED vars
  <2>1. UNCHANGED composer
    BY <1>4, Zenon DEF Start, ProbeLease, SendLease, HoldEnds, PrepareWait, StartWait, AnswerProgress,
             AgentHangup, AgentEvent, StopWait, Register, SessionEnds, XorgExits, Agent, vars,
             ReceivePrepare, ReceiveStart, ReceiveStop, ReceiveUnknown, PrepareDone, StartDone,
             StopDone, ForwardRecord, RecordAnswered, RecordRefused, ReadyRefused, ReapXorg,
             ScanoutFails, AgentExits
  <2> QED
    BY <2>1, Zenon DEF Typed
<1> QED
  BY <1>1, <1>2, <1>3, <1>4, Zenon DEF Next, Takeover, BrokerLoop, Ending

\* Those of the agent's.
LEMMA AgentStep ==
  ASSUME Typed, [Next]_vars PROVE AgentTyped'
<1> USE DEF child, AgentTyped
<1>1. CASE Register \/ BrokerDies \/ XorgExits
  BY <1>1, Zenon DEF Register, BrokerDies, XorgExits, Typed, Agents, Xorgs
<1>2. CASE ReceivePrepare \/ ReceiveStart \/ ReceiveStop \/ ReceiveUnknown
  <2>1. toAgent # <<>> => Head(toAgent).id \in 0 .. MaxStarts
    BY QueueTyped DEF Typed
  <2> QED
    BY <1>2, <2>1, Zenon DEF ReceivePrepare, ReceiveStart, ReceiveStop, ReceiveUnknown, Cleanup, Typed,
                      Agents, Xorgs
<1>3. CASE PrepareDone \/ StartDone \/ StopDone
  BY <1>3, Zenon DEF PrepareDone, StartDone, StopDone, Cleanup, Typed, Agents, Xorgs
<1>4. CASE ForwardRecord \/ RecordAnswered \/ RecordRefused \/ ReadyRefused
  BY <1>4, Zenon DEF ForwardRecord, RecordAnswered, RecordRefused, ReadyRefused, Cleanup, Typed, Agents, Xorgs
<1>5. CASE ReapXorg \/ ScanoutFails \/ AgentExits
  <2>1. 0 \in 0 .. MaxStarts
    BY SessionAssumption DEF SessionAssumption
  <2> QED
    BY <1>5, <2>1, Zenon DEF ReapXorg, ScanoutFails, AgentExits, Cleanup, Typed, Agents, Xorgs
<1>6. CASE Takeover \/ AnswerProgress \/ AgentHangup \/ AgentEvent \/ StopWait \/ FinishRelease
           \/ Reconnect \/ SessionEnds \/ ComposerHangup \/ ComposerEnds \/ UNCHANGED vars
  <2>1. UNCHANGED <<agent, child>>
    BY <1>6, Zenon DEF Takeover, AnswerProgress, AgentHangup, AgentEvent, StopWait, FinishRelease,
             Reconnect, SessionEnds, ComposerHangup, ComposerEnds, vars, Start, ProbeLease,
             ComposerPrepare, ComposerPause, ComposerCreate, Phase, SendLease, AbortRelease, HoldEnds,
             PrepareWait, StartWait
  <2> QED
    BY <2>1, Zenon DEF Typed
<1> QED
  BY <1>1, <1>2, <1>3, <1>4, <1>5, <1>6, Zenon DEF Next, BrokerLoop, Ending, Agent

\* And those of the two queues.
LEMMA QueuesStep ==
  ASSUME Typed, [Next]_vars PROVE QueuesTyped'
<1> USE DEF queues
<1>1. QueuesTyped /\ starts \in 0 .. MaxStarts /\ cur \in 0 .. MaxStarts /\ 0 \in 0 .. MaxStarts
  BY SessionAssumption DEF SessionAssumption, Typed, BrokerTyped, AgentTyped
<1>2. /\ toAgent # <<>> => Head(toAgent).id \in 0 .. MaxStarts /\ Tail(toAgent) \in Seq(ToAgent)
      /\ toBroker # <<>> => Tail(toBroker) \in Seq(ToBroker)
  BY <1>1, QueueTyped
<1>3. ASSUME NEW op \in {"STOP", "START"}, Send(op, starts) PROVE toAgent' \in Seq(ToAgent)
  BY <1>1, <1>3, SendTyped, Zenon
<1>4. ASSUME Abort PROVE toAgent' \in Seq(ToAgent)
  BY <1>1, <1>3, <1>4, Zenon DEF Abort, QueuesTyped
<1>5. CASE Start
  <2>1. starts' \in 0 .. MaxStarts
    BY <1>1, <1>5, SessionAssumption DEF SessionAssumption, Start
  <2>2. toAgent' \in Seq(ToAgent)
    BY <1>1, <1>5, <2>1, SendTyped, Zenon DEF Start
  <2> QED
    BY <1>1, <1>5, <2>2, Zenon DEF Start, QueuesTyped
<1>6. CASE ComposerPrepare \/ ComposerPause \/ ComposerCreate \/ SendLease
  BY <1>1, <1>3, <1>4, <1>6, Zenon
     DEF ComposerPrepare, ComposerPause, ComposerCreate, Phase, SendLease, QueuesTyped
<1>7. CASE PrepareWait \/ StartWait \/ StopWait
  BY <1>1, <1>2, <1>3, <1>4, <1>7, Zenon DEF PrepareWait, StartWait, StopWait, WaitDone, QueuesTyped
<1>8. CASE AnswerProgress
  <2>1. ASSUME toBroker # <<>> PROVE [op |-> "ACK", id |-> Head(toBroker).id] \in ToAgent
    BY <1>1, <2>1, QueueTyped DEF ToAgent
  <2> QED
    BY <1>1, <1>2, <1>8, <2>1 DEF AnswerProgress, QueuesTyped
<1>9. CASE AgentHangup \/ Register \/ BrokerDies \/ AgentExits
  <2>1. toAgent' = <<>> /\ toBroker' = <<>>
    BY <1>9, Zenon DEF AgentHangup, Register, BrokerDies, AgentExits
  <2> QED
    BY <2>1 DEF QueuesTyped
<1>10. CASE AgentEvent \/ SessionEnds \/ ComposerHangup
  BY <1>1, <1>2, <1>3, <1>10, Zenon DEF AgentEvent, SessionEnds, ComposerHangup, BeginRelease, QueuesTyped
<1>11. ASSUME NEW op \in {"READY", "FAILED", "PROGRESS"}, NEW id \in 0 .. MaxStarts,
              NEW ok \in BOOLEAN, Reply(op, id, ok)
       PROVE  toBroker' \in Seq(ToBroker)
  BY <1>1, <1>11, ReplyTyped, Zenon
<1>12. CASE ReceivePrepare \/ ReceiveStart \/ ReceiveStop \/ ReceiveUnknown
  BY <1>1, <1>2, <1>11, <1>12, Zenon
     DEF ReceivePrepare, ReceiveStart, ReceiveStop, ReceiveUnknown, QueuesTyped
<1>13. CASE PrepareDone \/ StartDone \/ StopDone \/ ForwardRecord
  BY <1>1, <1>11, <1>13, Zenon DEF PrepareDone, StartDone, StopDone, ForwardRecord, QueuesTyped
<1>14. CASE RecordAnswered \/ RecordRefused \/ ReadyRefused \/ ReapXorg \/ ScanoutFails
  BY <1>1, <1>2, <1>11, <1>14, Zenon DEF RecordAnswered, RecordRefused, ReadyRefused, ReapXorg,
                                             ScanoutFails, QueuesTyped
<1>15. CASE \/ ProbeLease \/ AbortRelease \/ HoldEnds \/ FinishRelease \/ Reconnect \/ ComposerEnds
            \/ XorgExits \/ UNCHANGED vars
  BY <1>1, <1>15, ZenonT(60) DEF ProbeLease, AbortRelease, HoldEnds, FinishRelease, Reconnect, ComposerEnds,
                   XorgExits, vars, QueuesTyped
<1> QED
  BY <1>5, <1>6, <1>7, <1>8, <1>9, <1>10, <1>12, <1>13, <1>14, <1>15, Zenon
     DEF Next, Takeover, BrokerLoop, Ending, Agent

-----------------------------------------------------------------------------
(* The lease and the guards. *)

\* Every step keeps the rest of the invariant.
LEMMA SessionStep ==
  ASSUME SessionInv, [Next]_vars PROVE ActiveInv' /\ OwnerInv' /\ GuardsInv'
<1> USE DEF SessionInv, ActiveInv, OwnerInv, GuardsInv, broker, composer, child, queues
<1>1. CASE Start
  BY <1>1 DEF Start, AcquireGuards
<1>2. CASE ProbeLease
  BY <1>2 DEF ProbeLease, AcquireGuards
<1>3. ASSUME NEW at \in {"prepare", "pause", "create"}, NEW from, NEW to,
             NEW next \in {"pause", "create", "hold", "start"}, Phase(at, from, to, next)
      PROVE  ActiveInv' /\ OwnerInv' /\ GuardsInv'
  BY <1>3 DEF Phase, Acquire, Abort
<1>4. CASE ComposerPrepare \/ ComposerPause \/ ComposerCreate
  BY <1>3, <1>4 DEF ComposerPrepare, ComposerPause, ComposerCreate
<1>5. CASE SendLease \/ HoldEnds
  BY <1>5 DEF SendLease, HoldEnds
<1>6. CASE AbortRelease
  <2>1. ~active /\ ~volumes' /\ ~owner' /\ active' = active /\ pc' = "loop"
    BY <1>6 DEF AbortRelease, ReleaseLease, CleanupGuards
  <2> QED
    BY <2>1, Zenon
<1>7. CASE PrepareWait
  <2>1. pc = "prepareWait" /\ ~active
    BY <1>7 DEF PrepareWait
  <2>2. /\ UNCHANGED <<active, link, lease, owner>>
        /\ \/ pc' = "prepare" /\ UNCHANGED <<volumes, wake>>
           \/ pc' = "loop" /\ ~volumes'
    BY <1>7, Zenon DEF PrepareWait, CleanupGuards
  <2> QED
    BY <2>1, <2>2, Zenon
<1>8. CASE StartWait \/ StopWait
  <2>1. /\ UNCHANGED <<volumes, wake, link, lease, owner>> /\ pc \in {"startWait", "stopWait"}
        /\ \/ pc' = "loop" /\ active'
           \/ pc' = "abort" /\ pc = "startWait" /\ active' = active
           \/ pc' = "release" /\ active' = active
    BY <1>8, Zenon DEF StartWait, StopWait, Abort
  <2>2. volumes /\ wake /\ (pc = "startWait" => ~active)
    BY <2>1, Zenon
  <2>3. CASE pc' = "loop" /\ active'
    BY <2>1, <2>2, <2>3, Zenon
  <2>4. CASE pc' \in {"abort", "release"} /\ active' = active /\ (pc' = "abort" => ~active)
    BY <2>1, <2>2, <2>4
  <2> QED
    BY <2>1, <2>2, <2>3, <2>4, Zenon
<1>9. CASE AgentHangup \/ Register \/ Reconnect \/ BrokerDies
  <2>1. CASE BrokerDies
    BY <2>1, Zenon DEF BrokerDies
  <2>2. CASE AgentHangup
    <3>1. /\ pc = "loop" /\ UNCHANGED <<active, volumes, wake, link, lease, owner>>
          /\ (active /\ pc' = "stopWait") \/ (~active /\ pc' = "loop")
      BY <2>2, Zenon DEF AgentHangup
    <3> QED
      BY <3>1, Zenon
  <2>3. CASE Register \/ Reconnect
    <3>1. UNCHANGED <<pc, active, volumes, wake, lease, owner>> /\ (link => link')
      BY <2>3, Zenon DEF Register, Reconnect
    <3> QED
      BY <3>1
  <2> QED
    BY <1>9, <2>1, <2>2, <2>3
<1>10. CASE AgentEvent \/ SessionEnds \/ ComposerHangup
  BY <1>10 DEF AgentEvent, SessionEnds, ComposerHangup, BeginRelease
<1>11. CASE FinishRelease
  BY <1>11 DEF FinishRelease, ReleaseLease, CleanupGuards
<1>12. CASE ComposerEnds
  BY <1>12 DEF ComposerEnds
<1>13. CASE Agent \/ AnswerProgress \/ XorgExits \/ UNCHANGED vars
  <2>1. UNCHANGED <<pc, active, volumes, wake, link, lease, owner>>
    BY <1>13, Zenon DEF Agent, AnswerProgress, XorgExits, vars, ReceivePrepare, ReceiveStart, ReceiveStop,
                 ReceiveUnknown, PrepareDone, StartDone, StopDone, ForwardRecord, RecordAnswered,
                 RecordRefused, ReadyRefused, ReapXorg,
             ScanoutFails, AgentExits
  <2> QED
    BY <2>1
<1> QED
  BY <1>1, <1>2, <1>4, <1>5, <1>6, <1>7, <1>8, <1>9, <1>10, <1>11, <1>12, <1>13, ZenonT(60)
     DEF Next, Takeover, BrokerLoop, Ending

\* The invariant holds in every reachable state.
THEOREM SessionInvariance == Spec => []SessionInv
<1>1. Init => SessionInv
  <2>1. Init => Typed
    <3>1. 0 \in 0 .. MaxStarts
      BY SessionAssumption DEF SessionAssumption
    <3>2. Init => BrokerTyped /\ ComposerTyped /\ AgentTyped
      BY <3>1, Zenon DEF Init, BrokerTyped, ComposerTyped, AgentTyped, Pcs, Leases, Agents, Xorgs
    <3>3. Init => QueuesTyped
      BY DEF Init, QueuesTyped
    <3> QED
      BY <3>2, <3>3 DEF Typed
  <2>2. Init => ActiveInv /\ OwnerInv /\ GuardsInv
    BY Zenon DEF Init, ActiveInv, OwnerInv, GuardsInv
  <2> QED
    BY <2>1, <2>2 DEF SessionInv
<1>2. SessionInv /\ [Next]_vars => SessionInv'
  BY BrokerStep, ComposerStep, AgentStep, QueuesStep, SessionStep DEF SessionInv, Typed
<1> QED
  BY <1>1, <1>2, PTL DEF Spec

\* The broker, the agent and their two queues keep their types.
THEOREM SessionTypes == Spec => []TypeOK
BY SessionInvariance, TypedIsTypeOK, PTL DEF SessionInv

\* A broker in its loop without a session owns no lease: every way out of Start,
\* ProbeLease and Release has asked for the release or lost the connection.
THEOREM NoStrayLease == Spec => []NoLeaseWithoutSession
<1>1. SessionInv => NoLeaseWithoutSession
  BY DEF SessionInv, OwnerInv, NoLeaseWithoutSession
<1> QED
  BY <1>1, SessionInvariance, PTL

\* The volume keys are grabbed exactly while a session or a takeover needs them,
\* and the phone cannot suspend meanwhile.
THEOREM GuardsAreExact == Spec => []GuardsMatchSession
<1>1. SessionInv => GuardsMatchSession
  BY DEF SessionInv, GuardsInv, GuardsMatchSession
<1> QED
  BY <1>1, SessionInvariance, PTL

=============================================================================
