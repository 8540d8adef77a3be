# Formal model of the HDMI hand-over

TLA+ modules for LineageOS-Linux-HDMI, which lends the external display of an
Android phone to an Xorg server in a chroot and takes it back. The modules are
translated from the code; TLC checks them on small instances, and TLAPS proves
every safety property that a passing run checks, for every instance.

Line references such as `0007:133` mean line 133 of the patch with that number
in `src/patches/qcom-display/v1/`. The composer's code exists in the repository
only as that patch series. `PROJECT.json` maps every definition to its lines,
and lists the runs, the mutants, the findings, the hazards and the theorems.

## 1. Inventory

| Part | State it keeps | Operations | What is hard | What makes it correct |
|---|---|---|---|---|
| Composer lease endpoint (`HdmiLeaseServer`, `HWCSession`) | lease state, phase and display; client socket; watchdog deadline; pending hotplug | ACQUIRE in three phases, RELEASE, STATUS, PING; watchdog; hangup | three threads (server, uevent, SurfaceFlinger), of which one does not take the lease mutex | one owner per display; nothing left reserved; every takeover is watched and ends |
| DAL lease state (`HWDeviceDRM`) | a sidecar entry per device; the kernel's lease | prepare, create, revoke, reset, abort | any DRM call can fail; teardown in the middle | the entry and the kernel agree |
| Planes and locks (0007, 0008, 0013-0015) | the reserved primary plane; five mutexes | choose, reserve, sanitise, hand over | chosen at start, used at hotplug; a release inside a command batch | only the reserved plane is leased, and only clean; no circular wait |
| Broker, arming (`hdmi-losd`) | armed, applied, requested mode; mode journal on disk; sticky disconnect | arm, disarm, poll an armed request, apply and restore the mode | crash points between a file and a setting; events that are read by the wrong reader | the user's display mode is never lost; an armed request makes progress |
| Broker, session | active, volume grabs, wake lock, two connections | start, probe, wait, release | five requests to two peers, each of which may fail or time out | all is given back on every path |
| Agent | prepared, process groups, lease copy, trace state | PREPARE, START, STOP, preflight, cleanup, forwarding of records | commands and acknowledgements on one stream; stubborn children; a killed agent's orphans | Xorg ends when the broker has no session; groups, pids, lease and files are given up on every path |
| DRM tracer (in Xorg) | sequence, steady flag, property cache | every DRM ioctl; suppression; same-mode fallback | threads share a socket without a lock | nothing reaches the kernel before it is logged; only what was shown is reported |
| Input bridge | grabbed devices, pressed keys, holder counts | scan, forward, recover from overflow, disconnect | two devices hold one key; queue overflow | a key is down exactly while a device holds it |
| Volume escape | two key flags, a time stamp | `VolumeGuard::Update` | keys pressed before the grab | three seconds, no less |
| Tile and diagnostics app | last status, one request in flight | arm, disarm, set mode, poll | a stale status; pause and resume; a request that is served after its timeout | buttons mean what they say; the screen catches up |
| Module scripts, agent launcher | mounts, marker files | boot stages | interrupted boots | never an unverified composer |
| Capture keeper, probes, X server patches, build tooling | - | - | - | not part of the hand-over |

How they interact:

```
 tile / CLI --(one request per connection)--> broker --(AF_UNIX, one client)--> composer server thread
                                                |  ^                              |  ^
                        PREPARE START STOP ACK  |  | READY FAILED PROGRESS        |  | hotplug notice
                                                v  |                              |  |
                     Xorg + tracer --records--> agent                    HWCSession, uevent thread,
                                                |                        SurfaceFlinger thread
                                                +--> input bridge        HWDeviceDRM -> kernel lease
```

The broker, the agent and the bridge are single-threaded poll loops. The
composer is multi-threaded, and the tracer runs in all threads of Xorg.

## 2. Modules

| Module | Models | Lines of the model that matter |
|---|---|---|
| `DisplayOwnership` | the promise: Android or a lessee drives a display, never both; a lessee gets it only after Android let go; one lease at a time | `Grant`, `Adjust` |
| `ComposerLease` | the composer endpoint, hotplug handling and DAL lease state | `AcquirePrepare` .. `AcquireStaged`, `BeginRelease`, `Restore`, the server loop `Poll` .. `AfterRelease`, `UEvent*`, `Present*` |
| `ComposerLeaseProofs` | theorems about it | `LeaseInv` |
| `PreferredMode` (`MCPreferredMode`) | the broker's loop, arming, the preferred mode and its journal | `GetMode`, `WriteJournal`, `SetPreferred`, `Replay`, `Unlink`, `AdvanceArmed` |
| `PreferredModeProofs` | theorems about it | `ModeInv` |
| `BrokerSession` (`BrokerSessionProofs`) | one session across broker, agent and composer | `Start` .. `StartWait`, `StopWait`, `FinishRelease`, `Receive*` |
| `ScanoutTrace` (`MCScanoutTrace`, `ScanoutTraceProofs`) | tracer, agent's relay and scanout verification | `Call`, `HideProperty`, `Await`, `Proceed`, `Syscall`, `Fallback`, `Relay` |
| `LeaseHandoff` (`MCLeaseHandoff`, `LeaseHandoffProofs`) | plane choice, reservation, sanitising and the composer's mutexes | `CreatePath`, `LeasablePlane`, `ResetPlanes`, `ResetVerified` |
| `AgentProcesses` (`AgentProcessesProofs`) | the agent's children, its cleanup, and the launcher's SIGKILL | `Terminate`, `GraceEnds`, `Reap`, `PreparePath`, `StartPath`, `CleanupPath`, `KillAgent` |
| `TileClient` (`TileClientProofs`) | the control app and the tile, against the broker's queue | `Request`, `Resume`, `Deliver`, `Press`, `Serve` |
| `InputBridge` (`MCInputBridge`, `InputBridgeProofs`) | `input-bridge/main.c` | `Read`, `HandleReport`, `HandleKey`, `Disconnect` |

### Correspondence with the code

**ComposerLease.** One variable per member (`state` is `hdmi_lease_state_`, and
so on; the comment at each VARIABLE names it). A step is a stretch of code
between two points at which another thread can be seen. `hdmi_lease_mutex_`
serialises Acquire, Release and Status, and `LeaseMutexFree` says so. The
hotplug handler does not take it. So PREPARE, RELEASE and STATUS are
split where they have found a display and not yet locked it. `Restart` is the
process dying and being started again; the kernel then drops its leases.
`Faults` names the driver calls that may fail. PREPARE is DRAINING from the moment
it counts the displays, and goes back when it does not find exactly one
(`NoDisplay`). `Stop()` of `Deinit` takes effect at the poll, and the second release in `HWCSession::Deinit` finds nothing to do.

**PreferredMode.** One iteration of `Run` is poll, accept, composer, advance.
Calls that change Android's setting or the journal are split at every point where
a crash leaves the two different. `Rounded` is what the journal's millihertz do
to a mode (`%u` and `%.3f`). A display command that fails may or may not have
taken effect. `Faults` may also hold `"read"` (the journal cannot be read at
recovery) and `"unlink"` (it cannot be removed). Whether the mode matches, the display can be leased and the agent
is present is one choice of `AdvanceArmed`; starting the session is one step. The
user does not change the mode in Android's settings while the broker holds a
journal.

**BrokerSession.** Messages are records in two queues; late answers stay in
them. A wait can end at any moment, because a timeout, the volume keys, a hotplug
event and a hangup all end it. `Acquire` has the outcomes of a phase that
`ComposerLease` has: done, refused, rolled back, answer lost. `BrokerDies`
keeps the wake lock, which belongs to no process. A record that is refused while
the agent runs a check of Xorg (`ReadyRefused`) gets no answer; the tracer ends
Xorg after two seconds (`doomed`). SIGKILL of the agent is in
`AgentProcesses`.

**ScanoutTrace.** `pc[t]` is where thread `t` is in `ioctl()`. One socket, two
queues. `cache` is one entry of the property cache, and the
history variable `written` says that a SETPROPERTY of this Xorg went through. The
agent acknowledges every record, also the one that ends its session; Xorg runs on
(`"ending"`) until `Cleanup`. The broker's logging and its
acknowledgement are one step, so `log` is what is durable. The two records about
a mode mismatch are one. Records that are unread when Xorg dies are dropped.

**InputBridge.** The virtual mouse and keyboard are one map from codes. `queue`
is the kernel's evdev buffer; when it overflows it keeps SYN_DROPPED and the
newest frame. `Flushed` is what EVIOCGKEY does: it discards the key events that
are queued. Key repeat, relative motion and failing writes to uinput are
left out.

**LeaseHandoff.** A thread's operation is the list of instructions it still has
to execute: lock, unlock, or a piece of code; an early return drops the rest and
unlocks, as the scope guards do. A topology is what the driver lists at start. Of
a plane's properties only its CRTC and whether it is clean are kept. The lease
server's protocol is in `ComposerLease`; here a request is an operation.

**AgentProcesses.** `todo` is what the agent still has to do in the operation it
is in, since it is one thread. A group has a leader and, as one value, its other
members (`kin`). A zombie counts as alive, as for `kill(pid, 0)`. Choosing the
mode, writing the Xorg configuration and running xauth succeed or fail.
`Agents` are the agents that run one after the other; all but the last may be
killed, and `orphan` is what each of those left running. The broker sends PREPARE and START
only when no Xorg is left, one START per PREPARE, as in `BrokerSession`.

**TileClient.** The main thread, the two executors and the broker are the actors.
A status is the session, or an error. `want` is a history of what the label said.
A request that timed out, or whose activity is gone, stays in the broker's queue.
The compatibility gates of the broker are open. The broker sets and clears
`probing_` within one request, so no reply says PROBING, and none says DRAINING,
RESTORING or STARTING; the app's "PLEASE WAIT" is never shown.

## 3. Runs

| Run | Checks | Result |
|---|---|---|
| `composer_safety` | `TypeOK`, `MutualExclusion`, `NoLeftoverReservation`, `WatchdogArmed`, `SecureNeverLeased`, `OwnershipRefined` (refinement of `DisplayOwnership`) | hold |
| `composer_watchdog` | `TakeoverEnds` | holds, with its stated exception |
| `composer_replug` | `AndroidRestored` ("Android is restored", README.md:364-367) | violated |
| `mode` | `TypeOK`, `ModeRecoverable`, `RestoredWhenIdle`, `AppliedModeHeld` | hold |
| `mode_sticky_disconnect` | `UnplugIsProgress` (comment at broker main.cpp:829-831) | violated |
| `session` | `TypeOK`, `NoLeaseWithoutSession`, `GuardsMatchSession`, `XorgStops` | hold |
| `session_stop_order` | `StopBeforeRelease` (docs/ARCHITECTURE.md:181-184) | violated |
| `handoff` | `TypeOK`, `NoCircularWait`, `LeaseExclusive`, `CleanHandoff`, `SanitizeKeepsOthers` | hold |
| `agent` | `TypeOK`, `GroupGone`, `PidsOwned`, `LeaseReturned`, `OneServer`, `PathsFresh`, `PreflightAccepts`, `OperationEnds` | hold, with their stated exceptions |
| `tile` | `TypeOK`, `PollingFollowsScreen`, `LabelsMeanWhatTheySay`, `ScreenCatchesUp` | hold |
| `bridge` | `TypeOK`, `HoldersExact`, `KeysFollowDevice` | hold |
| `trace` | `TypeOK`, `ReportedWasShown`, `TracedFirst`, `ChangeReachesKernel` | hold, the last with its stated exception |

Every property of a passing run has a mutant in `PROJECT.json`: a version of one
mapped definition with a plausible mistake, under which TLC finds the property
violated.

### The violations

* `composer_replug`: the cable is out when the release decides whether to resume
  (0012:35), and in again when the deferred hotplug handler looks.
* `mode_sticky_disconnect`: the unplug event is read inside `ComposerRequest`
  (broker main.cpp:569); every later status request fails while the cable is out.
* `session_stop_order`: the wait for the agent's READY has a limit, and `Release`
  goes on after it without looking at the result (broker main.cpp:1170).

### Bounds

* Composer: one display slot (the endpoint refuses a takeover with two, and the
  proofs cover any number), a queue of one uevent (enough for an unplug to
  overtake a release), `Failsafe` 2 and `Backstop` 1 ticks (a ping, a backstop
  and an expiry can come in any order). The watchdog run uses 1
  and 1.
* Mode: three modes, of which one differs from another only below a millihertz;
  two queued hotplug events (one unread and one overtaken); two stable samples
  instead of the code's number (below, at and beyond the threshold).
* Session: two sessions or probes, so that a late answer of the first can meet the
  second. The safety properties are proved for any number; `XorgStops` is about
  one session, and what an earlier one can leave for it is what it left in the queues.
* Bridge: two devices with one shared key, a button that only one of them may
  send, a queue of five events (an overflow with frames left over).
* Trace: two threads, one buffer, two timings, two property values (interchangeable,
  hence the symmetry), three
  sequence numbers per session (a first SETCRTC, one that is answered with the
  steady flag, and an untraced ioctl), any number of sessions.
* Handoff: four topologies of up to three CRTCs and three planes (a virtual plane
  listed first beside a shared one, a CRTC without the reserved plane, and two
  for which leasing is off); one uevent at a time. `unreliable` names the planes
  of a topology whose lookups may fail: a virtual plane, the second primary plane
  (the reservation then differs between two starts of the composer), and the primary ones where leasing is off.
* Agent: two agents (`Agents`), so that the orphans of one meet the other; any
  number of sessions. The proofs cover any number of agents.
* Tile: two queued jobs of the tile (a click behind a click) and three
  connections at the broker (the app's, the tile's and an abandoned one).

### Fairness

* `ComposerLease!FairSpec`: the composer's threads are scheduled and time passes.
  No client, cable or lessee is obliged to do anything.
* `PreferredMode!FairSpec`: the broker's loop runs; `AdvanceArmed` is strongly
  fair because the 250 ms poll of an armed request recurs; the composer reports
  a change of the cable.
* `BrokerSession!FairSpec`: both loops run; preparing, starting and stopping in
  the agent are strongly fair because each has a time limit (`run_wait`, the
  start deadline, `terminate_group`), however many records interrupt them. An Xorg
  whose record got no answer exits, by the tracer's timeout of two seconds.
  Nobody is obliged to start or end a session.
* `AgentProcesses!FairSpec`: the agent runs, its waits have limits, and a leader
  that got SIGKILL exits. A process that only got SIGTERM is not obliged to.
* `TileClient!FairSpec`: the main thread, its timer, the executor and the broker
  run. Nothing is assumed about who gets into a full backlog, and
  `ScreenCatchesUp` names that case: with weak fairness the tile's requests can
  keep the app's `connect` out for ever.

### Behaviour the models show without a run of its own

The first three contradict a document; the others are ruled out by none.

* A broker that is gone when a hotplug notice is sent is closed there (0010:177),
  and the branches that release on a hangup are skipped. The lease lives until
  its deadline, which `WatchdogArmed` and `TakeoverEnds` guarantee, although
  docs/ARCHITECTURE.md:146-147 promises a revocation "when its broker
  disconnects".
* A failed replay keeps the journal, and the next arm snapshots the borrowed mode
  over it (broker main.cpp:684), so that the user's mode is lost, against
  README.md:383-384. `ModeRecoverable` is violated when `Faults` in
  `PreferredMode.cfg` is `{"replay"}`.
* A connector property that is set from the cached value to another and back stays
  at the other: the set that goes through does not update the cache, and the
  second is suppressed (drmtrace.c:768), against docs/QUALCOMM_DRM_RESEARCH.md:58-59
  ("A real value change ... still reaches the kernel"). `ChangeReachesKernel` is
  violated without its exception `written`.
* `terminate_group` waits its full two seconds for every group that obeys SIGTERM,
  because the zombie counts as alive (agent main.cpp:269). A cleanup of three
  groups takes longer than the broker's wait for STOP (`session_stop_order` is
  then the rule) and than the two seconds that `run-agent.sh` gives the agent. The
  bridge is ended last, so a SIGKILL there leaves it running with its grabs.
* A START that is refused for its mode leaves its lease descriptor open until the
  agent exits (agent main.cpp:1085-1103, `leaked`).
* Members of Xorg's group are not signalled when Xorg exits by itself and the loop
  reaps it (agent main.cpp:1041, `left`).
* The lock of display :1 is read and then removed (agent main.cpp:744-754); an
  orphan that replaces it in between loses it. `OneServer` leaves this out
  (`raced`).
* An orphaned bridge that writes `input.env` late is taken for the agent's own.
* Sanitising treats a failed lookup of an optional plane property as its absence:
  the property is neither reset nor verified. `CleanHandoff` leaves out exactly
  those planes (`skipped`).
* The dialog's confirmed disarm is dropped when a poll is in flight
  (DiagnosticsActivity.java:140).
* After an undeliverable notice the server accepts a new client in the same
  round and blocks in `recv` on it, with the `revents` of the old one (0002:235).
  `TakeoverEnds` has this as its exception `BlockedInRecv`.
* A hotplug handler that tested the state before PREPARE can destroy the display
  of the takeover (0007:133); the safety properties hold all the same, because
  the teardown revokes.
* With a failing `drmModeRevokeLease` the sidecar entry is erased all the same
  (0004:219), and the exclusion no longer holds. Runs and theorems about
  exclusion leave this fault out by name.
* An unplug and a replug between two rounds of the server are one connect
  (0010:132): no backstop.
* A client's status request can take the event that the poll saw; the broker
  then waits for its receive timeout and disarms (broker main.cpp:471).
* `WaitAgent` takes a late READY of an earlier request for the present one's
  (broker main.cpp:648).
* After EVIOCGKEY, events already read into the batch are older than the state it
  returned (input-bridge main.c:335). `KeysFollowDevice` leaves out exactly the
  sources to which this happened (`stale`).

## 4. Proofs

`ComposerLeaseProofs` proves, for any set of displays, any queue bound and any
`Failsafe` and `Backstop`:

| Theorem | Statement | Assumption besides `ComposerAssumptions` |
|---|---|---|
| `TypeCorrect` | `Spec => []TypeOK` | - |
| `Exclusion` | `Spec => []MutualExclusion` | revoking works |
| `NothingLeftOver` | `Spec => []NoLeftoverReservation` | revoking works |
| `Watched` | `Spec => []WatchdogArmed` | - |
| `Secured` | `Spec => []SecureNeverLeased` | - |
| `Refinement` | `Spec => OwnershipRefined` | revoking works |

All rest on one inductive invariant, `Flags /\ Typed /\ LeaseInv`
(`Invariance`). None of the safety properties is inductive alone. `MutualExclusion`
says nothing of how a lease came about, so a step that resumes Android could
start from a state with a lease the code has forgotten. `LeaseInv` adds what the
code relies on:

* `SessionConsistent`: state, phase and display of the takeover agree, also in
  the middle of an operation, and RESTORING is exactly the time in which one of
  the two threads is inside a release;
* `SidecarConsistent`: only the display of the takeover has an entry, and the
  entry is active exactly in the last phase;
* `KernelConsistent`: a live lease has an active entry and a paused display;
* `DeadlineConsistent`: beyond PREPARE there is a deadline, and it is cleared only
  after a release.

The proof has one step per action. `FlagsStep` does the Boolean variables,
`TypedStep` the others, `LeaseInvStep` the invariant, and `RestoreEffect` states
once what a release does to each variable. For the refinement, `LeaseGranted`
shows that only CREATE adds a lease, from none, to a display that Android does
not drive; every other step maps to `Adjust` or to a stutter.

`PreferredModeProofs` proves, for any set of modes, any rounding that is
idempotent, any number of stable samples and any queue bound:

| Theorem | Statement | Assumption besides `ModeAssumptions` |
|---|---|---|
| `ModeTypes` | `Spec => []TypeOK` | - |
| `Recoverable` | `Spec => []ModeRecoverable` | replaying works |
| `Restored` | `Spec => []RestoredWhenIdle` | replaying works |
| `AppliedHeld` | `Spec => []AppliedModeHeld` | replaying works |

Replaying works when the journal can be read, the command succeeds and the journal
can be removed: `"read"`, `"replay"` and `"unlink"` are not in `Faults`. The run
leaves them out too. The assumption is needed: TLC finds `ModeRecoverable` violated
with `"replay"` or `"read"` in `Faults`, and `RestoredWhenIdle` with `"unlink"`. Every other command, the writing of both files, the
composer's connection and the takeover may fail, and the broker may die anywhere. The inductive invariant is
`ModesTyped /\ ModeInv` (`ModeInvariance`). `ModeRecoverable` is not inductive: it
allows a second snapshot to be taken while a journal exists. `ModeInv` adds

* `JournalTrue`: the journal is the user's mode, rounded, or absent, and without
  one Android holds the user's mode;
* `JournalKept`: a journal exists from before the set command until after the
  replay, and at no other time in a running broker;
* `PlacesConsistent`: what being inside `ApplyPreferredMode` or
  `RecoverPreferredMode` implies for the request and for the snapshot.

`DisarmStep` and `ReleaseStep` state once what `Disarm` and `Release` do, since
most ways to end a request or a session go through them.

`ModeTypes` (`Spec => []TypeOK`) needs no assumption on the faults. It has an
invariant of its own, `TypeInv`, because `TypeOK` is not inductive: that a replay
sets a mode needs "a journal is replayed only when there is one", and that the
counter of stable samples stops at its limit needs "the sample that reaches it
starts the session or disarms" (`SamplesBounded`).

The other modules have one inductive invariant each, and a theorem for each of
their safety properties. No theorem below has an assumption other than the ones
named for the constants, which every run evaluates on its instance.

| Module | Theorems | For any | Invariant |
|---|---|---|---|
| `BrokerSessionProofs` | `SessionTypes`, `NoStrayLease`, `GuardsAreExact` | number of sessions | `SessionInv` |
| `ScanoutTraceProofs` | `TraceTypes`, `ReportsAreTrue`, `IoctlsAreTraced`, `ChangesReachTheKernel` | threads, buffers, modes, values, length of a session | `Typed /\ TraceInv` |
| `InputBridgeProofs` | `BridgeTypes`, `CountersAreExact`, `KeysAreKnown` | finite set of devices, keys, queue of three or more events, batch size | `Typed /\ BridgeInv` |
| `TileClientProofs` | `TileTypes`, `PollingIsAlive`, `ButtonsKeepTheirWord` | backlog, number of the tile's jobs | `Typed /\ TileInv` |
| `LeaseHandoffProofs` | `HandoffTypes`, `LocksAreOrdered`, `LesseeIsAlone`, `HandoffIsClean`, `CleaningKeepsOthers` | set of topologies | `HandoffInv` |
| `AgentProcessesProofs` | `AgentTypes`, `GroupsEnd`, `PidsAreOwn`, `LeaseIsReturned`, `DisplayIsExclusive`, `PathsAreFresh`, `PreflightIsFair` | number of agents that are killed | `AgentInv` |

What the invariants add to the properties, and why it is needed:

* `SessionInv`: the keys are held outside of the loop (`GuardsInv`), and before
  the takeover begins the broker owns no lease (`OwnerInv`). Without the second a
  `Start` whose PREPARE fails could return to the loop with one.
* `TraceInv`: sequence numbers belong to one thread (`NumbersInv`); the only
  record of a thread that waits for its first acknowledgement is its BEFORE
  record, so an acknowledgement of that number follows the log (`LoggedInv`);
  routine tracing ends only in a verified session (`SteadyInv`). So a thread that
  reads another's acknowledgement does not take it for its own. `CacheInv` says
  what a reply of OBJ_GETPROPERTIES on its way to the cache holds.
* `BridgeInv`: only a device in `sources[]` holds keys (`HoldersInv`). For
  `KeysFollowDevice`: a key that no pending event mentions is known, the newest
  pending event of a key is right, an overflow marker is the first event of what
  it begins, and what follows it ends with a report (`DeviceInv`, `MarkersInv`).
  The proof goes event by event through a batch.
* `TileInv`: each executor has at most one connection in the queue, a request
  that is in flight excludes a queued poll, and a queued request keeps the
  operation its label named (`Meant`).
* `HandoffInv`: each thread is at a place of one of its paths and owns exactly
  the mutexes of a table for that place (`LockInv`). The table is checked
  instruction by instruction (`StatusLocked` .. `SecureLocked`): mutexes are taken
  in the order of their ranks. `NoCircularWait` follows from the order alone. That
  two threads are not in the same critical section gives the rest: what the server
  found out holds until its operation ends (`SessionInv`), a lease is of the paused
  display (`LeaseInv`), and the cleaning has got as far as the place says
  (`SanitizeInv`).
* `AgentInv`: what is left to do is the rest of a path, perhaps with the wait of a
  `terminate_group` in front (`OnPath`); what holds is stated by the number of
  instructions left (`Within`). A group that is about to be reaped has no process
  that could fork (`GroupsInv`); the lock names the X server that serves, unless
  `raced` (`DisplayInv`); from the unlink on, input.env is no earlier agent's
  (`InputInv`).

Each was checked by TLC as an invariant before it was proved. The proofs of one
kind of step share lemmas: which variables a step touches, how `todo` moves, and
what stays true while a path advances.

Assumptions on constants, each one a fact of the code or of the encoding:
`TopologyAssumption` (object ids are not 0, and there is a CRTC),
`BridgeAssumptions` (a queue holds an overflow's marker and a frame; `None` is no
device), `AgentAssumption` (an agent is none of the other values of the same
variables), `TraceAssumptions` (Android's buffer is not Xorg's), and bounds that
are natural numbers.

Only model-checked: liveness (`TakeoverEnds`, `XorgStops`, `OperationEnds`,
`ScreenCatchesUp`), which rests on fairness and so on ENABLED, beyond the prover;
and the three violations.

## 5. Not modelled

* The volume escape (`VolumeGuard::Update`): sequential code over two flags and a
  time stamp. That it ends a session at any moment is in every model.
* The boot scripts: which composer is mounted after which boot. Planned.
* Writes to uinput that fail, key repeat and relative motion.
* In the agent, matching the mode, the Xorg configuration and the environment of
  its children; of the launcher, all but `stop_child`.
* The command-line client and the log format keep no state that a property is
  about. The capture keeper, the probes, the X server backports and the build
  tooling are outside the hand-over.

## 6. Plan

1. Done: `DisplayOwnership`, `ComposerLease` and `PreferredMode` with their
   proofs; `BrokerSession`; `InputBridge`; `ScanoutTrace`; `LeaseHandoff`;
   `AgentProcesses`; `TileClient`.
2. Done: proofs of every safety property of the passing runs.
3. `VolumeGuard` (a chord of three seconds, keys held before the grab) and
   `ModuleGate` (boot stages, marker files, interrupted boots).
4. Composition: `BrokerSession` with `ComposerLease` in the place of its
   abstract composer, at least as a refinement of that composer.
