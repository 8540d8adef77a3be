--------------------------- MODULE ComposerLease ---------------------------
(***************************************************************************)
(* The lease endpoint that the patch series adds to the Qualcomm composer: *)
(* the staged takeover of HWCSession, the lease bookkeeping of             *)
(* HWDeviceDRM, the HdmiLeaseServer thread with its watchdog, and the two  *)
(* other composer threads that meet it, the uevent thread and the          *)
(* SurfaceFlinger thread.                                                  *)
(*                                                                         *)
(* One step is one stretch of code between two points where another thread *)
(* can be seen.  hdmi_lease_mutex_ serialises Acquire, Release and Status, *)
(* but the hotplug handler does not take it: it only tests the lease state *)
(* before it locks pluggable_handler_lock_.  An operation is therefore     *)
(* split where it has looked at the displays and has not yet locked the    *)
(* display it found ("selected", "restoring", "reading").                  *)
(***************************************************************************)
EXTENDS Naturals, Sequences, FiniteSets

CONSTANTS
  Displays,      \* the pluggable display slots (map_info_pluggable_)
  NoDisplay,     \* hdmi_lease_display_idx_ == -1
  Failsafe,      \* kComposerFailsafeSeconds, in ticks
  Backstop,      \* the five seconds after a disconnect, in ticks
  MaxUEvents,    \* bound on uevents waiting in the netlink socket
  Faults         \* the driver calls that may fail: "revoke" for
                 \* drmModeRevokeLease (other than with ENOENT), "reset" for
                 \* the commits of ResetExternalDisplayLease, "screen" for
                 \* ToggleScreenUpdates and SetDisplayStatus

ASSUME ComposerAssumptions ==
  /\ NoDisplay \notin Displays
  /\ IsFiniteSet(Displays)
  /\ Failsafe \in Nat /\ Backstop \in Nat
  /\ 0 < Backstop /\ Backstop <= Failsafe
  /\ MaxUEvents \in Nat
  /\ Faults \subseteq {"revoke", "reset", "screen"}

VARIABLES
  state,            \* hdmi_lease_state_
  phase,            \* hdmi_lease_phase_
  idx,              \* hdmi_lease_display_idx_
  pending,          \* pending_hotplug_event_ == kHotPlugEvent
  disp,             \* hwc_display_[d]: absent (null), active or paused
  sidecar,          \* external_display_leases: none, prepared or active
  kernel,           \* the displays whose objects the kernel has leased out
  plugged,          \* the displays whose connector has a cable
  secure,           \* secure_session_active_
  client,           \* client_fd: none, open, or hup when the peer is gone
  inbox,            \* is a request waiting in the client's socket?
  backlog,          \* is a connection waiting in the listen queue?
  deadline,         \* deadline_ms_, as ticks that remain
  continuous,       \* continuous_lease_
  notice,           \* hotplug_pending_ with hotplug_connected_
  running,          \* running_
  srv,              \* where the server thread is
  ret,              \* what the server thread does after the call it is in
  revents,          \* fds[2].revents of the last poll
  sel,              \* local `selected` of the server thread's call
  seen,             \* the lease state that the status call in progress returns
  sf,               \* where the SurfaceFlinger thread is
  ue,               \* where the uevent thread is
  uevents           \* connector uevents not yet handled

session == <<state, phase, idx>>
hardware == <<disp, sidecar, kernel>>
socket == <<client, inbox, backlog>>
watchdog == <<deadline, continuous>>
server == <<srv, ret, revents, sel, seen>>
others == <<plugged, secure, running, sf, ue, uevents>>
vars == <<session, pending, hardware, socket, watchdog, notice, server, others>>

None == 0
Prepare == 1
Pause == 2
Create == 3
Off == Failsafe + 1

Requests ==
  [opcode : {"STATUS", "RELEASE", "UNKNOWN"}, phase : {None}, continuous : {FALSE}]
    \cup [opcode : {"PING"}, phase : {None}, continuous : BOOLEAN]
    \cup [opcode : {"ACQUIRE"}, phase : None .. Create, continuous : BOOLEAN]

TypeOK ==
  /\ state \in {"ANDROID", "DRAINING", "LEASED", "RESTORING", "ERROR"}
  /\ phase \in None .. Create
  /\ idx \in Displays \cup {NoDisplay}
  /\ pending \in BOOLEAN
  /\ disp \in [Displays -> {"absent", "active", "paused"}]
  /\ sidecar \in [Displays -> {"none", "prepared", "active"}]
  /\ kernel \in SUBSET Displays
  /\ plugged \in SUBSET Displays
  /\ secure \in BOOLEAN
  /\ client \in {"none", "open", "hup"}
  /\ inbox \in BOOLEAN
  /\ backlog \in BOOLEAN
  /\ deadline \in 0 .. Off
  /\ continuous \in BOOLEAN
  /\ notice \in {"none", "connected", "disconnected"}
  /\ running \in BOOLEAN
  /\ srv \in {"poll", "status", "reading", "reported", "deadline", "recv", "selected",
              "respond", "hup", "release", "restoring", "released", "stopped"}
  /\ ret \in {"none", "connected", "disconnected", "answer", "renew", "acquired", "timeout", "request",
              "undelivered", "lost", "exit"}
  /\ revents \in SUBSET {"in", "hup"}
  /\ sel \in Displays \cup {NoDisplay}
  /\ seen \in {"ANDROID", "DRAINING", "LEASED", "RESTORING", "ERROR"}
  /\ sf \in {"idle", "release", "restoring"}
  /\ ue \in {"idle", "handle", "notify"}
  /\ uevents \in Seq({"connected", "disconnected"})

Init ==
  /\ state = "ANDROID" /\ phase = None /\ idx = NoDisplay /\ pending = FALSE
  /\ plugged \in SUBSET Displays
  /\ disp = [d \in Displays |-> IF d \in plugged THEN "active" ELSE "absent"]
  /\ sidecar = [d \in Displays |-> "none"]
  /\ kernel = {}
  /\ secure = FALSE
  /\ client = "none" /\ inbox = FALSE /\ backlog = FALSE
  /\ deadline = Off /\ continuous = FALSE
  /\ notice = "none" /\ running = TRUE
  /\ srv = "poll" /\ ret = "none" /\ revents = {} /\ sel = NoDisplay
  /\ seen = "ANDROID"
  /\ sf = "idle" /\ ue = "idle" /\ uevents = <<>>

----------------------------------------------------------------------------
(* HWDeviceDRM and HWCDisplay: the lease of one display. *)

\* The results that a driver call can have.
Outcome(call) == IF call \in Faults THEN BOOLEAN ELSE {TRUE}

\* Mutant: drmModeRevokeLease is not called.
AfterRevokeSkipped(ds, live) == {live}

\* RevokeExternalDisplayLease() of every display in ds: the leases that can be
\* live afterwards when `live` are before.
AfterRevoke(ds, live) ==
  LET known == {d \in ds \cap live : sidecar[d] = "active"}
  IN  {live \ (known \ failed) : failed \in IF "revoke" \in Faults THEN SUBSET known ELSE {{}}}

\* Mutant: the prepared entry stays in the map.
AbortPreparationKept(d) == sidecar' = sidecar

\* AbortExternalDisplayLeasePreparation(): refused once a lease was created.
AbortPreparation(d) ==
  sidecar' = IF sidecar[d] = "active" THEN sidecar ELSE [sidecar EXCEPT ![d] = "none"]

\* ToggleScreenUpdates() and SetDisplayStatus(): what a call that should leave
\* the display in `wanted` leaves it in; one that fails may leave either.
ScreenAfter(wanted, ok) == IF ok THEN {wanted} ELSE {"active", "paused"}

----------------------------------------------------------------------------
(* HWCSession: hotplug. *)

Present == {d \in Displays : disp[d] # "absent"}

\* HWDeviceDRM::Deinit revokes the lease of the display that is destroyed.
DeinitRevokes(gone) == AfterRevoke(gone, kernel)

\* The body of HandlePluggableDisplays: displays follow the connectors; one
\* whose connector is gone is destroyed, with its sidecar entry.
HandlePluggableDisplays ==
  LET gone == Present \ plugged
  IN  /\ disp' = [d \in Displays |->
                    IF d \notin plugged THEN "absent"
                    ELSE IF disp[d] = "absent" THEN "active" ELSE disp[d]]
      /\ kernel' \in DeinitRevokes(gone)
      /\ sidecar' = [d \in Displays |-> IF d \in gone THEN "none" ELSE sidecar[d]]
      /\ pending' = FALSE

\* HdmiLeaseServer::NotifyHotplug: the last event is the one that is kept.
NotifyHotplug(event) == notice' = IF running THEN event ELSE notice

\* UEventHandler up to the lease-state test of HandlePluggableDisplays.
UEventHandler ==
  /\ ue = "idle" /\ uevents # <<>>
  /\ IF state # "ANDROID"
       THEN /\ pending' = TRUE
            /\ NotifyHotplug(Head(uevents))
            /\ uevents' = Tail(uevents)
            /\ UNCHANGED ue
       ELSE /\ ue' = "handle"
            /\ UNCHANGED <<pending, notice, uevents>>
  /\ UNCHANGED <<session, hardware, socket, watchdog, server, plugged, secure, running, sf>>

\* The rest of it, once pluggable_handler_lock_ is locked.
UEventHandle ==
  /\ ue = "handle"
  /\ HandlePluggableDisplays
  /\ ue' = "notify"
  /\ UNCHANGED <<session, socket, watchdog, notice, server, plugged, secure, running, sf,
                 uevents>>

UEventNotify ==
  /\ ue = "notify"
  /\ NotifyHotplug(Head(uevents))
  /\ uevents' = Tail(uevents)
  /\ ue' = "idle"
  /\ UNCHANGED <<session, pending, hardware, socket, watchdog, server, plugged, secure,
                 running, sf>>

----------------------------------------------------------------------------
(* HWCSession: acquire, release, status.  Each holds hdmi_lease_mutex_.    *)

LeaseMutexFree ==
  /\ srv \notin {"selected", "restoring", "reading"}
  /\ sf # "restoring"

ResetTransition == state' = "ANDROID" /\ phase' = None /\ idx' = NoDisplay

\* AcquireHdmiLease(PREPARE) up to the selection of the display.  The state is
\* DRAINING before it is known that there is exactly one.
AcquirePrepare ==
  \E forbidden \in BOOLEAN :  \* no SurfaceFlinger client, or a virtual display
    IF state # "ANDROID" \/ phase # None \/ forbidden \/ secure
      THEN /\ srv' = "respond" /\ ret' = "answer"
           /\ UNCHANGED <<state, sel>>
      ELSE /\ state' = "DRAINING"
           /\ sel' \in IF Cardinality(Present) = 1 THEN Present ELSE {NoDisplay}
           /\ srv' = "selected" /\ UNCHANGED ret

\* ... and from where it has locked the display it selected, if it did.
FinishPrepare ==
  /\ srv = "selected"
  /\ \E ready, pinned \in BOOLEAN :  \* power and security state; plane lookup
       IF /\ sel # NoDisplay /\ disp[sel] = "active" /\ ready
          /\ sidecar[sel] = "none" /\ pinned
         THEN /\ sidecar' = [sidecar EXCEPT ![sel] = "prepared"]
              /\ idx' = sel /\ phase' = Prepare
              /\ deadline' = Failsafe
              /\ ret' = "acquired"
              /\ UNCHANGED state
         ELSE /\ ResetTransition
              /\ ret' = "answer"
              /\ UNCHANGED <<sidecar, deadline>>
  /\ srv' = "respond" /\ sel' = NoDisplay
  /\ UNCHANGED <<pending, disp, kernel, socket, continuous, notice, revents, seen, others>>

\* AcquireHdmiLease(PAUSE): stop Android's updates, the last frame stays on.
PauseUpdates ==
  \E ok \in Outcome("screen") :
    /\ \E screen \in ScreenAfter("paused", ok) : disp' = [disp EXCEPT ![idx] = screen]
    /\ IF ok
         THEN /\ phase' = Pause
              /\ deadline' = Failsafe /\ ret' = "acquired"
              /\ UNCHANGED <<state, idx, sidecar>>
         ELSE /\ AbortPreparation(idx)
              /\ ResetTransition
              /\ ret' = "answer" /\ UNCHANGED deadline
    /\ UNCHANGED kernel

\* AcquireHdmiLease(CREATE): CreateExternalDisplayLease wants the updates
\* paused, the preparation still there and the connector connected.
CreateLease ==
  \E ok \in BOOLEAN, resumed \in Outcome("screen") :
    IF ok /\ disp[idx] = "paused" /\ sidecar[idx] = "prepared" /\ idx \in plugged
      THEN /\ sidecar' = [sidecar EXCEPT ![idx] = "active"]
           /\ kernel' = kernel \cup {idx}
           /\ phase' = Create /\ state' = "LEASED"
           /\ deadline' = Failsafe /\ ret' = "acquired"
           /\ UNCHANGED <<idx, disp>>
      ELSE /\ AbortPreparation(idx)
           /\ \E screen \in ScreenAfter("active", resumed) :
                disp' = [disp EXCEPT ![idx] = screen]
           /\ ResetTransition
           /\ ret' = "answer" /\ UNCHANGED <<kernel, deadline>>

\* The display, the secure session or a virtual display changed in between.
AbandonTakeover ==
  \E resumed \in Outcome("screen") :
    /\ IF disp[idx] # "absent"
         THEN /\ AbortPreparation(idx)
              /\ \E screen \in IF phase = Pause THEN ScreenAfter("active", resumed)
                               ELSE {disp[idx]} :
                   disp' = [disp EXCEPT ![idx] = screen]
         ELSE UNCHANGED <<disp, sidecar>>
    /\ ResetTransition
    /\ ret' = "answer" /\ UNCHANGED <<kernel, deadline>>

\* Mutant: a secure session that started after PREPARE is not noticed.
TakeoverForbiddenIgnoresSecure(virtual) == disp[idx] = "absent" \/ virtual

TakeoverForbidden(virtual) == disp[idx] = "absent" \/ secure \/ virtual

\* Mutant: CREATE stops the updates and creates the lease at once, PAUSE nothing.
AcquireStagedPausesLate(p) ==
  /\ IF state # "DRAINING" \/ phase # p - 1 \/ idx = NoDisplay \/ TakeoverForbidden(FALSE)
       THEN ret' = "answer" /\ UNCHANGED <<session, hardware, deadline>>
       ELSE /\ phase' = p /\ deadline' = Failsafe /\ ret' = "acquired" /\ UNCHANGED idx
            /\ IF p = Pause THEN UNCHANGED <<state, hardware>>
               ELSE /\ state' = "LEASED" /\ disp' = [disp EXCEPT ![idx] = "paused"]
                    /\ sidecar' = [sidecar EXCEPT ![idx] = "active"]
                    /\ kernel' = kernel \cup {idx}
  /\ srv' = "respond"

\* AcquireHdmiLease(PAUSE or CREATE).  The final phase also holds
\* command_seq_mutex_, so no SurfaceFlinger batch is under way.
AcquireStaged(p) ==
  /\ p = Create => sf = "idle"
  /\ IF state # "DRAINING" \/ phase # p - 1 \/ idx = NoDisplay
       THEN ret' = "answer" /\ UNCHANGED <<session, hardware, deadline>>
       ELSE \E virtual \in BOOLEAN :
              IF TakeoverForbidden(virtual) THEN AbandonTakeover
              ELSE IF p = Pause THEN PauseUpdates ELSE CreateLease
  /\ srv' = "respond"

\* What ReleaseHdmiLease leaves behind, from the result and the connector.
Settle(ok, connected) ==
  /\ IF ok \/ ~connected
       THEN ResetTransition
       ELSE state' = "ERROR" /\ UNCHANGED <<phase, idx>>
  /\ pending' = (pending \/ ~connected)

\* ReleaseHdmiLease up to its look at hwc_display_; `idle` and `held` are the
\* places of the calling thread without and with the lease mutex.
BeginRelease(at, idle, held) ==
  IF state = "ANDROID" /\ phase = None /\ idx = NoDisplay
    THEN at = idle /\ UNCHANGED <<session, pending>>
    ELSE IF idx = NoDisplay \/ disp[idx] = "absent"
           THEN at = idle /\ Settle(TRUE, FALSE)
           ELSE at = held /\ state' = "RESTORING" /\ UNCHANGED <<phase, idx, pending>>

\* ... and the restoration under the display's lock.  Revoke and Reset both
\* try to revoke, and Reset forgets the lease even if neither could.
Restore ==
  LET d == idx
      connected == d \in plugged
  IN  /\ disp[d] # "absent"
      /\ \E reset \in Outcome("reset"), resumed \in Outcome("screen") :
           /\ \E screen \in IF phase >= Pause /\ connected THEN ScreenAfter("active", resumed)
                            ELSE {disp[d]} :
                disp' = [disp EXCEPT ![d] = screen]
           /\ IF phase = Create
                THEN \E first \in AfterRevoke({d}, kernel) :
                       /\ kernel' \in AfterRevoke({d}, first)
                       /\ sidecar' = [sidecar EXCEPT ![d] = "none"]
                       /\ Settle(/\ ~(sidecar[d] = "active" /\ d \in first)
                                 /\ reset \/ sidecar[d] = "none"
                                 /\ resumed, connected)
                ELSE /\ AbortPreparation(d)
                     /\ Settle(sidecar[d] # "active" /\ (resumed \/ phase < Pause), connected)
                     /\ UNCHANGED kernel

\* GetHdmiLeaseStatus up to its look at hwc_display_, and the rest of it.
GetStatus ==
  /\ srv = "status" /\ LeaseMutexFree
  /\ seen' = state
  /\ sel' \in IF idx \in Present THEN {idx}
              ELSE IF idx = NoDisplay /\ Present # {} THEN Present ELSE {NoDisplay}
  /\ srv' = IF sel' = NoDisplay THEN "reported" ELSE "reading"
  /\ UNCHANGED <<session, pending, hardware, socket, watchdog, notice, ret, revents, others>>

FinishStatus ==
  /\ srv = "reading" /\ disp[sel] # "absent"
  /\ srv' = "reported" /\ sel' = NoDisplay
  /\ UNCHANGED <<session, pending, hardware, socket, watchdog, notice, ret, revents, seen,
                 others>>

----------------------------------------------------------------------------
(* HdmiLeaseServer::ThreadMain, one action per stage of its loop.          *)

\* Mutant: poll() has no timeout.
PollReadyNoTimeout == notice # "none" \/ backlog \/ inbox \/ client = "hup"

\* Something for the thread to do: a descriptor is ready or the timeout, which
\* never exceeds the time to the deadline, has run out.
PollReady == notice # "none" \/ backlog \/ inbox \/ client = "hup" \/ deadline = 0

\* poll() returns and a hotplug notice is taken.
Poll ==
  /\ srv = "poll" /\ PollReady
  /\ revents' = (IF inbox \/ client = "hup" THEN {"in"} ELSE {})
                  \cup (IF client = "hup" THEN {"hup"} ELSE {})
  /\ notice' = "none"
  /\ IF notice # "none" THEN srv' = "status" /\ ret' = notice
     ELSE srv' = "deadline" /\ UNCHANGED ret
  /\ UNCHANGED <<session, pending, hardware, socket, watchdog, sel, seen, others>>

\* Mutant: a disconnect adds a whole failsafe to the old deadline.
BackstopAdded == deadline + Failsafe

\* The deadline that a disconnect sets, five seconds from now.
BackstopDeadline == Backstop

\* The hotplug event goes out; a client that does not take it is closed, and
\* a disconnect during a takeover starts the five-second backstop.
SendEvent ==
  /\ srv = "reported" /\ ret \in {"connected", "disconnected"}
  /\ IF client = "hup" THEN client' = "none" /\ inbox' = FALSE
     ELSE UNCHANGED <<client, inbox>>
  /\ IF ret = "disconnected" /\ seen # "ANDROID"
       THEN deadline' = BackstopDeadline /\ continuous' = FALSE
       ELSE UNCHANGED watchdog
  /\ srv' = "deadline" /\ ret' = "none" /\ seen' = "ANDROID"
  /\ UNCHANGED <<session, pending, hardware, backlog, notice, revents, sel, others>>

Expire ==
  /\ srv = "deadline" /\ deadline = 0
  /\ srv' = "release" /\ ret' = "timeout"
  /\ UNCHANGED <<session, pending, hardware, socket, watchdog, notice, revents, sel, seen,
                 others>>

\* One client at a time: a second connection is closed.
Accept ==
  /\ srv = "deadline" /\ deadline # 0
  /\ backlog' = FALSE
  /\ client' = IF backlog /\ client = "none" THEN "open" ELSE client
  /\ srv' = "recv"
  /\ UNCHANGED <<session, pending, hardware, inbox, watchdog, notice, ret, revents, sel, seen,
                 others>>

Disconnect ==
  /\ client' = "none" /\ inbox' = FALSE
  /\ srv' = "release" /\ ret' = "lost"

\* recv: the peer is gone.  (With the POLLIN of an earlier client and an open
\* client that sent nothing, recv blocks.)
RecvFails ==
  /\ srv = "recv" /\ client = "hup" /\ ~inbox /\ "in" \in revents
  /\ Disconnect
  /\ UNCHANGED <<session, pending, hardware, backlog, watchdog, notice, revents, sel, seen,
                 others>>

\* HandleRequest: the request is read and its operation begins.
Receive ==
  /\ srv = "recv" /\ client # "none" /\ inbox /\ "in" \in revents
  /\ inbox' = FALSE
  /\ UNCHANGED <<pending, client, backlog, notice, revents, seen, others>>

HandleStatus(r) ==
  /\ r.opcode \in {"STATUS", "PING"}
  /\ srv' = "status"
  /\ ret' = IF r.opcode = "PING" /\ r.continuous THEN "renew" ELSE "answer"
  /\ UNCHANGED <<session, hardware, watchdog, sel>>

HandleRelease(r) ==
  /\ r.opcode = "RELEASE"
  /\ srv' = "release" /\ ret' = "request"
  /\ UNCHANGED <<session, hardware, watchdog, sel>>

\* A protocol error: unknown opcode, no phase, or a changed timeout policy.
HandleProtocolError(r) ==
  /\ \/ r.opcode = "UNKNOWN"
     \/ r.opcode = "ACQUIRE" /\ r.phase # Prepare /\ (r.phase = None \/ r.continuous # continuous)
  /\ srv' = "respond" /\ ret' = "answer"
  /\ UNCHANGED <<session, hardware, watchdog, sel>>

HandlePrepare(r) ==
  /\ r.opcode = "ACQUIRE" /\ r.phase = Prepare
  /\ LeaseMutexFree
  /\ continuous' = r.continuous
  /\ AcquirePrepare
  /\ UNCHANGED <<phase, idx, hardware, deadline>>

HandleStaged(r) ==
  /\ r.opcode = "ACQUIRE" /\ r.phase \in {Pause, Create} /\ r.continuous = continuous
  /\ LeaseMutexFree
  /\ AcquireStaged(r.phase)
  /\ UNCHANGED <<continuous, sel>>

HandleRequest ==
  /\ Receive
  /\ \E r \in Requests : \/ HandleStatus(r) \/ HandleRelease(r) \/ HandleProtocolError(r)
                         \/ HandlePrepare(r) \/ HandleStaged(r)

\* Mutant: a ping outside a continuous lease stops the watchdog.
AfterPingStops == IF ret = "renew" /\ continuous /\ seen = "LEASED" THEN Failsafe ELSE Off

\* The watchdog after a ping: a continuous lease is renewed.
AfterPing == IF ret = "renew" /\ continuous /\ seen = "LEASED" THEN Failsafe ELSE deadline

\* A status or ping request has its answer.
FinishPing ==
  /\ srv = "reported" /\ ret \in {"answer", "renew"}
  /\ deadline' = AfterPing
  /\ srv' = "respond" /\ ret' = "answer" /\ seen' = "ANDROID"
  /\ UNCHANGED <<session, pending, hardware, socket, continuous, notice, revents, sel, others>>

\* SendResponse.  A lease that could not be delivered is released at once.
Respond ==
  /\ srv = "respond"
  /\ IF client = "open" THEN srv' = "hup" /\ UNCHANGED <<client, inbox, ret>>
     ELSE IF ret = "acquired"
            THEN srv' = "release" /\ ret' = "undelivered" /\ UNCHANGED <<client, inbox>>
            ELSE Disconnect
  /\ UNCHANGED <<session, pending, hardware, backlog, watchdog, notice, revents, sel, seen, others>>

CheckHangup ==
  /\ srv = "hup" \/ (srv = "recv" /\ (client = "none" \/ "in" \notin revents))
  /\ IF client # "none" /\ "hup" \in revents
       THEN Disconnect /\ UNCHANGED revents
       ELSE srv' = "poll" /\ ret' = "none" /\ revents' = {} /\ UNCHANGED <<client, inbox>>
  /\ UNCHANGED <<session, pending, hardware, backlog, watchdog, notice, sel, seen, others>>

ServerRelease ==
  /\ srv = "release" /\ LeaseMutexFree
  /\ BeginRelease(srv', "released", "restoring")
  /\ UNCHANGED <<hardware, socket, watchdog, notice, ret, revents, sel, seen,
                 others>>

ServerRestore ==
  /\ srv = "restoring"
  /\ Restore
  /\ srv' = "released"
  /\ UNCHANGED <<socket, watchdog, notice, ret, revents, sel, seen, others>>

\* After every release of the server thread: the deferred hotplug is handled
\* (ProcessPendingHdmiHotplug) and the watchdog is off.
AfterRelease ==
  /\ srv = "released"
  /\ IF pending /\ state = "ANDROID" THEN HandlePluggableDisplays
     ELSE UNCHANGED <<pending, hardware>>
  /\ deadline' = Off /\ continuous' = FALSE
  /\ \/ ret = "timeout" /\ srv' = "deadline" /\ ret' = "none" /\ UNCHANGED <<client, inbox>>
     \/ ret = "request" /\ srv' = "status" /\ ret' = "answer" /\ UNCHANGED <<client, inbox>>
     \/ ret = "undelivered" /\ Disconnect
     \/ ret = "lost" /\ srv' = "hup" /\ UNCHANGED <<client, inbox, ret>>
     \/ ret = "exit" /\ srv' = "stopped" /\ UNCHANGED <<client, inbox, ret>>
  /\ UNCHANGED <<session, backlog, notice, revents, sel, seen, others>>

----------------------------------------------------------------------------
(* The SurfaceFlinger thread, the process and the environment.             *)

\* PresentDisplay: HandleSecureSession, then the test of the lease state.
PresentDisplay ==
  /\ sf = "idle"
  /\ secure' \in BOOLEAN
  /\ sf' = IF secure' /\ state = "LEASED" THEN "release" ELSE "idle"
  /\ UNCHANGED <<session, pending, hardware, socket, watchdog, notice, server, plugged,
                 running, ue, uevents>>

PresentRelease ==
  /\ sf = "release" /\ LeaseMutexFree
  /\ BeginRelease(sf', "idle", "restoring")
  /\ UNCHANGED <<hardware, socket, watchdog, notice, server, plugged, secure, running, ue,
                 uevents>>

PresentRestore ==
  /\ sf = "restoring"
  /\ Restore
  /\ sf' = "idle"
  /\ UNCHANGED <<socket, watchdog, notice, server, plugged, secure, running, ue, uevents>>

\* The composer process ends and is started again.  The kernel drops the
\* leases of a DRM master that goes away.
Restart ==
  /\ ResetTransition /\ pending' = FALSE
  /\ disp' = [d \in Displays |-> IF d \in plugged THEN "active" ELSE "absent"]
  /\ sidecar' = [d \in Displays |-> "none"]
  /\ kernel' = {}
  /\ secure' = FALSE
  /\ client' = "none" /\ inbox' = FALSE /\ backlog' = FALSE
  /\ deadline' = Off /\ continuous' = FALSE
  /\ notice' = "none" /\ running' = TRUE
  /\ srv' = "poll" /\ ret' = "none" /\ revents' = {} /\ sel' = NoDisplay
  /\ seen' = "ANDROID"
  /\ sf' = "idle" /\ ue' = "idle" /\ uevents' = <<>>
  /\ UNCHANGED plugged

\* Restore and the status call use the display they saw before they locked it.
NullDisplay ==
  /\ \/ (srv = "restoring" \/ sf = "restoring") /\ disp[idx] = "absent"
     \/ srv = "reading" /\ disp[sel] = "absent"
  /\ Restart

\* Deinit: Stop() makes the server thread leave its loop at the next poll(),
\* which releases the lease; then the displays are destroyed.
Deinit ==
  /\ srv = "poll"
  /\ running' = FALSE
  /\ client' = "none" /\ inbox' = FALSE
  /\ srv' = "release" /\ ret' = "exit"
  /\ UNCHANGED <<session, pending, hardware, backlog, watchdog, notice, revents, sel, seen,
                 plugged, secure, sf, ue, uevents>>

Exit == srv = "stopped" /\ Restart

Crash == Restart

\* A root broker connects, sends one request at a time, and may go away.
Connect ==
  /\ ~backlog /\ backlog' = TRUE
  /\ UNCHANGED <<session, pending, hardware, client, inbox, watchdog, notice, server, others>>

Send ==
  /\ client = "open" /\ ~inbox /\ inbox' = TRUE
  /\ UNCHANGED <<session, pending, hardware, client, backlog, watchdog, notice, server, others>>

HangUp ==
  /\ client = "open" /\ client' = "hup"
  /\ UNCHANGED <<session, pending, hardware, inbox, backlog, watchdog, notice, server, others>>

\* The connector changes and the kernel sends the uevent.
Plug(d) ==
  /\ Len(uevents) < MaxUEvents
  /\ \/ /\ d \in plugged /\ plugged' = plugged \ {d}
        /\ uevents' = Append(uevents, "disconnected")
     \/ /\ d \notin plugged /\ plugged' = plugged \cup {d}
        /\ uevents' = Append(uevents, "connected")
  /\ UNCHANGED <<session, pending, hardware, socket, watchdog, notice, server, secure,
                 running, sf, ue>>

\* The lessee closed its last lease file descriptor.
LesseeExit(d) ==
  /\ d \in kernel /\ kernel' = kernel \ {d}
  /\ UNCHANGED <<session, pending, disp, sidecar, socket, watchdog, notice, server, others>>

Tick ==
  /\ deadline \in 1 .. Failsafe /\ deadline' = deadline - 1
  /\ UNCHANGED <<session, pending, hardware, socket, continuous, notice, server, others>>

ServerStep ==
  \/ Poll \/ GetStatus \/ FinishStatus \/ SendEvent \/ Expire \/ Accept
  \/ RecvFails \/ HandleRequest \/ FinishPrepare \/ FinishPing \/ Respond
  \/ CheckHangup \/ ServerRelease \/ ServerRestore \/ AfterRelease

UEventStep == UEventHandler \/ UEventHandle \/ UEventNotify

PresentStep == PresentRelease \/ PresentRestore

Environment ==
  \/ PresentDisplay \/ Deinit \/ Exit \/ Crash \/ Connect \/ Send \/ HangUp
  \/ \E d \in Displays : Plug(d) \/ LesseeExit(d)

Next == ServerStep \/ UEventStep \/ PresentStep \/ NullDisplay \/ Environment \/ Tick

Spec == Init /\ [][Next]_vars

\* The threads of the composer are scheduled and time passes.
Fairness ==
  /\ WF_vars(ServerStep) /\ WF_vars(UEventStep) /\ WF_vars(PresentStep)
  /\ WF_vars(NullDisplay) /\ WF_vars(Tick)

FairSpec == Spec /\ Fairness

----------------------------------------------------------------------------
(* Properties.                                                             *)

\* The server thread is between two rounds of its loop.
ServerIdle == srv = "poll"

\* While a DRM lease of a display is live, Android's updates of that display
\* are paused: the drain before drmModeCreateLease and the revoke before the
\* resume (AcquireHdmiLease, ReleaseHdmiLease) are in the right order on every
\* path, hotplug teardown included.
MutualExclusion == \A d \in kernel : disp[d] = "paused"

\* When Android owns the displays no lease bookkeeping is left over, which
\* would make every later PrepareExternalDisplayLease fail.
NoLeftoverReservation ==
  state = "ANDROID" => kernel = {} /\ \A d \in Displays : sidecar[d] = "none"

\* Whenever the server thread is back in poll(), a takeover that was prepared
\* or completed has a running watchdog.
WatchdogArmed ==
  ServerIdle /\ state \in {"DRAINING", "LEASED"} => deadline <= Failsafe

\* Once PresentDisplay has seen the secure session, no lease is held: CREATE
\* cannot slip between the test of secure_session_active_ and the state change.
SecureNeverLeased == secure /\ sf = "idle" => state # "LEASED"

\* Android gets its display back: when nothing is left to be handled, no
\* connected display stays paused.
AndroidRestored ==
  /\ ServerIdle /\ state = "ANDROID" /\ ~pending /\ sf = "idle" /\ ue = "idle"
  /\ uevents = <<>> /\ notice = "none"
  => \A d \in plugged : disp[d] # "paused"

\* The composer keeps the promise of DisplayOwnership, with Android driving the
\* displays that are active and the kernel's live leases as the lessees.
Ownership == INSTANCE DisplayOwnership
               WITH android <- {d \in Displays : disp[d] = "active"},
                    lessees <- kernel

\* Every step of the composer is a step of DisplayOwnership or invisible in it.
OwnershipRefined == Ownership!Spec

\* The watchdog is pushed back for ever: by pings of a continuous lease, or by
\* a cable that never comes to rest (each disconnect restarts the backstop).
Renew == ret = "renew" /\ deadline' = Failsafe /\ FinishPing

KeptAlive == []<><<Renew>>_vars \/ []<><<TRUE>>_plugged

BlockedInRecv == srv = "recv" /\ client = "open" /\ ~inbox /\ "in" \in revents

\* A takeover that is not kept alive ends, by the watchdog if by nothing else,
\* unless the server thread is stuck in recv.
TakeoverEnds ==
  KeptAlive \/ ((state \in {"DRAINING", "LEASED"})
                  ~> (state \notin {"DRAINING", "LEASED"} \/ BlockedInRecv))

=============================================================================
