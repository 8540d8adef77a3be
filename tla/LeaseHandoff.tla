---------------------------- MODULE LeaseHandoff ----------------------------
(***************************************************************************)
(* The hand-over of the external display's DRM resources inside the        *)
(* composer: which plane is kept away from Android's allocator, how the    *)
(* planes are cleaned before drmModeCreateLease, and the mutexes that the  *)
(* lease server, SurfaceFlinger and the hotplug thread take meanwhile      *)
(* (src/patches/qcom-display/v1).  ComposerLease has the lease server's    *)
(* protocol; here a request is just an operation that the server runs.     *)
(*                                                                         *)
(* A thread's operation is the sequence of instructions it still has to    *)
(* execute: lock a mutex, unlock one, or run a piece of code.  Returning   *)
(* early drops the rest and, like the scope guards, unlocks.               *)
(***************************************************************************)
EXTENDS Integers, Sequences, FiniteSets

CONSTANTS
  Topologies,  \* what the DRM driver may list at start-up: records of crtcs and
               \* planes (sequences), the primary ones, the CRTCs each plane can
               \* scan out to, its master plane, the planes SDM knows as pipes
               \* and those whose lookups may fail
  Faults       \* calls that may fail: subset of {"commit", "ignored"}

\* DRM object ids are not 0; the first CRTC is the built-in display's.
ASSUME TopologyAssumption ==
  \A d \in Topologies :
    /\ d.crtcs \in Seq(Nat \ {0}) /\ d.crtcs # <<>>
    /\ d.planes \in Seq(Nat \ {0})

VARIABLES
  drm,       \* the topology of this boot
  reserved,  \* hdmi_reserved_primary_plane, 0 for none
  pipes,     \* the pipe list that Android's allocator was given
  owner,     \* mutex -> the thread that holds it
  todo,      \* thread -> its remaining instructions
  state,     \* hdmi_lease_state_
  phase,     \* hdmi_lease_phase_
  pending,   \* hdmi_pending_hotplug_
  plugged,   \* the external connector is connected
  ext,       \* the external display: its CRTC and whether its updates are on
  entry,     \* its entry of external_display_leases: plane and active
  lease,     \* the kernel's lease
  crtcOf,    \* plane -> the CRTC it is attached to, 0 for none
  clean,     \* planes known to have no private state: reset since their last use
  targets,   \* SanitizeExternalPlanesForLease's list of planes
  skipped    \* those of them whose optional properties it did not find

boot == <<drm, reserved, pipes>>
display == <<plugged, ext>>
planes == <<crtcOf, clean>>
sanitize == <<targets, skipped>>
vars == <<boot, owner, todo, state, phase, pending, display, entry, lease, planes, sanitize>>

NoEntry == [plane |-> 0, active |-> FALSE]
NoLease == [crtc |-> 0, plane |-> 0]

Thread == {"server", "surfaceflinger", "uevent"}
Mutex == {"command", "lease", "pluggable", "builtin", "external"}

Elements(seq) == {seq[i] : i \in 1 .. Len(seq)}
Crtcs == Elements(drm.crtcs)
Planes == Elements(drm.planes)
Present == ext.crtc # 0
Outcome(fault) == IF fault \in Faults THEN BOOLEAN ELSE {TRUE}

\* Planes whose drmModeGetPlane and property lookups succeed this time.
Readable(all) == {all \ failing : failing \in SUBSET drm.unreliable}

----------------------------------------------------------------------------
(* Fixed primary planes and the reservation.                               *)

\* GetFixedPrimaryPlane: the n-th CRTC is tied to the n-th primary plane; a
\* plane that cannot be read is not counted.
GetFixedPrimaryPlane(d, crtc, readable) ==
  LET index == CHOOSE i \in 1 .. Len(d.crtcs) : d.crtcs[i] = crtc
      counted(j) == {i \in 1 .. j : d.planes[i] \in d.primary \cap readable}
      nth == {j \in counted(Len(d.planes)) : Cardinality(counted(j)) = index}
  IN  IF \E j \in nth : index \in d.possible[d.planes[j]]
        THEN d.planes[CHOOSE j \in nth : TRUE] ELSE 0

\* Mutant: the list is made from all planes of the driver.
AllocatorPipesAllPlanes(d, plane) == Elements(d.planes) \ {plane}

\* GetHWPlanesInfo: the pipes that Android's allocator gets to know.
AllocatorPipes(d, plane) == {p \in d.pipes : plane = 0 \/ plane \notin {p, d.master[p]}}

\* GetHWPlanesInfo: the second CRTC's fixed primary plane, if it is a pipe.
ReservePlane(d, readable) ==
  IF Len(d.crtcs) > 1 /\ GetFixedPrimaryPlane(d, d.crtcs[2], readable) \in d.pipes
    THEN GetFixedPrimaryPlane(d, d.crtcs[2], readable) ELSE 0

\* Mutant: the plane is not compared with the reservation.
LeasablePlaneUnchecked(readable) == GetFixedPrimaryPlane(drm, ext.crtc, readable)

\* PREPARE and CREATE: the external CRTC's fixed primary plane, or 0 when it
\* was not reserved.
LeasablePlane(readable) ==
  LET selected == GetFixedPrimaryPlane(drm, ext.crtc, readable)
  IN  IF selected = reserved THEN selected ELSE 0

----------------------------------------------------------------------------
(* Instructions and the paths of the operations.                           *)

Lock(m) == [op |-> "lock", arg |-> m]
Unlock(m) == [op |-> "unlock", arg |-> m]
Run(code) == [op |-> "run", arg |-> code]

\* GetHdmiLeaseStatus: pluggable_handler_lock_ only while it looks for a display.
StatusPath == <<Lock("lease"), Run("status"), Lock("pluggable"), Run("find"),
                Unlock("pluggable"), Lock("external"), Run("report")>>

\* AcquireHdmiLease(PREPARE).
PreparePath == <<Lock("lease"), Run("begin"), Lock("pluggable"), Run("select"),
                 Unlock("pluggable"), Lock("external"), Run("prepare")>>

\* AcquireHdmiLease(PAUSE).
PausePath == <<Lock("lease"), Run("sequence_pause"), Lock("external"), Run("pause")>>

\* Mutant: the lease mutex before SurfaceFlinger's.
CreatePathLeaseFirst == <<Lock("lease"), Lock("command"), Run("sequence_create"),
                          Lock("external"), Run("resolve"), Run("list"), Run("reset"),
                          Run("verify"), Run("create")>>

\* Mutant: SurfaceFlinger's batches are not held off.
CreatePathNoCommandLock == <<Lock("lease"), Run("sequence_create"), Lock("external"),
                             Run("resolve"), Run("list"), Run("reset"), Run("verify"),
                             Run("create")>>

\* AcquireHdmiLease(CREATE).
CreatePath == <<Lock("command"), Lock("lease"), Run("sequence_create"), Lock("external"),
                Run("resolve"), Run("list"), Run("reset"), Run("verify"), Run("create")>>

\* ReleaseHdmiLease.
ReleasePath == <<Lock("lease"), Run("release"), Lock("external"), Run("restore"),
                 Unlock("external"), Unlock("lease")>>

\* UEventHandler: HandlePluggableDisplays and the display it changes.
HotplugPath == <<Run("gate"), Lock("pluggable"), Lock("external"), Run("hotplug")>>

\* The server's releases: the deferred hotplug is handled afterwards.
ServerReleasePath == ReleasePath \o <<Run("pending")>> \o HotplugPath

\* A command batch with one PresentDisplay.
BatchPath(d) == <<Lock("command"), Run("secure"), Lock(d), Run("commit")>>

----------------------------------------------------------------------------
(* How a thread executes them.                                             *)

Next1(t) == Head(todo[t])
At(t, code) == todo[t] # <<>> /\ Next1(t) = Run(code)

Continue(t) == todo' = [todo EXCEPT ![t] = Tail(@)] /\ UNCHANGED owner

\* The operation is over; every scope guard unlocks.
Return(t) ==
  /\ todo' = [todo EXCEPT ![t] = <<>>]
  /\ owner' = [m \in Mutex |-> IF owner[m] = t THEN "none" ELSE owner[m]]

\* The path is left with what follows its first n instructions.
Skip(t, n) == todo' = [todo EXCEPT ![t] = SubSeq(@, n + 1, Len(@))] /\ UNCHANGED owner

Begin(t, path) ==
  /\ todo[t] = <<>>
  /\ todo' = [todo EXCEPT ![t] = path]
  /\ UNCHANGED <<boot, owner, state, phase, pending, display, entry, lease, planes, sanitize>>

Acquire(t) ==
  /\ todo[t] # <<>> /\ Next1(t).op = "lock" /\ owner[Next1(t).arg] = "none"
  /\ owner' = [owner EXCEPT ![Next1(t).arg] = t]
  /\ todo' = [todo EXCEPT ![t] = Tail(@)]
  /\ UNCHANGED <<boot, state, phase, pending, display, entry, lease, planes, sanitize>>

Free(t) ==
  /\ todo[t] # <<>> /\ Next1(t).op = "unlock"
  /\ owner' = [owner EXCEPT ![Next1(t).arg] = "none"]
  /\ todo' = [todo EXCEPT ![t] = Tail(@)]
  /\ UNCHANGED <<boot, state, phase, pending, display, entry, lease, planes, sanitize>>

----------------------------------------------------------------------------
(* HWCSession: the lease operations.  phase is 0 for none, 1 after PREPARE, *)
(* 2 after PAUSE and 3 after CREATE.                                       *)

session == <<state, phase>>
ResetTransition == state' = "ANDROID" /\ phase' = 0
Resume == ext' = IF Present THEN [ext EXCEPT !.on = TRUE] ELSE ext

Status ==
  /\ At("server", "status")
  /\ IF phase = 0 THEN Continue("server")
     ELSE IF Present THEN Skip("server", 4) ELSE Return("server")
  /\ UNCHANGED <<boot, session, pending, display, entry, lease, planes, sanitize>>

Find ==
  /\ At("server", "find")
  /\ IF Present THEN Continue("server") ELSE Return("server")
  /\ UNCHANGED <<boot, session, pending, display, entry, lease, planes, sanitize>>

Report ==
  /\ At("server", "report") /\ Present
  /\ Return("server")
  /\ UNCHANGED <<boot, session, pending, display, entry, lease, planes, sanitize>>

BeginPrepare ==
  /\ At("server", "begin")
  /\ \E forbidden \in BOOLEAN :  \* no client, a secure session or a virtual display
       IF state # "ANDROID" \/ phase # 0 \/ forbidden
         THEN Return("server") /\ UNCHANGED state
         ELSE state' = "DRAINING" /\ Continue("server")
  /\ UNCHANGED <<boot, phase, pending, display, entry, lease, planes, sanitize>>

Select ==
  /\ At("server", "select")
  /\ IF Present THEN Continue("server") /\ UNCHANGED session
     ELSE Return("server") /\ ResetTransition
  /\ UNCHANGED <<boot, pending, display, entry, lease, planes, sanitize>>

PrepareLease ==
  /\ At("server", "prepare")
  /\ \E readable \in Readable(Planes) :
       IF Present /\ ext.on /\ entry = NoEntry /\ LeasablePlane(readable) # 0
         THEN /\ entry' = [plane |-> LeasablePlane(readable), active |-> FALSE]
              /\ phase' = 1 /\ UNCHANGED state
         ELSE ResetTransition /\ UNCHANGED entry
  /\ Return("server")
  /\ UNCHANGED <<boot, pending, display, lease, planes, sanitize>>

\* PAUSE and CREATE must follow the phase before them.
CheckSequence(code, required) ==
  /\ At("server", code)
  /\ IF state = "DRAINING" /\ phase = required THEN Continue("server") ELSE Return("server")
  /\ UNCHANGED <<boot, session, pending, display, entry, lease, planes, sanitize>>

\* A failed PAUSE or CREATE: the preparation is dropped, Android goes on.
AbandonTakeover ==
  /\ entry' = IF Present THEN NoEntry ELSE entry
  /\ clean' = {} /\ targets' = {} /\ skipped' = {}
  /\ Resume /\ ResetTransition /\ Return("server")

PauseDisplay ==
  /\ At("server", "pause")
  /\ \E ok \in BOOLEAN :  \* nothing forbids the takeover and the updates stop
       IF Present /\ ok
         THEN /\ ext' = [ext EXCEPT !.on = FALSE]
              /\ phase' = 2 /\ Return("server") /\ UNCHANGED <<state, entry, clean, sanitize>>
         ELSE AbandonTakeover
  /\ UNCHANGED <<boot, pending, plugged, lease, crtcOf>>

\* CreateExternalDisplayLease up to the final look at the plane.
ResolvePlane ==
  /\ At("server", "resolve")
  /\ \E readable \in Readable(Planes), forbidden \in BOOLEAN :
       LET selected == LeasablePlane(readable)
       IN  IF /\ Present /\ ~forbidden /\ plugged
              /\ entry.plane # 0 /\ ~entry.active /\ ~ext.on
              /\ selected # 0 /\ crtcOf[selected] \in {0, ext.crtc}
             THEN /\ entry' = [entry EXCEPT !.plane = selected]
                  /\ Continue("server") /\ UNCHANGED <<session, ext, clean, sanitize>>
             ELSE AbandonTakeover
  /\ UNCHANGED <<boot, pending, plugged, lease, crtcOf>>

\* SanitizeExternalPlanesForLease: the leased plane and all on its CRTC.
SanitizeTargets == {p \in Planes : p = entry.plane \/ crtcOf[p] = ext.crtc}

ListPlanes ==
  /\ At("server", "list")
  /\ \E readable \in Readable(Planes) :
       IF readable = Planes /\ crtcOf[entry.plane] \in {0, ext.crtc}
         THEN /\ targets' = SanitizeTargets
              /\ Continue("server") /\ UNCHANGED <<session, ext, entry, clean, skipped>>
         ELSE AbandonTakeover
  /\ UNCHANGED <<boot, pending, plugged, lease, crtcOf>>

\* One atomic commit, tested first: all of it happens or nothing does.  An
\* optional property that is not found is left out, and the driver may keep
\* private state that it was told to drop ("ignored").
ResetPlanes ==
  /\ At("server", "reset")
  /\ \E ok \in Outcome("commit"), found \in Readable(targets) :
       IF ok
         THEN /\ crtcOf' = [p \in Planes |-> IF p \in targets THEN 0 ELSE crtcOf[p]]
              /\ \E kept \in IF "ignored" \in Faults THEN SUBSET found ELSE {{}} :
                   clean' = found \ kept
              /\ skipped' = targets \ found
              /\ Continue("server") /\ UNCHANGED <<session, ext, entry, targets>>
         ELSE AbandonTakeover /\ UNCHANGED crtcOf
  /\ UNCHANGED <<boot, pending, plugged, lease>>

\* Mutant: the values are not read back.
ResetVerifiedNot == TRUE

\* The values read back are the ones written.
ResetVerified == \A p \in targets : crtcOf[p] = 0 /\ p \in clean \cup skipped

VerifyPlanes ==
  /\ At("server", "verify")
  /\ IF ResetVerified
       THEN Continue("server") /\ UNCHANGED <<session, ext, entry, clean, sanitize>>
       ELSE AbandonTakeover
  /\ UNCHANGED <<boot, pending, plugged, lease, crtcOf>>

CreateLease ==
  /\ At("server", "create")
  /\ \E ok \in Outcome("commit") :
       IF ok
         THEN /\ lease' = [crtc |-> ext.crtc, plane |-> entry.plane]
              /\ entry' = [entry EXCEPT !.active = TRUE]
              /\ state' = "LEASED" /\ phase' = 3
              /\ clean' = {} /\ targets' = {} /\ skipped' = {}
              /\ Return("server") /\ UNCHANGED ext
         ELSE AbandonTakeover /\ UNCHANGED lease
  /\ UNCHANGED <<boot, pending, plugged, crtcOf>>

\* ReleaseHdmiLease, run by the server or from inside PresentDisplay, up to
\* its look at the display.
BeginRelease(t) ==
  /\ At(t, "release")
  /\ IF state = "ANDROID" /\ phase = 0
       THEN Skip(t, 4) /\ UNCHANGED <<session, pending>>
       ELSE IF Present
              THEN Continue(t) /\ state' = "RESTORING" /\ UNCHANGED <<phase, pending>>
              ELSE Skip(t, 4) /\ ResetTransition /\ pending' = TRUE
  /\ UNCHANGED <<boot, display, entry, lease, planes, sanitize>>

\* Revoke and reset, or drop the preparation; then Android's updates resume.
\* (That the revoke or the resume itself fails is left to ComposerLease.)
RestoreDisplay(t) ==
  /\ At(t, "restore") /\ Present
  /\ \E detached, nulled \in Outcome("commit") :
       LET created == phase = 3 /\ entry # NoEntry
           off == {p \in Planes : \/ created /\ detached /\ p = entry.plane
                                  \/ created /\ plugged /\ nulled /\ crtcOf[p] = ext.crtc}
           ok == created => detached /\ (nulled \/ ~plugged)
       IN  /\ crtcOf' = [p \in Planes |-> IF p \in off THEN 0 ELSE crtcOf[p]]
           /\ IF ok \/ ~plugged THEN ResetTransition
              ELSE state' = "ERROR" /\ UNCHANGED phase
  /\ lease' = IF phase = 3 /\ entry.active THEN NoLease ELSE lease
  /\ entry' = NoEntry
  /\ IF phase >= 2 /\ plugged THEN Resume ELSE UNCHANGED ext
  /\ pending' = (pending \/ ~plugged)
  /\ Continue(t)
  /\ UNCHANGED <<boot, plugged, clean, sanitize>>

----------------------------------------------------------------------------
(* Hotplug.                                                                *)

\* ProcessPendingHdmiHotplug: a deferred event, once Android has the display.
ProcessPending ==
  /\ At("server", "pending")
  /\ IF pending /\ state = "ANDROID" THEN Continue("server") ELSE Return("server")
  /\ UNCHANGED <<boot, session, pending, display, entry, lease, planes, sanitize>>

\* The lease-state test of HandlePluggableDisplays.
Gate(t) ==
  /\ At(t, "gate")
  /\ IF state # "ANDROID" THEN pending' = TRUE /\ Return(t)
     ELSE Continue(t) /\ UNCHANGED pending
  /\ UNCHANGED <<boot, session, display, entry, lease, planes, sanitize>>

\* HandlePluggableDisplays: the display follows the connector.  A new one gets
\* some CRTC that is not the built-in display's; one that goes is deinitialised,
\* which revokes its lease, and may leave its planes attached.
HandlePluggableDisplays(t) ==
  /\ At(t, "hotplug")
  /\ \/ /\ plugged /\ ~Present
        /\ \E crtc \in Crtcs \ {drm.crtcs[1]} : ext' = [crtc |-> crtc, on |-> TRUE]
        /\ UNCHANGED <<entry, lease, crtcOf>>
     \/ /\ ~plugged /\ Present
        /\ ext' = [crtc |-> 0, on |-> FALSE]
        /\ entry' = NoEntry
        /\ lease' = IF entry.active THEN NoLease ELSE lease
        /\ \E left \in BOOLEAN :
             crtcOf' = [p \in Planes |-> IF crtcOf[p] = ext.crtc /\ ~left THEN 0
                                         ELSE crtcOf[p]]
     \/ /\ plugged = Present \/ Len(drm.crtcs) = 1
        /\ UNCHANGED <<ext, entry, lease, crtcOf>>
  /\ pending' = FALSE
  /\ Return(t)
  /\ UNCHANGED <<boot, session, plugged, clean, sanitize>>

----------------------------------------------------------------------------
(* SurfaceFlinger, the lessee and the connector.                           *)

\* PresentDisplay: a secure session that starts takes the lease back.
HandleSecureSession ==
  /\ At("surfaceflinger", "secure")
  /\ \E secure \in BOOLEAN :
       todo' = [todo EXCEPT !["surfaceflinger"] =
                  IF secure /\ state = "LEASED" THEN ReleasePath \o Tail(@) ELSE Tail(@)]
  /\ UNCHANGED <<boot, owner, session, pending, display, entry, lease, planes, sanitize>>

\* The CRTC of the display that SurfaceFlinger has locked, and the planes it
\* may be given: no plane of the other display, unless that one is paused.
Committing == IF owner["external"] = "surfaceflinger" THEN ext.crtc ELSE drm.crtcs[1]
Available == {p \in pipes : \/ crtcOf[p] \in {0, Committing}
                            \/ Committing = drm.crtcs[1] /\ (crtcOf[p] # ext.crtc \/ ~ext.on)}

\* The commit of a display that is there and not paused.
Commit ==
  /\ At("surfaceflinger", "commit")
  /\ IF owner["external"] = "surfaceflinger" /\ ~(Present /\ ext.on)
       THEN UNCHANGED planes
       ELSE \E used \in SUBSET Available :
              /\ crtcOf' = [p \in Planes |-> IF p \in used THEN Committing
                                             ELSE IF crtcOf[p] = Committing THEN 0
                                             ELSE crtcOf[p]]
              /\ clean' = clean \ used
  /\ Return("surfaceflinger")
  /\ UNCHANGED <<boot, session, pending, display, entry, lease, sanitize>>

\* The lessee shows a picture on its CRTC with its plane.
Scanout ==
  /\ lease # NoLease
  /\ crtcOf' = [crtcOf EXCEPT ![lease.plane] = lease.crtc]
  /\ UNCHANGED <<boot, owner, todo, session, pending, display, entry, lease, clean, sanitize>>

\* The connector changes and the hotplug thread gets its uevent.  Bound: one
\* event at a time.
Plug ==
  /\ todo["uevent"] = <<>>
  /\ plugged' = ~plugged
  /\ todo' = [todo EXCEPT !["uevent"] = HotplugPath]
  /\ UNCHANGED <<boot, owner, session, pending, ext, entry, lease, planes, sanitize>>

----------------------------------------------------------------------------

Init ==
  /\ drm \in Topologies
  /\ \E readable \in Readable(Planes) : reserved = ReservePlane(drm, readable)
  /\ pipes = AllocatorPipes(drm, reserved)
  /\ owner = [m \in Mutex |-> "none"]
  /\ todo = [t \in Thread |-> <<>>]
  /\ state = "ANDROID" /\ phase = 0 /\ pending = FALSE
  /\ plugged = FALSE
  /\ ext = [crtc |-> 0, on |-> FALSE]
  /\ entry = NoEntry /\ lease = NoLease
  /\ crtcOf = [p \in Planes |-> 0]
  /\ clean = {}
  /\ targets = {} /\ skipped = {}

\* The release and the status use the display they saw before they locked it:
\* when the hotplug thread destroyed it meanwhile, the composer dies and is
\* started again.  The kernel drops the lease; planes stay as they are.
NullDisplay ==
  /\ ~Present /\ \E t \in Thread : At(t, "restore") \/ At(t, "report")
  /\ \E readable \in Readable(Planes) : reserved' = ReservePlane(drm, readable)
  /\ pipes' = AllocatorPipes(drm, reserved')
  /\ owner' = [m \in Mutex |-> "none"] /\ todo' = [t \in Thread |-> <<>>]
  /\ ResetTransition /\ pending' = FALSE
  /\ entry' = NoEntry /\ lease' = NoLease
  /\ clean' = {} /\ targets' = {} /\ skipped' = {}
  /\ UNCHANGED <<drm, display, crtcOf>>

ServerRequest ==
  \E path \in {StatusPath, PreparePath, PausePath, CreatePath, ServerReleasePath} :
    Begin("server", path)

Batch ==
  \E d \in {"builtin"} \cup (IF Present THEN {"external"} ELSE {}) :
    Begin("surfaceflinger", BatchPath(d))

Server ==
  \/ ServerRequest \/ Status \/ Find \/ Report
  \/ BeginPrepare \/ Select \/ PrepareLease
  \/ CheckSequence("sequence_pause", 1) \/ PauseDisplay
  \/ CheckSequence("sequence_create", 2) \/ ResolvePlane \/ ListPlanes \/ ResetPlanes
  \/ VerifyPlanes \/ CreateLease
  \/ ProcessPending

Shared(t) ==
  \/ Acquire(t) \/ Free(t) \/ BeginRelease(t) \/ RestoreDisplay(t) \/ Gate(t)
  \/ HandlePluggableDisplays(t)

Next ==
  \/ Server
  \/ Batch \/ HandleSecureSession \/ Commit
  \/ \E t \in Thread : Shared(t)
  \/ NullDisplay \/ Scanout \/ Plug

Spec == Init /\ [][Next]_vars

----------------------------------------------------------------------------
(* Properties.                                                             *)

TypeOK ==
  /\ drm \in Topologies
  /\ reserved \in Planes \cup {0} /\ pipes \subseteq drm.pipes
  /\ owner \in [Mutex -> Thread \cup {"none"}]
  /\ \A t \in Thread : \A i \in 1 .. Len(todo[t]) : todo[t][i].op \in {"lock", "unlock", "run"}
  /\ state \in {"ANDROID", "DRAINING", "LEASED", "RESTORING", "ERROR"}
  /\ phase \in 0 .. 3 /\ pending \in BOOLEAN /\ plugged \in BOOLEAN
  /\ ext \in [crtc : Crtcs \cup {0}, on : BOOLEAN]
  /\ entry \in [plane : Planes \cup {0}, active : BOOLEAN]
  /\ lease \in [crtc : Crtcs \cup {0}, plane : Planes \cup {0}]
  /\ crtcOf \in [Planes -> Crtcs \cup {0}]
  /\ clean \subseteq Planes /\ targets \subseteq Planes /\ skipped \subseteq Planes

\* The threads of S wait for each other, or one of them for itself.
WaitingForEachOther(S) ==
  \A t \in S : todo[t] # <<>> /\ Next1(t).op = "lock" /\ owner[Next1(t).arg] \in S

\* No threads ever wait for each other in a circle.  A release from inside a
\* SurfaceFlinger batch, the final handoff, the status call and a hotplug take
\* the same five mutexes, each on a path of its own (AcquireHdmiLease's order
\* command_seq_mutex_ before hdmi_lease_mutex_, the short scope of
\* pluggable_handler_lock_).
NoCircularWait == \A S \in (SUBSET Thread) \ {{}} : ~WaitingForEachOther(S)

\* While a lease is live the lessee has its CRTC and its plane for itself: no
\* plane of Android's scans out to the CRTC, and neither the leased plane nor a
\* virtual plane on the same pipe is in the allocator's hands
\* (GetHWPlanesInfo's reservation, the checks of PREPARE and CREATE, and
\* SanitizeExternalPlanesForLease together).
LeaseExclusive ==
  lease # NoLease =>
    /\ \A p \in Planes : crtcOf[p] = lease.crtc => p = lease.plane
    /\ \A p \in pipes : lease.plane \notin {p, drm.master[p]}

\* A lease starts from a clean plane: at drmModeCreateLease nothing is attached
\* to the CRTC, the plane is on no CRTC and has none of Android's private state,
\* except when the driver would not even list its optional properties.
CleanHandoff ==
  [][lease = NoLease /\ lease' # NoLease =>
       /\ \A p \in Planes : crtcOf[p] # lease'.crtc
       /\ crtcOf[lease'.plane] = 0
       /\ lease'.plane \in clean \cup skipped]_vars

\* Cleaning takes no plane from another display: SurfaceFlinger cannot move a
\* plane between the listing and the commit of SanitizeExternalPlanesForLease
\* (command_seq_mutex_ is held over both).
SanitizeKeepsOthers ==
  [][ResetPlanes => \A p \in Planes : crtcOf[p] \notin {0, ext.crtc} => crtcOf'[p] = crtcOf[p]]_vars
====
