------------------------ MODULE ComposerLeaseProofs ------------------------
(***************************************************************************)
(* Proofs about ComposerLease, for any number of displays, any bound on    *)
(* the uevent queue and any deadline.                                      *)
(***************************************************************************)
EXTENDS ComposerLease, TLAPS

\* The takeover state, its phase and its display agree, and a thread that is
\* inside an operation finds the state the operation left.
SessionConsistent ==
  /\ state = "ANDROID" => phase = None /\ idx = NoDisplay
  /\ state # "ANDROID" /\ srv # "selected" => idx \in Displays /\ phase # None
  /\ srv = "selected" => state = "DRAINING" /\ phase = None /\ idx = NoDisplay
  /\ srv = "reading" => sel \in Displays
  /\ state = "DRAINING" => phase # Create
  /\ state = "LEASED" => phase = Create
  /\ state = "RESTORING" <=> (srv = "restoring" \/ sf = "restoring")
  /\ sf = "restoring" => srv \notin {"selected", "restoring", "reading"}

\* Lease bookkeeping exists only for the display of the takeover; it becomes
\* a lease with the last phase, and is gone when a failed release is reported.
SidecarConsistent ==
  \A d \in Displays : sidecar[d] # "none" =>
    /\ idx = d /\ disp[d] # "absent" /\ state # "ERROR"
    /\ sidecar[d] = "active" <=> phase = Create

\* A live lease is known to HWDeviceDRM and Android's updates are paused,
\* provided that drmModeRevokeLease works.
KernelConsistent ==
  "revoke" \notin Faults => \A d \in kernel : sidecar[d] = "active" /\ disp[d] = "paused"

\* A takeover beyond the selection of its display has a deadline, and the
\* server thread only clears the deadline after a release.
DeadlineConsistent ==
  /\ state \in {"DRAINING", "LEASED"} /\ srv # "selected" => deadline <= Failsafe
  /\ srv = "released" => state \notin {"DRAINING", "LEASED"}

QueueConsistent == ue # "idle" => uevents # <<>>

LeaseInv ==
  /\ SessionConsistent /\ SidecarConsistent /\ KernelConsistent
  /\ DeadlineConsistent /\ QueueConsistent
  /\ SecureNeverLeased

----------------------------------------------------------------------------
(* Types.                                                                  *)

\* The Boolean variables of TypeOK, and the others.
Flags ==
  /\ pending \in BOOLEAN /\ secure \in BOOLEAN /\ inbox \in BOOLEAN /\ backlog \in BOOLEAN
  /\ continuous \in BOOLEAN /\ running \in BOOLEAN

Typed ==
  /\ state \in {"ANDROID", "DRAINING", "LEASED", "RESTORING", "ERROR"}
  /\ phase \in None .. Create
  /\ idx \in Displays \cup {NoDisplay}
  /\ disp \in [Displays -> {"absent", "active", "paused"}]
  /\ sidecar \in [Displays -> {"none", "prepared", "active"}]
  /\ kernel \in SUBSET Displays
  /\ plugged \in SUBSET Displays
  /\ client \in {"none", "open", "hup"}
  /\ deadline \in 0 .. Off
  /\ notice \in {"none", "connected", "disconnected"}
  /\ srv \in {"poll", "status", "reading", "reported", "deadline", "recv", "selected",
              "respond", "hup", "release", "restoring", "released", "stopped"}
  /\ ret \in {"none", "connected", "disconnected", "answer", "renew", "acquired", "timeout",
              "request", "undelivered", "lost", "exit"}
  /\ revents \in SUBSET {"in", "hup"}
  /\ sel \in Displays \cup {NoDisplay}
  /\ seen \in {"ANDROID", "DRAINING", "LEASED", "RESTORING", "ERROR"}
  /\ sf \in {"idle", "release", "restoring"}
  /\ ue \in {"idle", "handle", "notify"}
  /\ uevents \in Seq({"connected", "disconnected"})
  /\ QueueConsistent

\* What the restoration of ReleaseHdmiLease does to each variable, without the
\* results of the driver calls.
LEMMA RestoreEffect ==
  ASSUME Restore
  PROVE  /\ disp' \in {[disp EXCEPT ![idx] = s] : s \in {"active", "paused", disp[idx]}}
         /\ phase = Create => /\ sidecar' = [sidecar EXCEPT ![idx] = "none"]
                              /\ \E first \in AfterRevoke({idx}, kernel) :
                                   kernel' \in AfterRevoke({idx}, first)
         /\ phase # Create => AbortPreparation(idx) /\ kernel' = kernel
         /\ ResetTransition \/ (state' = "ERROR" /\ phase' = phase /\ idx' = idx)
<1> PICK reset \in Outcome("reset"), resumed \in Outcome("screen") :
      /\ \E screen \in IF phase >= Pause /\ idx \in plugged THEN ScreenAfter("active", resumed)
                       ELSE {disp[idx]} :
           disp' = [disp EXCEPT ![idx] = screen]
      /\ IF phase = Create
           THEN \E first \in AfterRevoke({idx}, kernel) :
                  /\ kernel' \in AfterRevoke({idx}, first)
                  /\ sidecar' = [sidecar EXCEPT ![idx] = "none"]
                  /\ Settle(/\ ~(sidecar[idx] = "active" /\ idx \in first)
                            /\ reset \/ sidecar[idx] = "none"
                            /\ resumed, idx \in plugged)
           ELSE /\ AbortPreparation(idx)
                /\ Settle(sidecar[idx] # "active" /\ (resumed \/ phase < Pause),
                          idx \in plugged)
                /\ UNCHANGED kernel
  BY ZenonT(60) DEF Restore
<1>1. PICK screen \in IF phase >= Pause /\ idx \in plugged THEN ScreenAfter("active", resumed)
                       ELSE {disp[idx]} :
           disp' = [disp EXCEPT ![idx] = screen]
  BY ZenonT(60)
<1>2. screen \in {"active", "paused", disp[idx]}
  BY <1>1, Zenon DEF ScreenAfter
<1>3. disp' \in {[disp EXCEPT ![idx] = s] : s \in {"active", "paused", disp[idx]}}
  BY <1>1, <1>2, ZenonT(60)
<1>4. phase = Create => /\ sidecar' = [sidecar EXCEPT ![idx] = "none"]
                              /\ \E first \in AfterRevoke({idx}, kernel) :
                                   kernel' \in AfterRevoke({idx}, first)
  BY ZenonT(60)
<1>5. phase # Create => AbortPreparation(idx) /\ kernel' = kernel
  OBVIOUS
<1>6. ResetTransition \/ (state' = "ERROR" /\ phase' = phase /\ idx' = idx)
  BY Zenon DEF Settle
<1> QED
  BY <1>3, <1>4, <1>5, <1>6

\* Every step keeps the Boolean variables Boolean.
LEMMA FlagsStep == Flags /\ [Next]_vars => Flags'
<1> SUFFICES ASSUME Flags, [Next]_vars PROVE Flags'
  OBVIOUS
<1> USE DEF Flags, session, hardware, socket, watchdog, server, others
<1>1. CASE Poll
  BY <1>1, Zenon DEF Poll
<1>2. CASE GetStatus
  BY <1>2, Zenon DEF GetStatus, LeaseMutexFree, Present
<1>3. CASE FinishStatus
  BY <1>3, Zenon DEF FinishStatus
<1>4. CASE SendEvent
  BY <1>4, Zenon DEF SendEvent, BackstopDeadline
<1>5. CASE Expire
  BY <1>5, Zenon DEF Expire
<1>6. CASE Accept
  BY <1>6, Zenon DEF Accept
<1>7. CASE RecvFails
  BY <1>7, Zenon DEF RecvFails, Disconnect
<1>8. CASE HandleRequest
  BY <1>8, ZenonT(60)
     DEF HandleRequest, Receive, Requests, HandleStatus, HandleRelease, HandleProtocolError,
         HandlePrepare, AcquirePrepare, LeaseMutexFree, Present, HandleStaged, AcquireStaged,
         TakeoverForbidden, AbandonTakeover, PauseUpdates, CreateLease, AbortPreparation,
         ScreenAfter, Outcome, ResetTransition
<1>9. CASE FinishPrepare
  BY <1>9, Zenon DEF FinishPrepare, ResetTransition
<1>10. CASE FinishPing
  BY <1>10, Zenon DEF FinishPing, AfterPing
<1>11. CASE Respond
  BY <1>11, Zenon DEF Respond, Disconnect
<1>12. CASE CheckHangup
  BY <1>12, Zenon DEF CheckHangup, Disconnect
<1>13. CASE ServerRelease
  BY <1>13, Zenon DEF ServerRelease, LeaseMutexFree, BeginRelease, Settle, ResetTransition
<1>14. CASE ServerRestore
  BY <1>14, Zenon
     DEF ServerRestore, Restore, Settle, ResetTransition, AbortPreparation, ScreenAfter,
         AfterRevoke, Outcome
<1>15. CASE AfterRelease
  BY <1>15, Zenon
     DEF AfterRelease, HandlePluggableDisplays, DeinitRevokes, AfterRevoke, Present,
         Disconnect
<1>16. CASE UEventHandler
  BY <1>16, Zenon DEF UEventHandler, NotifyHotplug
<1>17. CASE UEventHandle
  BY <1>17, Zenon DEF UEventHandle, HandlePluggableDisplays, DeinitRevokes, AfterRevoke, Present
<1>18. CASE UEventNotify
  BY <1>18, Zenon DEF UEventNotify, NotifyHotplug
<1>19. CASE PresentRelease
  BY <1>19, Zenon DEF PresentRelease, LeaseMutexFree, BeginRelease, Settle, ResetTransition
<1>20. CASE PresentRestore
  BY <1>20, Zenon
     DEF PresentRestore, Restore, Settle, ResetTransition, AbortPreparation, ScreenAfter,
         AfterRevoke, Outcome
<1>21. CASE NullDisplay
  BY <1>21, Zenon DEF NullDisplay, Restart, ResetTransition
<1>22. CASE PresentDisplay
  BY <1>22, Zenon DEF PresentDisplay
<1>23. CASE Deinit
  BY <1>23, Zenon DEF Deinit
<1>24. CASE Exit
  BY <1>24, Zenon DEF Exit, Restart, ResetTransition
<1>25. CASE Crash
  BY <1>25, Zenon DEF Crash, Restart, ResetTransition
<1>26. CASE Connect
  BY <1>26, Zenon DEF Connect
<1>27. CASE Send
  BY <1>27, Zenon DEF Send
<1>28. CASE HangUp
  BY <1>28, Zenon DEF HangUp
<1>29. CASE Tick
  BY <1>29, Zenon DEF Tick
<1>30. ASSUME NEW d \in Displays, Plug(d) PROVE Flags'
  BY <1>30, Zenon DEF Plug
<1>31. ASSUME NEW d \in Displays, LesseeExit(d) PROVE Flags'
  BY <1>31, Zenon DEF LesseeExit
<1>32. CASE UNCHANGED vars
  BY <1>32, ZenonT(60) DEF vars
<1> QED
  BY <1>1, <1>2, <1>3, <1>4, <1>5, <1>6, <1>7, <1>8, <1>9, <1>10, <1>11, <1>12, <1>13,
     <1>14, <1>15, <1>16, <1>17, <1>18, <1>19, <1>20, <1>21, <1>22, <1>23, <1>24, <1>25,
     <1>26, <1>27, <1>28, <1>29, <1>30, <1>31, <1>32, ZenonT(60)
     DEF Next, ServerStep, UEventStep, PresentStep, Environment

\* Every step keeps the other types; the uevent thread never reads an empty queue.
LEMMA TypedStep == Typed /\ [Next]_vars => Typed'
<1> SUFFICES ASSUME Typed, [Next]_vars PROVE Typed'
  OBVIOUS
<1> USE ComposerAssumptions
   DEF Typed, QueueConsistent, None, Prepare, Pause, Create, Off, session, hardware, socket,
       watchdog, server, others
<1>1. CASE Poll
  BY <1>1, SMT DEF Poll
<1>2. CASE GetStatus
  BY <1>2, SMT DEF GetStatus, LeaseMutexFree, Present
<1>3. CASE FinishStatus
  BY <1>3, SMT DEF FinishStatus
<1>4. CASE SendEvent
  BY <1>4, SMT DEF SendEvent, BackstopDeadline
<1>5. CASE Expire
  BY <1>5, SMT DEF Expire
<1>6. CASE Accept
  BY <1>6, SMT DEF Accept
<1>7. CASE RecvFails
  BY <1>7, SMTT(60) DEF RecvFails, Disconnect
<1>8. CASE HandleRequest
  <2>1. PICK r \in Requests : \/ HandleStatus(r) \/ HandleRelease(r) \/ HandleProtocolError(r)
                             \/ HandlePrepare(r) \/ HandleStaged(r)
    BY <1>8 DEF HandleRequest
  <2>2. Receive
    BY <1>8 DEF HandleRequest
  <2>3. CASE HandleStatus(r)
    BY <2>2, <2>3, SMT DEF Receive, HandleStatus
  <2>4. CASE HandleRelease(r)
    BY <2>2, <2>4, SMT DEF Receive, HandleRelease
  <2>5. CASE HandleProtocolError(r)
    BY <2>2, <2>5, SMT DEF Receive, HandleProtocolError
  <2>6. CASE HandlePrepare(r)
    BY <2>2, <2>6, SMTT(60) DEF Receive, HandlePrepare, AcquirePrepare, LeaseMutexFree, Present
  <2>7. CASE HandleStaged(r)
    <3> DEFINE Proceeds == state = "DRAINING" /\ phase = r.phase - 1 /\ idx # NoDisplay
               Allowed == Proceeds /\ disp[idx] # "absent" /\ ~secure
    <3>1. \/ ret' = "answer" /\ UNCHANGED <<session, hardware, deadline>>
          \/ Proceeds /\ AbandonTakeover
          \/ Allowed /\ r.phase = Pause /\ PauseUpdates
          \/ Allowed /\ r.phase = Create /\ CreateLease
      BY <2>7, Zenon DEF HandleStaged, AcquireStaged, TakeoverForbidden
    <3>2. /\ srv' = "respond" /\ LeaseMutexFree /\ UNCHANGED <<continuous, sel>>
          /\ r.phase = Create => sf = "idle"
      BY <2>7, Zenon DEF HandleStaged, AcquireStaged
    <3> HIDE DEF Proceeds, Allowed
    <3>3. CASE ret' = "answer" /\ UNCHANGED <<session, hardware, deadline>>
      BY <2>2, <3>2, <3>3, SMT DEF Receive, LeaseMutexFree
    <3>4. CASE Proceeds /\ AbandonTakeover
      BY <2>2, <3>2, <3>4, SMT
         DEF Receive, LeaseMutexFree, Proceeds, AbandonTakeover, AbortPreparation,
             ScreenAfter, Outcome, ResetTransition
    <3>5. CASE Allowed /\ r.phase = Pause /\ PauseUpdates
      BY <2>2, <3>2, <3>5, SMT
         DEF Receive, LeaseMutexFree, Allowed, Proceeds, PauseUpdates, AbortPreparation,
             ScreenAfter, Outcome, ResetTransition
    <3>6. CASE Allowed /\ r.phase = Create /\ CreateLease
      BY <2>2, <3>2, <3>6, SMT
         DEF Receive, LeaseMutexFree, Allowed, Proceeds, CreateLease, AbortPreparation,
             ScreenAfter, Outcome, ResetTransition
    <3> QED
      BY <3>1, <3>3, <3>4, <3>5, <3>6
  <2> QED
    BY <2>1, <2>3, <2>4, <2>5, <2>6, <2>7
<1>9. CASE FinishPrepare
  BY <1>9, SMT DEF FinishPrepare, ResetTransition
<1>10. CASE FinishPing
  BY <1>10, SMT DEF FinishPing, AfterPing
<1>11. CASE Respond
  BY <1>11, SMT DEF Respond, Disconnect
<1>12. CASE CheckHangup
  <2>1. CASE Disconnect /\ UNCHANGED revents
    BY <1>12, <2>1, SMT DEF CheckHangup, Disconnect
  <2>2. CASE srv' = "poll" /\ ret' = "none" /\ revents' = {} /\ UNCHANGED <<client, inbox>>
    BY <1>12, <2>2, SMT DEF CheckHangup
  <2> QED
    BY <1>12, <2>1, <2>2 DEF CheckHangup
<1>13. CASE ServerRelease
  <2>1. \/ srv' = "released" /\ state = "ANDROID" /\ UNCHANGED session
        \/ srv' = "released" /\ ResetTransition /\ (idx = NoDisplay \/ disp[idx] = "absent")
        \/ srv' = "restoring" /\ state' = "RESTORING" /\ idx # NoDisplay
           /\ UNCHANGED <<phase, idx>>
    BY <1>13, Zenon DEF ServerRelease, BeginRelease, Settle
  <2> QED
    BY <1>13, <2>1, SMT DEF ServerRelease, LeaseMutexFree, ResetTransition
<1>14. CASE ServerRestore
  BY <1>14, RestoreEffect, SMT DEF ServerRestore, ResetTransition, AbortPreparation, AfterRevoke
<1>15. CASE AfterRelease
  BY <1>15, SMT
     DEF AfterRelease, HandlePluggableDisplays, DeinitRevokes, AfterRevoke, Present,
         Disconnect
<1>16. CASE UEventHandler
  BY <1>16, SMTT(60) DEF UEventHandler, NotifyHotplug
<1>17. CASE UEventHandle
  BY <1>17, SMT DEF UEventHandle, HandlePluggableDisplays, DeinitRevokes, AfterRevoke, Present
<1>18. CASE UEventNotify
  BY <1>18, SMT DEF UEventNotify, NotifyHotplug
<1>19. CASE PresentRelease
  <2>1. \/ sf' = "idle" /\ state = "ANDROID" /\ UNCHANGED session
        \/ sf' = "idle" /\ ResetTransition /\ (idx = NoDisplay \/ disp[idx] = "absent")
        \/ sf' = "restoring" /\ state' = "RESTORING" /\ idx # NoDisplay
           /\ UNCHANGED <<phase, idx>>
    BY <1>19, Zenon DEF PresentRelease, BeginRelease, Settle
  <2> QED
    BY <1>19, <2>1, SMT DEF PresentRelease, LeaseMutexFree, ResetTransition
<1>20. CASE PresentRestore
  BY <1>20, RestoreEffect, SMTT(60)
     DEF PresentRestore, ResetTransition, AbortPreparation, AfterRevoke
<1>21. CASE NullDisplay
  BY <1>21, SMT DEF NullDisplay, Restart, ResetTransition
<1>22. CASE PresentDisplay
  BY <1>22, SMT DEF PresentDisplay
<1>23. CASE Deinit
  BY <1>23, SMT DEF Deinit
<1>24. CASE Exit
  BY <1>24, SMT DEF Exit, Restart, ResetTransition
<1>25. CASE Crash
  BY <1>25, SMT DEF Crash, Restart, ResetTransition
<1>26. CASE Connect
  BY <1>26, SMT DEF Connect
<1>27. CASE Send
  BY <1>27, SMT DEF Send
<1>28. CASE HangUp
  BY <1>28, SMT DEF HangUp
<1>29. CASE Tick
  BY <1>29, SMT DEF Tick
<1>30. ASSUME NEW d \in Displays, Plug(d) PROVE Typed'
  BY <1>30, SMTT(60) DEF Plug
<1>31. ASSUME NEW d \in Displays, LesseeExit(d) PROVE Typed'
  BY <1>31, SMT DEF LesseeExit
<1>32. CASE UNCHANGED vars
  BY <1>32, SMT DEF vars
<1> QED
  BY <1>1, <1>2, <1>3, <1>4, <1>5, <1>6, <1>7, <1>8, <1>9, <1>10, <1>11, <1>12, <1>13,
     <1>14, <1>15, <1>16, <1>17, <1>18, <1>19, <1>20, <1>21, <1>22, <1>23, <1>24, <1>25,
     <1>26, <1>27, <1>28, <1>29, <1>30, <1>31, <1>32, ZenonT(60)
     DEF Next, ServerStep, UEventStep, PresentStep, Environment

----------------------------------------------------------------------------
(* The inductive invariant.                                                *)

\* Every step of every thread keeps LeaseInv.
LEMMA LeaseInvStep == Typed /\ LeaseInv /\ [Next]_vars => LeaseInv'
<1> SUFFICES ASSUME Typed, LeaseInv, [Next]_vars PROVE LeaseInv'
  OBVIOUS
<1> USE ComposerAssumptions
   DEF Typed, LeaseInv, SessionConsistent, SidecarConsistent, KernelConsistent,
        DeadlineConsistent, QueueConsistent, SecureNeverLeased, None, Prepare, Pause, Create, Off,
        session, hardware, socket, watchdog, server, others
<1>1. CASE Poll
  BY <1>1, SMT DEF Poll
<1>2. CASE GetStatus
  BY <1>2, SMT DEF GetStatus, LeaseMutexFree, Present
<1>3. CASE FinishStatus
  BY <1>3, SMT DEF FinishStatus
<1>4. CASE SendEvent
  BY <1>4, SMT DEF SendEvent, BackstopDeadline
<1>5. CASE Expire
  BY <1>5, SMT DEF Expire
<1>6. CASE Accept
  BY <1>6, SMT DEF Accept
<1>7. CASE RecvFails
  BY <1>7, SMTT(60) DEF RecvFails, Disconnect
<1>8. CASE HandleRequest
  <2>1. PICK r \in Requests : \/ HandleStatus(r) \/ HandleRelease(r) \/ HandleProtocolError(r)
                             \/ HandlePrepare(r) \/ HandleStaged(r)
    BY <1>8 DEF HandleRequest
  <2>2. Receive
    BY <1>8 DEF HandleRequest
  <2>3. CASE HandleStatus(r)
    BY <2>2, <2>3, SMT DEF Receive, HandleStatus
  <2>4. CASE HandleRelease(r)
    BY <2>2, <2>4, SMT DEF Receive, HandleRelease
  <2>5. CASE HandleProtocolError(r)
    BY <2>2, <2>5, SMTT(60) DEF Receive, HandleProtocolError
  <2>6. CASE HandlePrepare(r)
    BY <2>2, <2>6, SMTT(60) DEF Receive, HandlePrepare, AcquirePrepare, LeaseMutexFree, Present
  <2>7. CASE HandleStaged(r)
    <3> DEFINE Proceeds == state = "DRAINING" /\ phase = r.phase - 1 /\ idx # NoDisplay
               Allowed == Proceeds /\ disp[idx] # "absent" /\ ~secure
    <3>1. \/ ret' = "answer" /\ UNCHANGED <<session, hardware, deadline>>
          \/ Proceeds /\ AbandonTakeover
          \/ Allowed /\ r.phase = Pause /\ PauseUpdates
          \/ Allowed /\ r.phase = Create /\ CreateLease
      BY <2>7, Zenon DEF HandleStaged, AcquireStaged, TakeoverForbidden
    <3>2. /\ srv' = "respond" /\ LeaseMutexFree /\ UNCHANGED <<continuous, sel>>
          /\ r.phase = Create => sf = "idle"
      BY <2>7, ZenonT(60) DEF HandleStaged, AcquireStaged
    <3> HIDE DEF Proceeds, Allowed
    <3>3. CASE ret' = "answer" /\ UNCHANGED <<session, hardware, deadline>>
      BY <2>2, <3>2, <3>3, SMTT(60) DEF Receive, LeaseMutexFree
    <3>4. CASE Proceeds /\ AbandonTakeover
      BY <2>2, <3>2, <3>4, SMTT(60)
         DEF Receive, LeaseMutexFree, Proceeds, AbandonTakeover, AbortPreparation,
             ScreenAfter, Outcome, ResetTransition
    <3>5. CASE Allowed /\ r.phase = Pause /\ PauseUpdates
      BY <2>2, <3>2, <3>5, SMTT(60)
         DEF Receive, LeaseMutexFree, Allowed, Proceeds, PauseUpdates, AbortPreparation,
             ScreenAfter, Outcome, ResetTransition
    <3>6. CASE Allowed /\ r.phase = Create /\ CreateLease
      BY <2>2, <3>2, <3>6, SMTT(60)
         DEF Receive, LeaseMutexFree, Allowed, Proceeds, CreateLease, AbortPreparation,
             ScreenAfter, Outcome, ResetTransition
    <3> QED
      BY <3>1, <3>3, <3>4, <3>5, <3>6, ZenonT(60)
  <2> QED
    BY <2>1, <2>3, <2>4, <2>5, <2>6, <2>7, ZenonT(60)
<1>9. CASE FinishPrepare
  BY <1>9, SMT DEF FinishPrepare, ResetTransition
<1>10. CASE FinishPing
  BY <1>10, SMTT(60) DEF FinishPing, AfterPing
<1>11. CASE Respond
  BY <1>11, SMTT(60) DEF Respond, Disconnect
<1>12. CASE CheckHangup
  <2>1. CASE Disconnect /\ UNCHANGED revents
    BY <1>12, <2>1, SMTT(60) DEF CheckHangup, Disconnect
  <2>2. CASE srv' = "poll" /\ ret' = "none" /\ revents' = {} /\ UNCHANGED <<client, inbox>>
    BY <1>12, <2>2, SMTT(60) DEF CheckHangup
  <2> QED
    BY <1>12, <2>1, <2>2, ZenonT(60) DEF CheckHangup
<1>13. CASE ServerRelease
  <2>1. \/ srv' = "released" /\ state = "ANDROID" /\ UNCHANGED session
        \/ srv' = "released" /\ ResetTransition /\ (idx = NoDisplay \/ disp[idx] = "absent")
        \/ srv' = "restoring" /\ state' = "RESTORING" /\ idx # NoDisplay
           /\ UNCHANGED <<phase, idx>>
    BY <1>13, ZenonT(60) DEF ServerRelease, BeginRelease, Settle
  <2> QED
    BY <1>13, <2>1, SMT DEF ServerRelease, LeaseMutexFree, ResetTransition
<1>14. CASE ServerRestore
  BY <1>14, RestoreEffect, SMTT(60) DEF ServerRestore, ResetTransition, AbortPreparation, AfterRevoke
<1>15. CASE AfterRelease
  BY <1>15, SMTT(60)
     DEF AfterRelease, HandlePluggableDisplays, DeinitRevokes, AfterRevoke, Present,
         Disconnect
<1>16. CASE UEventHandler
  BY <1>16, SMTT(60) DEF UEventHandler, NotifyHotplug
<1>17. CASE UEventHandle
  BY <1>17, SMTT(60) DEF UEventHandle, HandlePluggableDisplays, DeinitRevokes, AfterRevoke, Present
<1>18. CASE UEventNotify
  BY <1>18, SMTT(60) DEF UEventNotify, NotifyHotplug
<1>19. CASE PresentRelease
  <2>1. \/ sf' = "idle" /\ state = "ANDROID" /\ UNCHANGED session
        \/ sf' = "idle" /\ ResetTransition /\ (idx = NoDisplay \/ disp[idx] = "absent")
        \/ sf' = "restoring" /\ state' = "RESTORING" /\ idx # NoDisplay
           /\ UNCHANGED <<phase, idx>>
    BY <1>19, ZenonT(60) DEF PresentRelease, BeginRelease, Settle
  <2> QED
    BY <1>19, <2>1, SMT DEF PresentRelease, LeaseMutexFree, ResetTransition
<1>20. CASE PresentRestore
  BY <1>20, RestoreEffect, SMTT(60)
     DEF PresentRestore, ResetTransition, AbortPreparation, AfterRevoke
<1>21. CASE NullDisplay
  BY <1>21, ZenonT(60) DEF NullDisplay, Restart, ResetTransition
<1>22. CASE PresentDisplay
  BY <1>22, ZenonT(60) DEF PresentDisplay
<1>23. CASE Deinit
  BY <1>23, SMTT(60) DEF Deinit
<1>24. CASE Exit
  BY <1>24, SMTT(60) DEF Exit, Restart, ResetTransition
<1>25. CASE Crash
  BY <1>25, SMTT(60) DEF Crash, Restart, ResetTransition
<1>26. CASE Connect
  BY <1>26, SMTT(60) DEF Connect
<1>27. CASE Send
  BY <1>27, SMTT(60) DEF Send
<1>28. CASE HangUp
  BY <1>28, SMTT(60) DEF HangUp
<1>29. CASE Tick
  BY <1>29, SMTT(60) DEF Tick
<1>30. ASSUME NEW d \in Displays, Plug(d) PROVE LeaseInv'
  BY <1>30, SMTT(60) DEF Plug
<1>31. ASSUME NEW d \in Displays, LesseeExit(d) PROVE LeaseInv'
  BY <1>31, SMTT(60) DEF LesseeExit
<1>32. CASE UNCHANGED vars
  BY <1>32, SMTT(60) DEF vars
<1> QED
  BY <1>1, <1>2, <1>3, <1>4, <1>5, <1>6, <1>7, <1>8, <1>9, <1>10, <1>11, <1>12, <1>13,
     <1>14, <1>15, <1>16, <1>17, <1>18, <1>19, <1>20, <1>21, <1>22, <1>23, <1>24, <1>25,
     <1>26, <1>27, <1>28, <1>29, <1>30, <1>31, <1>32, ZenonT(60)
     DEF Next, ServerStep, UEventStep, PresentStep, Environment


\* The set of live leases grows only when CREATE succeeds.
LEMMA LeaseGranted ==
  ASSUME Typed, [Next]_vars
  PROVE  \/ kernel' \subseteq kernel
         \/ /\ state = "DRAINING" /\ idx \in Displays /\ disp[idx] = "paused"
            /\ kernel' = kernel \cup {idx} /\ disp' = disp
<1> DEFINE Granted == /\ state = "DRAINING" /\ idx \in Displays /\ disp[idx] = "paused"
                      /\ kernel' = kernel \cup {idx} /\ disp' = disp
           Goal == kernel' \subseteq kernel \/ Granted
<1>1. CASE ServerRestore \/ PresentRestore
  <2>1. kernel' \subseteq kernel
    BY <1>1, RestoreEffect, ZenonT(60) DEF ServerRestore, PresentRestore, AfterRevoke
  <2> QED
    BY <2>1, SMTT(60)
<1>2. CASE AfterRelease \/ UEventHandle
  <2>1. kernel' \subseteq kernel
    BY <1>2, SMT
       DEF AfterRelease, UEventHandle, hardware, HandlePluggableDisplays, DeinitRevokes,
                     AfterRevoke
  <2> QED
    BY <2>1
<1>3. CASE NullDisplay \/ Exit \/ Crash
  BY <1>3 DEF NullDisplay, Exit, Crash, Restart
<1>4. ASSUME NEW d \in Displays, LesseeExit(d) PROVE Goal
  BY <1>4 DEF LesseeExit
<1>5. CASE HandleRequest
  <2>1. PICK r \in Requests : \/ HandleStatus(r) \/ HandleRelease(r) \/ HandleProtocolError(r)
                             \/ HandlePrepare(r) \/ HandleStaged(r)
    BY <1>5 DEF HandleRequest
  <2>2. CASE ~HandleStaged(r)
    BY <2>1, <2>2 DEF HandleStatus, HandleRelease, HandleProtocolError, HandlePrepare, hardware
  <2>3. CASE HandleStaged(r)
    <3>1. \/ UNCHANGED kernel
          \/ state = "DRAINING" /\ idx # NoDisplay /\ CreateLease
      BY <2>3, Zenon DEF HandleStaged, AcquireStaged, hardware, AbandonTakeover, PauseUpdates
    <3>2. CASE state = "DRAINING" /\ idx # NoDisplay /\ CreateLease
      BY <3>2, SMTT(60) DEF CreateLease, Typed
    <3> QED
      BY <3>1, <3>2
  <2> QED
    BY <2>2, <2>3
<1>6. CASE Poll \/ GetStatus \/ FinishStatus \/ SendEvent \/ Expire \/ Accept \/ RecvFails
  BY <1>6, ZenonT(60) DEF Poll, GetStatus, FinishStatus, SendEvent, Expire, Accept, RecvFails, hardware
<1>7. CASE FinishPrepare \/ FinishPing \/ Respond \/ CheckHangup \/ ServerRelease
  BY <1>7, ZenonT(60) DEF FinishPrepare, FinishPing, Respond, CheckHangup, ServerRelease, hardware
<1>8. CASE UEventHandler \/ UEventNotify \/ PresentRelease \/ PresentDisplay \/ Deinit
  BY <1>8 DEF UEventHandler, UEventNotify, PresentRelease, PresentDisplay, Deinit, hardware
<1>9. CASE Connect \/ Send \/ HangUp \/ Tick
  BY <1>9, SMTT(60) DEF Connect, Send, HangUp, Tick, hardware
<1>10. ASSUME NEW d \in Displays, Plug(d) PROVE Goal
  BY <1>10, ZenonT(60) DEF Plug, hardware
<1>11. CASE UNCHANGED vars
  BY <1>11 DEF vars, hardware
<1> QED
  BY <1>1, <1>2, <1>3, <1>4, <1>5, <1>6, <1>7, <1>8, <1>9, <1>10, <1>11, ZenonT(60)
     DEF Next, ServerStep, UEventStep, PresentStep, Environment

\* The state that HWCSession::Init leaves satisfies the invariant.
LEMMA InitInv == Init => Flags /\ Typed /\ LeaseInv
<1> SUFFICES ASSUME Init PROVE Flags /\ Typed /\ LeaseInv
  OBVIOUS
<1>1. Flags
  BY Zenon DEF Init, Flags
<1>2. Typed
  BY ComposerAssumptions, SMT DEF Init, Typed, QueueConsistent, None, Create, Off
<1>3. LeaseInv
  BY SMT DEF Init, LeaseInv, SessionConsistent, SidecarConsistent, KernelConsistent,
             DeadlineConsistent, QueueConsistent, SecureNeverLeased
<1> QED
  BY <1>1, <1>2, <1>3

\* The invariant holds in every reachable state of the composer.
THEOREM Invariance == Spec => [](Flags /\ Typed /\ LeaseInv)
<1>1. Flags /\ Typed /\ LeaseInv /\ [Next]_vars => (Flags /\ Typed /\ LeaseInv)'
  BY FlagsStep, TypedStep, LeaseInvStep
<1> QED
  BY InitInv, <1>1, PTL DEF Spec

----------------------------------------------------------------------------
(* What follows from it.                                                   *)

\* Every variable of the composer has its type: the deadline in particular is
\* within the failsafe, or off.
THEOREM TypeCorrect == Spec => []TypeOK
<1>1. Flags /\ Typed => TypeOK
  BY DEF Flags, Typed, TypeOK
<1> QED
  BY Invariance, <1>1, PTL

\* If drmModeRevokeLease works, Android never updates a display that is leased,
\* whatever the threads, the cable and the broker do (AcquireHdmiLease,
\* ReleaseHdmiLease, HWDeviceDRM::Deinit).
THEOREM Exclusion == ASSUME "revoke" \notin Faults PROVE Spec => []MutualExclusion
<1>1. LeaseInv => MutualExclusion
  BY DEF LeaseInv, KernelConsistent, MutualExclusion
<1> QED
  BY Invariance, <1>1, PTL

\* If drmModeRevokeLease works, no path of acquire, release and hotplug leaves a
\* sidecar entry or a lease behind when it returns to ANDROID.
THEOREM NothingLeftOver == ASSUME "revoke" \notin Faults PROVE Spec => []NoLeftoverReservation
<1>1. Typed /\ LeaseInv => NoLeftoverReservation
  BY ComposerAssumptions
     DEF Typed, LeaseInv, SessionConsistent, SidecarConsistent, KernelConsistent,
     NoLeftoverReservation
<1> QED
  BY Invariance, <1>1, PTL

\* HdmiLeaseServer never waits in poll() with a takeover under way and no
\* deadline, whichever calls fail.
THEOREM Watched == Spec => []WatchdogArmed
<1>1. LeaseInv => WatchdogArmed
  BY DEF LeaseInv, DeadlineConsistent, WatchdogArmed, ServerIdle
<1> QED
  BY Invariance, <1>1, PTL

\* No lease survives PresentDisplay of a secure session, whichever calls fail.
THEOREM Secured == Spec => []SecureNeverLeased
<1>1. LeaseInv => SecureNeverLeased
  BY DEF LeaseInv
<1> QED
  BY Invariance, <1>1, PTL

\* If drmModeRevokeLease works, the composer implements DisplayOwnership.
THEOREM Refinement == ASSUME "revoke" \notin Faults PROVE Spec => OwnershipRefined
<1>1. Init => Ownership!Init
  BY DEF Init, Ownership!Init
<1>2. Typed /\ LeaseInv /\ Typed' /\ LeaseInv' /\ [Next]_vars
        => [Ownership!Next]_(Ownership!ownership)
  <2> SUFFICES ASSUME Typed, LeaseInv, Typed', LeaseInv', [Next]_vars
               PROVE  Ownership!Next
    OBVIOUS
  <2>1. CASE kernel' \subseteq kernel
    <3>1. \A d \in kernel' : disp'[d] = "paused"
      BY DEF LeaseInv, KernelConsistent
    <3>2. Ownership!Adjust
      BY <2>1, <3>1, SMT DEF Ownership!Adjust
    <3> QED
      BY <3>2 DEF Ownership!Next
  <2>2. CASE /\ state = "DRAINING" /\ idx \in Displays /\ disp[idx] = "paused"
             /\ kernel' = kernel \cup {idx} /\ disp' = disp
    <3>1. kernel = {}
      BY <2>2, SMT DEF Typed, LeaseInv, SessionConsistent, SidecarConsistent, KernelConsistent
    <3>2. Ownership!Grant(idx)
      BY <2>2, <3>1, SMT DEF Ownership!Grant
    <3> QED
      BY <2>2, <3>2, SMTT(60) DEF Ownership!Next
  <2> QED
    BY <2>1, <2>2, LeaseGranted
<1> QED
  BY Invariance, <1>1, <1>2, PTL DEF Spec, OwnershipRefined, Ownership!Spec
=============================================================================
