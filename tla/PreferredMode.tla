--------------------------- MODULE PreferredMode ---------------------------
(***************************************************************************)
(* The broker's armed takeover: how hdmi-losd borrows Android's global     *)
(* preferred display mode, journals the mode it found and puts it back.    *)
(*                                                                         *)
(* The broker is one thread.  An iteration of Run is                       *)
(*     poll -> accept -> composer -> advance -> poll                       *)
(* and a call that changes Android's setting or the journal is split where *)
(* the process can die with the two out of step.  The loop acts on the     *)
(* revents of its poll, and every request to the composer first drains the *)
(* hotplug events queued on the same socket.                               *)
(*                                                                         *)
(* Start and the session it begins are one step here; BrokerSession models *)
(* them.                                                                   *)
(***************************************************************************)
EXTENDS Naturals, Sequences

CONSTANTS
  Modes,          \* the modes Android can hold; one stands for "no preference"
  Rounded,        \* a mode with its refresh rounded to a thousandth of a hertz
  NoMode,         \* there is no journal file
  StableSamples,  \* kModeStableSamples
  MaxEvents,      \* bound on the hotplug events queued for the broker
  Faults          \* what may fail: "get", "set" and "replay" for the display
                  \* commands, "journal" and "config" for writing the two files,
                  \* "read" and "unlink" for the journal that is there,
                  \* "composer" for the connection, "start" for a takeover

\* The modes that a client can ask for: they are sent in whole millihertz.
Presets == {m \in Modes : Rounded[m] = m}

ASSUME ModeAssumptions ==
  /\ NoMode \notin Modes
  /\ Rounded \in [Modes -> Modes]
  /\ \A m \in Modes : Rounded[Rounded[m]] = Rounded[m]
  /\ StableSamples \in Nat \ {0}
  /\ MaxEvents \in Nat
  /\ Faults \subseteq {"get", "set", "replay", "journal", "config", "read", "unlink",
                     "composer", "start"}

VARIABLES
  chosen,     \* the mode the user chose in Android
  pref,       \* Android's global preferred display mode
  journal,    \* kModeJournal
  config,     \* kModeConfig
  requested,  \* requested_width_, _height_, _refresh_millihz_
  armed,      \* armed_
  applied,    \* preference_applied_
  replug,     \* replug_required_
  lost,       \* composer_disconnect_pending_
  samples,    \* stable_mode_samples_
  active,     \* active_
  pc,         \* where the broker is ("down" when it does not run)
  after,      \* where it goes after the call it is in
  snapshot,   \* the mode ApplyPreferredMode read, old_width and so on
  ready,      \* fds[1].revents & POLLIN of the last poll
  link,       \* composer_fd_ >= 0
  inbox,      \* hotplug events waiting on composer_fd_
  plugged,    \* is the cable in, as the composer reports it?
  unsent      \* the composer has still to report the last change

files == <<journal, config>>
flags == <<armed, applied, replug, samples, active>>
control == <<pc, after, snapshot, ready>>
composer == <<link, inbox, lost>>
cable == <<plugged, unsent>>
vars == <<chosen, pref, files, requested, flags, control, composer, cable>>

Init ==
  /\ chosen \in Modes /\ pref = chosen
  /\ journal = NoMode
  /\ config \in Presets
  /\ requested = config
  /\ armed = FALSE /\ applied = FALSE /\ replug = FALSE /\ active = FALSE
  /\ samples = 0
  /\ pc = "down" /\ after = "poll" /\ snapshot = NoMode /\ ready = FALSE
  /\ link = FALSE /\ inbox = <<>> /\ lost = FALSE
  /\ plugged \in BOOLEAN /\ unsent = FALSE

-----------------------------------------------------------------------------
(* The composer, as this socket shows it. *)

\* A request reads the events queued before its response and caches each.  A
\* status that shows the display connected clears the pending disconnect.
LostAfterRequest(before) ==
  /\ ~plugged
  /\ IF inbox = <<>> THEN before ELSE inbox[Len(inbox)] = "disconnected"

\* EnsureComposer and the exchange: it drains the queue, or fails and closes.
Exchange(answered) ==
  /\ answered \/ "composer" \in Faults
  /\ link' = answered /\ inbox' = <<>>

\* A request that leaves a disconnect pending is reported as failed.
ComposerRequest(before, ok) ==
  \/ /\ Exchange(TRUE)
     /\ lost' = LostAfterRequest(before)
     /\ ok = ~LostAfterRequest(before)
  \/ /\ Exchange(FALSE) /\ ok = FALSE
     /\ lost' \in {before} \cup {inbox[i] = "disconnected" : i \in 1 .. Len(inbox)}

AnyRequest == \E ok \in BOOLEAN : ComposerRequest(lost, ok)

\* The user plugs or unplugs the cable.
ChangeCable ==
  /\ plugged' = ~plugged /\ unsent' = TRUE
  /\ UNCHANGED <<chosen, pref, files, requested, flags, control, composer>>

\* The composer reports the change on the connection it has, if it has one.
SendHotplug ==
  /\ unsent /\ unsent' = FALSE
  /\ Len(inbox) < MaxEvents
  /\ inbox' = IF link
              THEN Append(inbox, IF plugged THEN "connected" ELSE "disconnected")
              ELSE inbox
  /\ UNCHANGED <<chosen, pref, files, requested, flags, control, link, lost, plugged>>

\* The user picks another preferred mode in Android's settings while the
\* broker has no claim on it.
ChooseMode ==
  /\ journal = NoMode /\ pc \in {"down", "poll"}
  /\ chosen' \in Modes /\ pref' = chosen'
  /\ UNCHANGED <<files, requested, flags, control, composer, cable>>

-----------------------------------------------------------------------------
(* RecoverPreferredMode. *)

\* The call returns at once when there is no journal, or none it can read.
Recover(next) ==
  \/ /\ journal = NoMode \/ "read" \in Faults
     /\ pc' = next /\ UNCHANGED after
  \/ journal # NoMode /\ pc' = "replay" /\ after' = next

Replay ==
  /\ pc = "replay"
  /\ \/ pref' = journal /\ pc' = "unlink"
     \/ /\ "replay" \in Faults
        /\ pref' \in {pref, journal} /\ pc' = after
  /\ UNCHANGED <<chosen, files, requested, flags, after, snapshot, ready, composer, cable>>

\* The result of unlink is not looked at.
Unlink ==
  /\ pc = "unlink" /\ pc' = after
  /\ journal' = NoMode \/ ("unlink" \in Faults /\ UNCHANGED journal)
  /\ UNCHANGED <<chosen, pref, config, requested, flags, after, snapshot, ready,
                 composer, cable>>

-----------------------------------------------------------------------------
(* Arming and disarming. *)

ClearArm == armed' = FALSE /\ applied' = FALSE /\ replug' = FALSE /\ samples' = 0

DisarmKeepsMode(next) == ClearArm /\ pc' = next /\ UNCHANGED after

\* Disarm: forget the request and put Android's mode back.
Disarm(next) == ClearArm /\ Recover(next)

\* Release of a session: an armed one is disarmed with it.
Release(next) ==
  /\ active' = FALSE
  /\ IF armed
     THEN Disarm(next)
     ELSE UNCHANGED <<armed, applied, replug, samples, after>> /\ pc' = next

\* Release tells the composer only when it is still connected.
TellComposer == IF link THEN AnyRequest ELSE UNCHANGED composer

\* Where ApplyPreferredMode's caller goes when it fails: Arm gives up, and
\* AdvanceArmed disarms.
ApplyFailed ==
  IF after = "composer"
  THEN armed' = FALSE /\ pc' = "composer"
  ELSE pc' = "disarm" /\ UNCHANGED armed

\* ApplyPreferredMode: read the mode, journal it, set the requested one.
GetMode ==
  /\ pc = "get"
  /\ \/ snapshot' = Rounded[pref] /\ pc' = "journal" /\ UNCHANGED armed
     \/ "get" \in Faults /\ ApplyFailed /\ UNCHANGED snapshot
  /\ UNCHANGED <<chosen, pref, files, requested, applied, replug, samples, active, after,
                 ready, composer, cable>>

WriteJournalLater ==
  /\ pc = "journal"
  /\ pc' = "set"
  /\ UNCHANGED <<chosen, pref, files, requested, flags, after, snapshot, ready, composer,
                 cable>>

WriteJournal ==
  /\ pc = "journal"
  /\ \/ journal' = snapshot /\ pc' = "set" /\ UNCHANGED armed
     \/ "journal" \in Faults /\ ApplyFailed /\ UNCHANGED journal
  /\ UNCHANGED <<chosen, pref, config, requested, applied, replug, samples, active, after,
                 snapshot, ready, composer, cable>>

SetPreferred ==
  /\ pc = "set"
  /\ \/ /\ pref' = requested
        /\ applied' = TRUE /\ replug' = FALSE
        /\ pc' = after /\ UNCHANGED <<armed, after>>
     \/ /\ "set" \in Faults
        /\ pref' \in {pref, requested}
        /\ armed' = (armed /\ after # "composer")
        /\ Recover(IF after = "composer" THEN "composer" ELSE "disarm")
        /\ UNCHANGED <<applied, replug>>
  /\ UNCHANGED <<chosen, files, requested, samples, active, snapshot, ready, composer, cable>>

\* AdvanceArmed disarms after a failed ApplyPreferredMode.
DisarmFailed ==
  /\ pc = "disarm"
  /\ Disarm("poll") /\ lost' = FALSE
  /\ UNCHANGED <<chosen, pref, files, requested, active, snapshot, ready, link, inbox, cable>>

-----------------------------------------------------------------------------
(* AcceptClient: every command is preceded by a status request, whose result *)
(* is not looked at.                                                         *)

AtAccept == pc = "accept"
Passed == pc' = "composer" /\ UNCHANGED after

NoClient ==
  /\ AtAccept /\ Passed
  /\ UNCHANGED <<chosen, pref, files, requested, flags, snapshot, ready, composer, cable>>

\* STATUS and PING, an unknown opcode, a command that is refused.
AcceptStatus ==
  /\ AtAccept /\ Passed /\ AnyRequest
  /\ UNCHANGED <<chosen, pref, files, requested, flags, snapshot, ready, cable>>

SetModeUnguarded == TRUE

\* A mode may be set only when no session or armed request uses it.
SetModeAllowed == ~active /\ ~armed

\* The mode is in memory before it is on disk.
SetMode(mode, saved) ==
  /\ saved \/ "config" \in Faults
  /\ requested' = mode
  /\ config' = IF saved THEN mode ELSE config

AcceptSetMode ==
  /\ AtAccept /\ Passed /\ AnyRequest
  /\ SetModeAllowed
  /\ \E mode \in Presets, saved \in BOOLEAN : SetMode(mode, saved)
  /\ UNCHANGED <<chosen, pref, journal, flags, snapshot, ready, cable>>

\* ARM, and TOGGLE when nothing runs.  A mode sent along is stored first.
AcceptArm ==
  /\ AtAccept /\ AnyRequest
  /\ ~active /\ ~armed
  /\ \/ pc' = "arm" /\ UNCHANGED <<requested, config>>
     \/ \E mode \in Presets, saved \in BOOLEAN :
          SetMode(mode, saved) /\ pc' = IF saved THEN "arm" ELSE "composer"
  /\ UNCHANGED <<chosen, pref, journal, flags, after, snapshot, ready, cable>>

\* The rest of Arm asks for the status once more, and applies the mode when
\* the composer confirms that the display is unplugged.
Arm ==
  /\ pc = "arm"
  /\ armed' = TRUE /\ applied' = FALSE /\ samples' = 0
  /\ \E ok \in BOOLEAN :
       /\ ComposerRequest(FALSE, ok)
       /\ replug' = (~ok \/ plugged)
       /\ IF replug' THEN Passed ELSE pc' = "get" /\ after' = "composer"
  /\ UNCHANGED <<chosen, pref, files, requested, active, snapshot, ready, cable>>

\* DISARM, and TOGGLE when a session runs or one is armed.
AcceptDisarm ==
  /\ AtAccept
  /\ \/ active /\ AnyRequest /\ Release("composer")
     \/ /\ ~active /\ UNCHANGED active
        /\ \E answered \in BOOLEAN : Exchange(answered)
        /\ lost' = FALSE /\ Disarm("composer")
  /\ UNCHANGED <<chosen, pref, files, requested, snapshot, ready, cable>>

\* PROBE, which starts a session at once, armed or not.
AcceptProbe ==
  /\ AtAccept /\ Passed /\ ~active
  /\ \/ plugged /\ ComposerRequest(lost, TRUE) /\ active' = TRUE
     \/ "start" \in Faults /\ AnyRequest /\ UNCHANGED active
  /\ UNCHANGED <<chosen, pref, files, requested, armed, applied, replug, samples, snapshot,
                 ready, cable>>

-----------------------------------------------------------------------------
(* The rest of the loop. *)

Poll ==
  /\ pc = "poll" /\ pc' = "accept"
  /\ ready' = (link /\ inbox # <<>>)
  /\ UNCHANGED <<chosen, pref, files, requested, flags, after, snapshot, composer, cable>>

AtComposer == pc = "composer"

\* Nothing to read, or the client's command closed the connection.
NoEvent ==
  /\ AtComposer /\ ~(ready /\ link)
  /\ pc' = "advance"
  /\ UNCHANGED <<chosen, pref, files, requested, flags, after, snapshot, ready, composer,
                 cable>>

\* POLLHUP: a session ends, an armed request waits for the composer.
ComposerHangup ==
  /\ AtComposer /\ link /\ "composer" \in Faults
  /\ link' = FALSE /\ inbox' = <<>> /\ UNCHANGED lost
  /\ IF active
     THEN Release("advance")
     ELSE pc' = "advance" /\ UNCHANGED <<flags, after>>
  /\ UNCHANGED <<chosen, pref, files, requested, snapshot, ready, cable>>

\* PreserveArmAcrossDisconnect.
PreserveArm ==
  /\ lost' = FALSE /\ replug' = FALSE /\ samples' = 0
  /\ UNCHANGED <<armed, applied, active>>

\* HandleComposerReadable and what Run makes of the event it reads.
HandleEvent ==
  /\ AtComposer /\ ready /\ link /\ inbox # <<>>
  /\ UNCHANGED <<chosen, pref, files, requested, snapshot, ready, cable>>
  /\ \/ /\ Head(inbox) = "disconnected" /\ active
        /\ \E ok \in BOOLEAN : ComposerRequest(TRUE, ok)
        /\ Release("advance")
     \/ /\ Head(inbox) = "disconnected" /\ ~active /\ armed
        /\ PreserveArm
        /\ inbox' = Tail(inbox) /\ pc' = "advance" /\ UNCHANGED <<link, after>>
     \/ /\ Head(inbox) = "disconnected" => ~active /\ ~armed
        /\ lost' = (Head(inbox) = "disconnected")
        /\ inbox' = Tail(inbox) /\ pc' = "advance" /\ UNCHANGED <<flags, link, after>>

\* The event that made the socket readable was read by a request in between:
\* recvmsg waits for SO_RCVTIMEO, and its failure is an invalid event.
EventTaken ==
  /\ AtComposer /\ ready /\ link /\ inbox = <<>>
  /\ UNCHANGED <<chosen, pref, files, requested, snapshot, ready, cable>>
  /\ \/ active /\ AnyRequest /\ Release("advance")
     \/ /\ ~active /\ armed /\ Disarm("advance")
        /\ lost' = FALSE /\ UNCHANGED <<active, link, inbox>>
     \/ /\ ~active /\ ~armed /\ pc' = "advance"
        /\ UNCHANGED <<flags, after, composer>>

AtAdvance == pc = "advance"

\* The agent, the volume keys, the heartbeat or the deadline ends the session.
SessionEnds ==
  /\ AtAdvance /\ active
  /\ TellComposer /\ Release("poll")
  /\ UNCHANGED <<chosen, pref, files, requested, snapshot, ready, cable>>

\* No session to end, and no armed request or too soon to poll for it.
NothingDue ==
  /\ AtAdvance /\ pc' = "poll"
  /\ UNCHANGED <<chosen, pref, files, requested, flags, after, snapshot, ready, composer,
                 cable>>

\* One poll of an armed request.  Whether the mode matches, the display can be
\* leased and the agent is there is one choice, settled.
NotSettled == samples' = 0 /\ pc' = "poll" /\ UNCHANGED <<armed, applied, replug, active, after>>

CountBeforeAdding == samples < StableSamples

\* Fewer than kModeStableSamples samples in a row were stable.
TooFewSamples == samples + 1 < StableSamples

Settled ==
  \/ /\ TooFewSamples
     /\ samples' = samples + 1 /\ pc' = "poll"
     /\ UNCHANGED <<armed, applied, replug, active, after>>
  \/ /\ ~TooFewSamples
     /\ samples' = samples + 1 /\ active' = TRUE /\ pc' = "poll"
     /\ UNCHANGED <<armed, applied, replug, after>>
  \/ /\ ~TooFewSamples /\ "start" \in Faults
     /\ samples' = samples + 1 /\ pc' = "disarm"
     /\ UNCHANGED <<armed, applied, replug, active, after>>

AdvanceArmed ==
  /\ AtAdvance /\ armed /\ ~active
  /\ \E ok \in BOOLEAN :
       /\ ComposerRequest(lost, ok)
       /\ \/ ~ok /\ NotSettled
          \/ /\ ok /\ ~plugged /\ samples' = 0 /\ UNCHANGED <<armed, applied, active>>
             /\ IF applied
                THEN replug' = FALSE /\ pc' = "poll" /\ UNCHANGED after
                ELSE pc' = "get" /\ after' = "poll" /\ UNCHANGED replug
          \/ /\ ok /\ plugged /\ (replug \/ ~applied)
             /\ pc' = "poll" /\ UNCHANGED <<flags, after>>
          \/ /\ ok /\ plugged /\ ~replug /\ applied
             /\ NotSettled \/ Settled
  /\ UNCHANGED <<chosen, pref, files, requested, snapshot, ready, cable>>

-----------------------------------------------------------------------------
(* Starting, stopping and dying. *)

\* Run: LoadConfiguredMode, then the journal of an earlier broker is replayed.
Startup ==
  /\ pc = "down"
  /\ requested' = config
  /\ Recover("poll")
  /\ UNCHANGED <<chosen, pref, files, flags, snapshot, ready, composer, cable>>

Died ==
  /\ armed' = FALSE /\ applied' = FALSE /\ replug' = FALSE /\ samples' = 0 /\ active' = FALSE
  /\ link' = FALSE /\ inbox' = <<>> /\ lost' = FALSE

\* SIGTERM: Release, then Disarm if still armed, then exit.
Stop ==
  /\ pc = "poll"
  /\ Died
  /\ IF armed THEN Recover("down") ELSE pc' = "down" /\ UNCHANGED after
  /\ UNCHANGED <<chosen, pref, files, requested, snapshot, ready, cable>>

\* The process is killed, or the phone reboots.
Crash ==
  /\ pc # "down" /\ pc' = "down"
  /\ Died /\ after' = "poll" /\ snapshot' = NoMode /\ ready' = FALSE
  /\ UNCHANGED <<chosen, pref, files, requested, cable>>

Call == Replay \/ Unlink \/ GetMode \/ WriteJournal \/ SetPreferred \/ DisarmFailed \/ Arm
Client == NoClient \/ AcceptStatus \/ AcceptSetMode \/ AcceptArm \/ AcceptDisarm \/ AcceptProbe
Loop == \/ Poll \/ NoEvent \/ ComposerHangup \/ HandleEvent \/ EventTaken
        \/ SessionEnds \/ NothingDue \/ AdvanceArmed
Environment == ChangeCable \/ SendHotplug \/ ChooseMode

Next == Call \/ Client \/ Loop \/ Environment \/ Startup \/ Stop \/ Crash

Spec == Init /\ [][Next]_vars

\* The broker's thread runs, time passes so that an armed request is polled
\* again and again, and the composer reports every change.
FairSpec ==
  /\ Spec
  /\ WF_vars(Call \/ Client \/ Loop)
  /\ SF_vars(AdvanceArmed)
  /\ WF_vars(SendHotplug)

-----------------------------------------------------------------------------
TypeOK ==
  /\ chosen \in Modes /\ pref \in Modes
  /\ journal \in Modes \cup {NoMode} /\ config \in Presets /\ requested \in Presets
  /\ armed \in BOOLEAN /\ applied \in BOOLEAN /\ replug \in BOOLEAN /\ active \in BOOLEAN
  /\ samples \in 0 .. StableSamples
  /\ pc \in {"down", "poll", "accept", "arm", "get", "journal", "set", "disarm", "composer",
             "advance", "replay", "unlink"}
  /\ after \in {"poll", "composer", "advance", "disarm", "down"}
  /\ snapshot \in Modes \cup {NoMode} /\ ready \in BOOLEAN
  /\ link \in BOOLEAN /\ lost \in BOOLEAN
  /\ inbox \in Seq({"connected", "disconnected"}) /\ Len(inbox) <= MaxEvents
  /\ plugged \in BOOLEAN /\ unsent \in BOOLEAN

\* Whenever Android holds a mode other than the one the user chose, the journal
\* holds the user's mode, so a broker that dies at any point can restore it
\* ("a broker restart does not leave Android's global display preference
\* changed", README.md:383-384).  Equal means equal to a millihertz.
ModeRecoverable ==
  Rounded[pref] # Rounded[chosen] => journal = Rounded[chosen]

\* A broker that is in its loop with no armed request has given Android its
\* mode back and dropped the journal ("Disarm, release, failure, and broker
\* startup all replay the recovery journal", docs/ARCHITECTURE.md:55-56).
RestoredWhenIdle ==
  pc \in {"poll", "accept", "advance"} /\ ~armed =>
    journal = NoMode /\ Rounded[pref] = Rounded[chosen]

\* While a request is armed with its mode applied, Android holds the very mode
\* that RequestedModeMatches compares the display with: no client changes the
\* requested mode under it, and a replay of the journal disarms first.
AppliedModeHeld ==
  armed /\ applied => pref = requested

\* An armed request whose display stays unplugged gets its mode applied: "The
\* disconnect is therefore progress, not a reason to cancel the armed request"
\* (the comment of PreserveArmAcrossDisconnect).
UnplugIsProgress ==
  (armed /\ ~plugged) ~> (applied \/ plugged \/ ~armed)
=============================================================================
