------------------------ MODULE PreferredModeProofs ------------------------
(***************************************************************************)
(* Proofs about PreferredMode, for any set of modes, any number of stable  *)
(* samples and any bound on the queued events: the user's display mode     *)
(* survives every crash of the broker and every failure of a command, as   *)
(* long as the command that replays the journal works.                     *)
(***************************************************************************)
EXTENDS PreferredMode, TLAPS

\* The modes that the variables hold.
ModesTyped ==
  /\ chosen \in Modes /\ pref \in Modes
  /\ config \in Presets /\ requested \in Presets

\* The journal holds the user's mode or does not exist; without one, Android
\* holds the user's mode.
JournalTrue ==
  /\ journal \in {NoMode, Rounded[chosen]}
  /\ journal = NoMode => Rounded[pref] = Rounded[chosen]

\* When there is a journal: from before the set command until after the replay.
\* A request that has applied its mode has one; a broker that has not applied
\* a mode has none, but when it has just started or is replaying it.
JournalKept ==
  /\ armed /\ applied => journal # NoMode
  /\ ~armed /\ pc \notin {"down", "replay", "unlink"} => journal = NoMode
  /\ armed /\ ~applied /\ pc \notin {"set", "replay", "unlink"} => journal = NoMode
  /\ pc \in {"set", "replay", "unlink"} => journal # NoMode

\* What the places inside ApplyPreferredMode and RecoverPreferredMode imply.
PlacesConsistent ==
  /\ pc = "journal" => snapshot = Rounded[chosen]
  /\ pc \in {"get", "journal", "set"} => armed /\ ~applied
  /\ pc = "unlink" => Rounded[pref] = Rounded[chosen]
  /\ pc \in {"replay", "unlink"} => ~(armed /\ applied)
  /\ pc \in {"replay", "unlink"} /\ after = "down" => ~armed
  /\ pc \in {"get", "journal", "set"} => after \in {"poll", "composer"}
  /\ after \in {"poll", "composer", "advance", "disarm", "down"}
  /\ pc \in {"arm", "down"} => ~armed

ModeInv == JournalTrue /\ JournalKept /\ PlacesConsistent /\ AppliedModeHeld

-----------------------------------------------------------------------------
\* Every step keeps the types of the modes.
LEMMA ModesTypedStep ==
  ModesTyped /\ ModeInv /\ [Next]_vars => ModesTyped'
PROOF
<1> SUFFICES ASSUME ModesTyped, ModeInv, [Next]_vars PROVE ModesTyped'
  OBVIOUS
<1> USE ModeAssumptions DEF ModesTyped, Presets, files, flags, control, composer, cable
<1>1. CASE Replay
  BY <1>1, SMT DEF Replay, ModeInv, JournalTrue, JournalKept
<1>2. CASE SetPreferred
  BY <1>2, SMT DEF SetPreferred
<1>3. CASE Unlink \/ GetMode \/ WriteJournal \/ DisarmFailed \/ Arm
  BY <1>3, Zenon DEF Unlink, GetMode, WriteJournal, DisarmFailed, Arm
<1>4. CASE AcceptSetMode \/ AcceptArm
  BY <1>4, SMT DEF AcceptSetMode, AcceptArm, SetMode
<1>5. CASE NoClient \/ AcceptStatus \/ AcceptDisarm \/ AcceptProbe
  BY <1>5, Zenon DEF NoClient, AcceptStatus, AcceptDisarm, AcceptProbe
<1>6. CASE Loop
  BY <1>6, Zenon DEF Loop, Poll, NoEvent, ComposerHangup, HandleEvent, EventTaken,
                   SessionEnds, NothingDue, AdvanceArmed
<1>7. CASE Environment
  BY <1>7, SMT DEF Environment, ChangeCable, SendHotplug, ChooseMode
<1>8. CASE Startup \/ Stop \/ Crash
  BY <1>8, SMT DEF Startup, Stop, Crash
<1>9. CASE UNCHANGED vars
  BY <1>9 DEF vars
<1> QED
  BY <1>1, <1>2, <1>3, <1>4, <1>5, <1>6, <1>7, <1>8, <1>9 DEF Next, Call, Client

-----------------------------------------------------------------------------
(* The inductive invariant. *)

\* A step of the loop or of the environment that leaves modes, journal, armed
\* and applied alone and goes from one place without a meaning to another.
LEMMA PlainStep ==
  ASSUME ModeInv, UNCHANGED <<chosen, pref, journal, requested, armed, applied, after>>,
         pc \notin {"down", "get", "journal", "set", "replay", "unlink"},
         pc' \in {"poll", "accept", "composer", "advance", "disarm"}
  PROVE  ModeInv'
BY SMT DEF ModeInv, JournalTrue, JournalKept, PlacesConsistent, AppliedModeHeld

\* Disarm forgets the request and either finds no journal or goes to replay it.
LEMMA DisarmStep ==
  ASSUME "read" \notin Faults, ModeInv, UNCHANGED <<chosen, pref, journal, requested>>,
         NEW next \in {"poll", "composer", "advance", "down"}, Disarm(next)
  PROVE  ModeInv'
BY ModeAssumptions, SMT
   DEF ModeInv, JournalTrue, JournalKept, PlacesConsistent, AppliedModeHeld, Disarm,
       ClearArm, Recover

\* Release of a session, from a place in the loop.
LEMMA ReleaseStep ==
  ASSUME "read" \notin Faults, ModeInv, UNCHANGED <<chosen, pref, journal, requested>>,
         pc \in {"accept", "composer", "advance"},
         NEW next \in {"poll", "composer", "advance"}, Release(next)
  PROVE  ModeInv'
<1>1. CASE armed
  BY <1>1, DisarmStep DEF Release
<1>2. CASE ~armed
  BY <1>2, SMT DEF Release, ModeInv, JournalTrue, JournalKept, PlacesConsistent,
                   AppliedModeHeld
<1> QED
  BY <1>1, <1>2

\* A client that stores a mode finds no armed request.
LEMMA StoreStep ==
  ASSUME ModeInv, UNCHANGED <<chosen, pref, journal, armed, applied, after>>,
         pc = "accept", ~armed, pc' \in {"composer", "arm"}
  PROVE  ModeInv'
BY SMT DEF ModeInv, JournalTrue, JournalKept, PlacesConsistent, AppliedModeHeld

\* Every step of the broker and of its surroundings keeps the invariant, as long
\* as the journal can be read, replayed and removed.
LEMMA ModeInvStep ==
  ASSUME "replay" \notin Faults, "read" \notin Faults, "unlink" \notin Faults,
         ModesTyped, ModeInv, [Next]_vars
  PROVE  ModeInv'
<1> USE DEF files, flags, control, composer, cable
<1>1. CASE Replay
  <2>1. Rounded[Rounded[chosen]] = Rounded[chosen]
    BY ModeAssumptions DEF ModesTyped
  <2> QED
    BY <1>1, <2>1, SMT DEF Replay, ModeInv, JournalTrue, JournalKept, PlacesConsistent,
                           AppliedModeHeld
<1>2. CASE Unlink
  BY <1>2, SMT DEF Unlink, ModeInv, JournalTrue, JournalKept, PlacesConsistent,
                   AppliedModeHeld
<1>3. CASE GetMode
  <2>1. pc = "get" /\ journal = NoMode /\ armed /\ ~applied
    BY <1>3, SMT DEF GetMode, ModeInv, JournalKept, PlacesConsistent
  <2>2. /\ UNCHANGED <<chosen, pref, journal, requested, after>> /\ ~applied'
        /\ \/ snapshot' = Rounded[pref] /\ pc' = "journal" /\ armed'
           \/ pc' = "composer" \/ pc' = "disarm"
    BY <1>3, <2>1, Zenon DEF GetMode, ApplyFailed
  <2> QED
    BY <2>1, <2>2, SMT DEF ModeInv, JournalTrue, JournalKept, PlacesConsistent,
                           AppliedModeHeld
<1>4. CASE WriteJournal
  <2>1. Rounded[chosen] # NoMode
    BY ModeAssumptions DEF ModesTyped
  <2>2. pc = "journal" /\ journal = NoMode /\ armed /\ ~applied
    BY <1>4, SMT DEF WriteJournal, ModeInv, JournalKept, PlacesConsistent
  <2>3. /\ UNCHANGED <<chosen, pref, requested, after>> /\ ~applied'
        /\ \/ journal' = snapshot /\ pc' = "set" /\ armed'
           \/ (pc' = "composer" \/ pc' = "disarm") /\ UNCHANGED journal
    BY <1>4, <2>2, Zenon DEF WriteJournal, ApplyFailed
  <2> QED
    BY <2>1, <2>2, <2>3, SMT DEF ModeInv, JournalTrue, JournalKept, PlacesConsistent,
                                 AppliedModeHeld
<1>5. CASE SetPreferred
  <2>1. pc = "set" /\ journal # NoMode /\ armed /\ ~applied
    BY <1>5, SMT DEF SetPreferred, ModeInv, JournalKept, PlacesConsistent
  <2>2. /\ UNCHANGED <<chosen, journal, requested>>
        /\ \/ /\ pref' = requested /\ applied' = TRUE /\ armed'
              /\ pc' = after /\ UNCHANGED after
           \/ /\ pc' = "replay" /\ (after' = "composer" \/ after' = "disarm")
              /\ ~applied'
    <3> DEFINE target == IF after = "composer" THEN "composer" ELSE "disarm"
    <3>1. /\ UNCHANGED <<chosen, journal, requested>>
          /\ \/ /\ pref' = requested /\ applied' = TRUE /\ pc' = after
                /\ UNCHANGED <<armed, after>>
             \/ Recover(target) /\ UNCHANGED applied
      BY <1>5, Zenon DEF SetPreferred
    <3>2. Recover(target) => pc' = "replay" /\ after' = target
      BY <2>1, Zenon DEF Recover
    <3>3. target = "composer" \/ target = "disarm"
      OBVIOUS
    <3> HIDE DEF target
    <3>4. CASE Recover(target) /\ UNCHANGED applied
      <4>1. pc' = "replay" /\ (after' = "composer" \/ after' = "disarm")
        BY <3>2, <3>3, <3>4
      <4>2. ~applied'
        BY <2>1, <3>4, Zenon
      <4> QED
        BY <3>1, <4>1, <4>2, Zenon
    <3>5. CASE /\ pref' = requested /\ applied' = TRUE /\ pc' = after
               /\ UNCHANGED <<armed, after>>
      <4>1. armed'
        BY <2>1, <3>5, Zenon
      <4> QED
        BY <3>1, <3>5, <4>1, Zenon
    <3> QED
      BY <3>1, <3>4, <3>5, Zenon
  <2> QED
    BY <2>1, <2>2, SMT DEF ModeInv, JournalTrue, JournalKept, PlacesConsistent,
                           AppliedModeHeld
<1>6. CASE DisarmFailed
  <2>1. Disarm("poll") /\ UNCHANGED <<chosen, pref, journal, requested>>
    BY <1>6, Zenon DEF DisarmFailed
  <2> QED
    BY <2>1, DisarmStep
<1>7. CASE Arm
  <2>1. /\ pc = "arm" /\ armed' = TRUE /\ applied' = FALSE
        /\ \/ pc' = "composer" /\ UNCHANGED after
           \/ pc' = "get" /\ after' = "composer"
        /\ UNCHANGED <<chosen, pref, journal, requested>>
    BY <1>7, Zenon DEF Arm, Passed
  <2> QED
    BY <2>1, SMT DEF ModeInv, JournalTrue, JournalKept, PlacesConsistent, AppliedModeHeld
<1>8. CASE NoClient \/ AcceptStatus \/ AcceptProbe
  <2>1. /\ UNCHANGED <<chosen, pref, journal, requested, armed, applied, after>>
        /\ pc = "accept" /\ pc' = "composer"
    BY <1>8, Zenon DEF NoClient, AcceptStatus, AcceptProbe, AtAccept, Passed
  <2> QED
    BY <2>1, PlainStep
<1>9. CASE AcceptSetMode \/ AcceptArm
  <2>1. /\ UNCHANGED <<chosen, pref, journal, armed, applied, after>>
        /\ pc = "accept" /\ ~armed /\ (pc' = "composer" \/ pc' = "arm")
    BY <1>9, Zenon DEF AcceptSetMode, AcceptArm, AtAccept, Passed, SetModeAllowed
  <2> QED
    BY <2>1, StoreStep
<1>10. CASE AcceptDisarm
  <2>1. /\ UNCHANGED <<chosen, pref, journal, requested>> /\ pc = "accept"
        /\ Release("composer") \/ Disarm("composer")
    BY <1>10, Zenon DEF AcceptDisarm, AtAccept
  <2> QED
    BY <2>1, ReleaseStep, DisarmStep
<1>11. CASE Poll \/ NoEvent \/ NothingDue
  <2>1. /\ UNCHANGED <<chosen, pref, journal, requested, armed, applied, after>>
        /\ pc = "poll" \/ pc = "composer" \/ pc = "advance"
        /\ pc' = "accept" \/ pc' = "advance" \/ pc' = "poll"
    BY <1>11, Zenon DEF Poll, NoEvent, NothingDue, AtComposer, AtAdvance
  <2> QED
    BY <2>1, PlainStep
<1>12. CASE ComposerHangup \/ HandleEvent \/ EventTaken
  <2>1. /\ UNCHANGED <<chosen, pref, journal, requested>> /\ pc = "composer"
        /\ \/ Release("advance") \/ Disarm("advance")
           \/ pc' = "advance" /\ UNCHANGED <<armed, applied, after>>
    BY <1>12, Zenon DEF ComposerHangup, HandleEvent, EventTaken, AtComposer, PreserveArm
  <2> QED
    BY <2>1, ReleaseStep, DisarmStep, PlainStep
<1>13. CASE SessionEnds
  <2>1. UNCHANGED <<chosen, pref, journal, requested>> /\ pc = "advance" /\ Release("poll")
    BY <1>13, Zenon DEF SessionEnds, AtAdvance
  <2> QED
    BY <2>1, ReleaseStep
<1>14. CASE AdvanceArmed
  <2>1. /\ UNCHANGED <<chosen, pref, journal, requested, armed, applied>>
        /\ pc = "advance" /\ armed
        /\ \/ (pc' = "poll" \/ pc' = "disarm") /\ UNCHANGED after
           \/ pc' = "get" /\ ~applied /\ after' = "poll"
    BY <1>14, Zenon DEF AdvanceArmed, AtAdvance, NotSettled, Settled
  <2>2. CASE pc' = "get" /\ ~applied /\ after' = "poll"
    BY <2>1, <2>2, SMT DEF ModeInv, JournalTrue, JournalKept, PlacesConsistent,
                           AppliedModeHeld
  <2> QED
    BY <2>1, <2>2, PlainStep
<1>15. CASE ChangeCable \/ SendHotplug
  <2>1. UNCHANGED <<chosen, pref, journal, requested, armed, applied, pc, after, snapshot>>
    BY <1>15, Zenon DEF ChangeCable, SendHotplug
  <2> QED
    BY <2>1, SMT DEF ModeInv, JournalTrue, JournalKept, PlacesConsistent, AppliedModeHeld
<1>16. CASE ChooseMode
  BY <1>16, SMT DEF ChooseMode, ModeInv, JournalTrue, JournalKept, PlacesConsistent,
                    AppliedModeHeld
<1>17. CASE Startup
  BY <1>17, SMT DEF Startup, Recover, ModeInv, JournalTrue, JournalKept, PlacesConsistent,
                    AppliedModeHeld
<1>18. CASE Stop
  BY <1>18, SMT DEF Stop, Died, Recover, ModeInv, JournalTrue, JournalKept,
                    PlacesConsistent, AppliedModeHeld
<1>19. CASE Crash
  BY <1>19, SMT DEF Crash, Died, ModeInv, JournalTrue, JournalKept, PlacesConsistent,
                    AppliedModeHeld
<1>20. CASE UNCHANGED vars
  BY <1>20, Zenon DEF vars, ModeInv, JournalTrue, JournalKept, PlacesConsistent,
                      AppliedModeHeld
<1> QED
  BY <1>1, <1>2, <1>3, <1>4, <1>5, <1>6, <1>7, <1>8, <1>9, <1>10, <1>11, <1>12, <1>13,
     <1>14, <1>15, <1>16, <1>17, <1>18, <1>19, <1>20
     DEF Next, Call, Client, Loop, Environment

\* A phone whose broker was never started satisfies the invariant.
LEMMA ModeInitInv == Init => ModesTyped /\ ModeInv
BY SMT DEF Init, ModesTyped, ModeInv, JournalTrue, JournalKept, PlacesConsistent,
           AppliedModeHeld

\* The invariant holds in every reachable state of the broker.
THEOREM ModeInvariance ==
  ASSUME "replay" \notin Faults, "read" \notin Faults, "unlink" \notin Faults
  PROVE  Spec => [](ModesTyped /\ ModeInv)
<1>1. ModesTyped /\ ModeInv /\ [Next]_vars => (ModesTyped /\ ModeInv)'
  BY ModesTypedStep, ModeInvStep
<1> QED
  BY ModeInitInv, <1>1, PTL DEF Spec

-----------------------------------------------------------------------------
(* What follows from it. *)

\* While the journal can be read, replayed and removed, a broker that
\* dies at any point of ApplyPreferredMode or RecoverPreferredMode leaves what it
\* takes to give Android the user's mode back.
THEOREM Recoverable ==
  ASSUME "replay" \notin Faults, "read" \notin Faults, "unlink" \notin Faults
  PROVE  Spec => []ModeRecoverable
<1>1. ModeInv => ModeRecoverable
  BY DEF ModeInv, JournalTrue, ModeRecoverable
<1> QED
  BY ModeInvariance, <1>1, PTL

\* While the journal can be read, replayed and removed, a broker in its
\* loop with no armed request has restored the mode and removed the journal,
\* whatever ended the request.
THEOREM Restored ==
  ASSUME "replay" \notin Faults, "read" \notin Faults, "unlink" \notin Faults
  PROVE  Spec => []RestoredWhenIdle
<1>1. ModeInv => RestoredWhenIdle
  BY DEF ModeInv, JournalTrue, JournalKept, RestoredWhenIdle
<1> QED
  BY ModeInvariance, <1>1, PTL

\* While the journal can be read, replayed and removed, Android holds
\* the requested mode as long as a request is armed with its mode applied
\* (SetMode, Arm, Disarm).
THEOREM AppliedHeld ==
  ASSUME "replay" \notin Faults, "read" \notin Faults, "unlink" \notin Faults
  PROVE  Spec => []AppliedModeHeld
<1>1. ModeInv => AppliedModeHeld
  BY DEF ModeInv
<1> QED
  BY ModeInvariance, <1>1, PTL
-----------------------------------------------------------------------------
(* The types, whatever fails. *)

\* The modes, and what the places that use them rely on: a journal is replayed
\* only when there is one, and what is journalled is a mode that was read.
ModesStored ==
  /\ chosen \in Modes /\ pref \in Modes
  /\ journal \in Modes \cup {NoMode} /\ config \in Presets /\ requested \in Presets
  /\ snapshot \in Modes \cup {NoMode}
  /\ pc = "replay" => journal \in Modes
  /\ pc = "journal" => snapshot \in Modes

PlacesKnown ==
  /\ pc \in {"down", "poll", "accept", "arm", "get", "journal", "set", "disarm", "composer",
             "advance", "replay", "unlink"}
  /\ after \in {"poll", "composer", "advance", "disarm", "down"}

FlagsTyped ==
  /\ armed \in BOOLEAN /\ applied \in BOOLEAN /\ replug \in BOOLEAN /\ active \in BOOLEAN
  /\ ready \in BOOLEAN /\ plugged \in BOOLEAN /\ unsent \in BOOLEAN

ComposerTyped ==
  /\ link \in BOOLEAN /\ lost \in BOOLEAN
  /\ inbox \in Seq({"connected", "disconnected"}) /\ Len(inbox) <= MaxEvents

\* The counter of stable samples stops at its limit because the sample that
\* reaches it starts the session or disarms, and both end with the counter
\* cleared before another sample is taken.
SamplesBounded ==
  /\ samples \in 0 .. StableSamples
  /\ pc \in {"get", "journal", "set"} => samples = 0
  /\ samples = StableSamples => armed /\ (active \/ pc = "disarm")

TypeInv == ModesStored /\ PlacesKnown /\ FlagsTyped /\ ComposerTyped /\ SamplesBounded

\* RecoverPreferredMode, Disarm and Release go to places that are known.
LEMMA RecoverPlace ==
  ASSUME PlacesKnown, NEW next \in {"poll", "composer", "advance", "disarm", "down"},
         Recover(next) \/ Disarm(next) \/ Release(next)
  PROVE  PlacesKnown'
BY SMT DEF PlacesKnown, Recover, Disarm, Release

\* Every step of the broker goes to a place that is known.
LEMMA PlacesStep ==
  ASSUME PlacesKnown, [Next]_vars
  PROVE  PlacesKnown'
<1> USE DEF files, flags, control, composer, cable
<1>1. CASE Replay \/ Unlink \/ WriteJournal
  BY <1>1, SMT DEF Replay, Unlink, WriteJournal, ApplyFailed, PlacesKnown
<1>2. CASE GetMode
  BY <1>2, SMT DEF GetMode, ApplyFailed, PlacesKnown
<1>3. CASE SetPreferred
  <2>1. \/ pc' = after /\ after' = after
        \/ \E next \in {"composer", "disarm"} : Recover(next)
    BY <1>3, Zenon DEF SetPreferred
  <2> QED
    BY <2>1, RecoverPlace, SMT DEF PlacesKnown
<1>4. CASE DisarmFailed
  BY <1>4, RecoverPlace DEF DisarmFailed
<1>5. CASE Arm
  <2>1. \/ pc' = "composer" /\ after' = after
        \/ pc' = "get" /\ after' = "composer"
    BY <1>5, Zenon DEF Arm, Passed
  <2> QED
    BY <2>1, SMT DEF PlacesKnown
<1>6. CASE Client
  <2>1. CASE AcceptDisarm
    <3>1. Release("composer") \/ Disarm("composer")
      BY <2>1, Zenon DEF AcceptDisarm
    <3> QED
      BY <3>1, RecoverPlace
  <2>2. CASE AcceptArm
    <3>1. pc' \in {"arm", "composer"} /\ after' = after
      BY <2>2, Zenon DEF AcceptArm
    <3> QED
      BY <3>1, SMT DEF PlacesKnown
  <2>3. CASE NoClient \/ AcceptStatus \/ AcceptSetMode \/ AcceptProbe
    <3>1. Passed
      BY <2>3, Zenon DEF NoClient, AcceptStatus, AcceptSetMode, AcceptProbe
    <3> QED
      BY <3>1, SMT DEF Passed, PlacesKnown
  <2> QED
    BY <1>6, <2>1, <2>2, <2>3, Zenon DEF Client
<1>7. CASE Poll \/ NoEvent \/ NothingDue
  BY <1>7, SMT DEF Poll, NoEvent, NothingDue, PlacesKnown
<1>8. CASE ComposerHangup \/ HandleEvent \/ EventTaken
  <2>1. Release("advance") \/ Disarm("advance") \/ (pc' = "advance" /\ after' = after)
    BY <1>8, Zenon DEF ComposerHangup, HandleEvent, EventTaken
  <2> QED
    BY <2>1, RecoverPlace, SMT DEF PlacesKnown
<1>9. CASE SessionEnds
  BY <1>9, RecoverPlace DEF SessionEnds
<1>10. CASE AdvanceArmed
  <2>1. pc' \in {"poll", "disarm", "get"} /\ after' \in {after, "poll"}
    BY <1>10, Zenon DEF AdvanceArmed, NotSettled, Settled
  <2> QED
    BY <2>1, SMT DEF PlacesKnown
<1>11. CASE Startup
  BY <1>11, RecoverPlace DEF Startup
<1>12. CASE Stop
  BY <1>12, RecoverPlace, SMT DEF Stop, PlacesKnown
<1>13. CASE Crash \/ Environment \/ UNCHANGED vars
  BY <1>13, SMT DEF Crash, Environment, ChangeCable, SendHotplug, ChooseMode, vars, PlacesKnown
<1> QED
  BY <1>1, <1>2, <1>3, <1>4, <1>5, <1>6, <1>7, <1>8, <1>9, <1>10, <1>11, <1>12, <1>13, Zenon
  DEF Next, Call, Loop

\* A step that neither reads, sets nor journals a mode.
LEMMA ModesQuiet ==
  ASSUME ModesStored, UNCHANGED <<chosen, pref, journal, snapshot>>,
         config' \in Presets, requested' \in Presets,
         pc' = "replay" => pc = "replay" \/ journal # NoMode,
         pc' = "journal" => pc = "journal"
  PROVE  ModesStored'
BY Zenon DEF ModesStored

\* RecoverPreferredMode, Disarm and Release replay only a journal that exists.
LEMMA RecoverModes ==
  ASSUME NEW next \in {"poll", "composer", "advance", "disarm", "down"},
         Recover(next) \/ Disarm(next) \/ Release(next)
  PROVE  pc' # "journal" /\ (pc' = "replay" => journal # NoMode)
BY SMT DEF Recover, Disarm, Release

\* Every step keeps the types of the modes, a replay that fails included.
LEMMA ModesStoredStep ==
  ASSUME ModesStored, PlacesKnown, [Next]_vars
  PROVE  ModesStored'
<1> USE DEF files, flags, control, composer, cable
<1>1. config \in Presets /\ requested \in Presets
  BY DEF ModesStored
<1>2. after # "replay" /\ after # "journal"
  BY SMT DEF PlacesKnown
<1>3. CASE Replay
  <2>1. journal \in Modes /\ pc' \in {"unlink", after} /\ pref' \in {pref, journal}
    BY <1>3, Zenon DEF Replay, ModesStored
  <2> QED
    BY <1>2, <1>3, <2>1, SMT DEF Replay, ModesStored
<1>4. CASE Unlink
  BY <1>2, <1>4, SMT DEF Unlink, ModesStored
<1>5. CASE GetMode
  <2>1. Rounded[pref] \in Modes
    BY ModeAssumptions DEF ModeAssumptions, ModesStored
  <2>2. /\ UNCHANGED <<chosen, pref, journal, config, requested>>
        /\ \/ snapshot' = Rounded[pref] /\ pc' = "journal"
           \/ pc' \in {"composer", "disarm"} /\ UNCHANGED snapshot
    BY <1>5, Zenon DEF GetMode, ApplyFailed
  <2> QED
    BY <2>1, <2>2, SMT DEF ModesStored
<1>6. CASE WriteJournal
  <2>1. /\ pc = "journal" /\ pc' \in {"set", "composer", "disarm"} /\ journal' \in {journal, snapshot}
        /\ UNCHANGED <<chosen, pref, config, requested, snapshot>>
    BY <1>6, Zenon DEF WriteJournal, ApplyFailed
  <2> QED
    BY <2>1, SMT DEF ModesStored
<1>7. CASE SetPreferred
  <2>1. /\ pref' \in {pref, requested} /\ UNCHANGED <<chosen, journal, config, requested, snapshot>>
        /\ pc' = after \/ \E next \in {"composer", "disarm"} : Recover(next)
    BY <1>7, Zenon DEF SetPreferred
  <2>2. requested \in Modes
    BY <1>1 DEF Presets
  <2>3. pc' # "journal" /\ (pc' = "replay" => journal # NoMode)
    BY <1>2, <2>1, RecoverModes
  <2> QED
    BY <2>1, <2>2, <2>3, SMT DEF ModesStored
<1>8. CASE DisarmFailed \/ Arm
  <2>1. UNCHANGED <<chosen, pref, journal, config, requested, snapshot>>
    BY <1>8, Zenon DEF DisarmFailed, Arm
  <2>2. Disarm("poll") \/ pc' \in {"composer", "get"}
    BY <1>8, Zenon DEF DisarmFailed, Arm, Passed
  <2>3. pc' # "journal" /\ (pc' = "replay" => journal # NoMode)
    BY <2>2, RecoverModes
  <2> QED
    BY <1>1, <2>1, <2>3, ModesQuiet
<1>9. CASE AcceptSetMode \/ AcceptArm
  <2>1. /\ UNCHANGED <<chosen, pref, journal, snapshot>>
        /\ config' \in Presets /\ requested' \in Presets
    BY <1>1, <1>9, SMT DEF AcceptSetMode, AcceptArm, SetMode
  <2>2. pc' \in {"composer", "arm"}
    BY <1>9, Zenon DEF AcceptSetMode, AcceptArm, Passed
  <2> QED
    BY <2>1, <2>2, ModesQuiet
<1>10. CASE NoClient \/ AcceptStatus \/ AcceptDisarm \/ AcceptProbe
  <2>1. UNCHANGED <<chosen, pref, journal, config, requested, snapshot>>
    BY <1>10, Zenon DEF NoClient, AcceptStatus, AcceptDisarm, AcceptProbe
  <2>2. Release("composer") \/ Disarm("composer") \/ pc' = "composer"
    BY <1>10, Zenon DEF NoClient, AcceptStatus, AcceptDisarm, AcceptProbe, Passed
  <2>3. pc' # "journal" /\ (pc' = "replay" => journal # NoMode)
    BY <2>2, RecoverModes
  <2> QED
    BY <1>1, <2>1, <2>3, ModesQuiet
<1>11. CASE Loop
  <2>1. UNCHANGED <<chosen, pref, journal, config, requested, snapshot>>
    BY <1>11, Zenon DEF Loop, Poll, NoEvent, ComposerHangup, HandleEvent, EventTaken,
                        SessionEnds, NothingDue, AdvanceArmed
  <2>2. \/ pc' \in {"accept", "advance", "poll", "disarm", "get"}
        \/ \E next \in {"advance", "poll"} : Release(next) \/ Disarm(next)
    BY <1>11, Zenon DEF Loop, Poll, NoEvent, ComposerHangup, HandleEvent, EventTaken,
                        SessionEnds, NothingDue, AdvanceArmed, NotSettled, Settled
  <2>3. pc' # "journal" /\ (pc' = "replay" => journal # NoMode)
    BY <2>2, RecoverModes
  <2> QED
    BY <1>1, <2>1, <2>3, ModesQuiet
<1>12. CASE Startup
  <2>1. pc' # "journal" /\ (pc' = "replay" => journal # NoMode)
    BY <1>12, RecoverModes DEF Startup
  <2> QED
    BY <1>1, <1>12, <2>1, ModesQuiet DEF Startup
<1>13. CASE Stop
  <2>1. pc' # "journal" /\ (pc' = "replay" => journal # NoMode)
    BY <1>13, RecoverModes DEF Stop
  <2> QED
    BY <1>1, <1>13, <2>1, ModesQuiet DEF Stop
<1>14. CASE Crash
  BY <1>14, SMT DEF Crash, ModesStored
<1>15. CASE ChooseMode
  BY <1>15, SMT DEF ChooseMode, ModesStored
<1>16. CASE ChangeCable \/ SendHotplug \/ UNCHANGED vars
  BY <1>1, <1>16, ModesQuiet, Zenon DEF ChangeCable, SendHotplug, vars
<1> QED
  BY <1>3, <1>4, <1>5, <1>6, <1>7, <1>8, <1>9, <1>10, <1>11, <1>12, <1>13, <1>14, <1>15, <1>16,
     Zenon
  DEF Next, Call, Client, Environment

\* Every step keeps the types of the flags.
LEMMA FlagsStep ==
  ASSUME FlagsTyped, [Next]_vars
  PROVE  FlagsTyped'
<1> USE DEF FlagsTyped, files, flags, control, composer, cable
<1>1. CASE Replay \/ Unlink \/ GetMode \/ WriteJournal
  BY <1>1, ZenonT(60) DEF Replay, Unlink, GetMode, WriteJournal, ApplyFailed
<1>2. CASE SetPreferred
  BY <1>2, Zenon DEF SetPreferred
<1>3. CASE DisarmFailed \/ Arm
  BY <1>3, Zenon DEF DisarmFailed, Disarm, ClearArm, Arm
<1>4. CASE NoClient \/ AcceptStatus \/ AcceptSetMode \/ AcceptArm \/ AcceptProbe
  BY <1>4, ZenonT(60) DEF NoClient, AcceptStatus, AcceptSetMode, AcceptArm, AcceptProbe
<1>5. CASE AcceptDisarm
  BY <1>5, Zenon DEF AcceptDisarm, Release, Disarm, ClearArm
<1>6. CASE Poll \/ NoEvent \/ NothingDue
  BY <1>6, ZenonT(60) DEF Poll, NoEvent, NothingDue
<1>7. CASE ComposerHangup \/ EventTaken \/ SessionEnds
  BY <1>7, ZenonT(60) DEF ComposerHangup, EventTaken, SessionEnds, Release, Disarm, ClearArm
<1>8. CASE HandleEvent
  BY <1>8, Zenon DEF HandleEvent, PreserveArm, Release, Disarm, ClearArm
<1>9. CASE AdvanceArmed
  BY <1>9, Zenon DEF AdvanceArmed, NotSettled, Settled
<1>10. CASE Environment
  BY <1>10, ZenonT(60) DEF Environment, ChangeCable, SendHotplug, ChooseMode
<1>11. CASE Startup \/ Stop \/ Crash \/ UNCHANGED vars
  BY <1>11, ZenonT(60) DEF Startup, Stop, Crash, Died, vars
<1> QED
  BY <1>1, <1>2, <1>3, <1>4, <1>5, <1>6, <1>7, <1>8, <1>9, <1>10, <1>11, Zenon
  DEF Next, Call, Client, Loop

\* A request to the composer drains the queue of events.
LEMMA RequestTyped ==
  ASSUME ComposerTyped, NEW before \in BOOLEAN, NEW ok \in BOOLEAN, ComposerRequest(before, ok)
  PROVE  ComposerTyped'
<1>1. link' \in BOOLEAN /\ lost' \in BOOLEAN /\ inbox' = <<>>
  BY Zenon DEF ComposerRequest, Exchange, LostAfterRequest
<1>2. <<>> \in Seq({"connected", "disconnected"}) /\ Len(<<>>) <= MaxEvents
  BY ModeAssumptions DEF ModeAssumptions
<1> QED
  BY <1>1, <1>2, Zenon DEF ComposerTyped

\* A connection that is closed, or drained, has no events left.
LEMMA DrainTyped ==
  ASSUME link' \in BOOLEAN, lost' \in BOOLEAN, inbox' = <<>>
  PROVE  ComposerTyped'
<1>1. <<>> \in Seq({"connected", "disconnected"}) /\ Len(<<>>) <= MaxEvents
  BY ModeAssumptions DEF ModeAssumptions
<1> QED
  BY <1>1, Zenon DEF ComposerTyped

\* Reading one event leaves the rest of the queue.
LEMMA EventRead ==
  ASSUME ComposerTyped, inbox # <<>>, inbox' = Tail(inbox), link' = link, lost' \in BOOLEAN
  PROVE  ComposerTyped'
<1>1. PICK n \in Nat : n = Len(inbox)
  BY DEF ComposerTyped
<1>2. Tail(inbox) \in Seq({"connected", "disconnected"}) /\ Len(Tail(inbox)) = n - 1
  BY <1>1, SMT DEF ComposerTyped
<1>3. n - 1 <= MaxEvents
  BY <1>1, ModeAssumptions, SMT DEF ComposerTyped, ModeAssumptions
<1> QED
  BY <1>2, <1>3, Zenon DEF ComposerTyped

\* Every step keeps the queue within its bound.
LEMMA ComposerStep ==
  ASSUME ComposerTyped, [Next]_vars
  PROVE  ComposerTyped'
<1> USE DEF files, flags, control, composer, cable
<1>1. lost \in BOOLEAN
  BY DEF ComposerTyped
<1>2. CASE AnyRequest
  BY <1>1, <1>2, RequestTyped DEF AnyRequest
<1>3. CASE UNCHANGED composer
  BY <1>3, Zenon DEF ComposerTyped
<1>4. CASE Replay \/ Unlink \/ GetMode \/ WriteJournal \/ SetPreferred
  BY <1>3, <1>4, Zenon DEF Replay, Unlink, GetMode, WriteJournal, SetPreferred
<1>5. CASE DisarmFailed
  BY <1>5, Zenon DEF DisarmFailed, ComposerTyped
<1>6. CASE Arm
  BY <1>6, RequestTyped, Zenon DEF Arm
<1>7. CASE NoClient \/ AcceptStatus \/ AcceptSetMode \/ AcceptArm
  BY <1>2, <1>3, <1>7, Zenon DEF NoClient, AcceptStatus, AcceptSetMode, AcceptArm
<1>8. CASE AcceptDisarm
  <2>1. AnyRequest \/ (link' \in BOOLEAN /\ lost' \in BOOLEAN /\ inbox' = <<>>)
    BY <1>8, Zenon DEF AcceptDisarm, Exchange
  <2> QED
    BY <1>2, <2>1, DrainTyped
<1>9. CASE AcceptProbe
  <2>1. AnyRequest
    BY <1>9, Zenon DEF AcceptProbe, AnyRequest
  <2> QED
    BY <1>2, <2>1
<1>10. CASE Poll \/ NoEvent \/ NothingDue
  BY <1>3, <1>10, Zenon DEF Poll, NoEvent, NothingDue
<1>11. CASE ComposerHangup
  BY <1>1, <1>11, DrainTyped, Zenon DEF ComposerHangup
<1>12. CASE HandleEvent
  <2>1. CASE \E ok \in BOOLEAN : ComposerRequest(TRUE, ok)
    BY <2>1, RequestTyped, Zenon
  <2>2. CASE inbox # <<>> /\ inbox' = Tail(inbox) /\ link' = link /\ lost' \in BOOLEAN
    BY <2>2, EventRead
  <2> QED
    BY <1>12, <2>1, <2>2, Zenon DEF HandleEvent, PreserveArm
<1>13. CASE EventTaken
  <2>1. AnyRequest \/ UNCHANGED composer \/ (lost' = FALSE /\ link' = link /\ inbox' = inbox)
    BY <1>13, Zenon DEF EventTaken
  <2> QED
    BY <1>2, <1>3, <2>1, Zenon DEF ComposerTyped
<1>14. CASE SessionEnds
  BY <1>2, <1>3, <1>14, Zenon DEF SessionEnds, TellComposer
<1>15. CASE AdvanceArmed
  BY <1>1, <1>15, RequestTyped, Zenon DEF AdvanceArmed
<1>16. CASE SendHotplug
  <2>1. PICK e \in {"connected", "disconnected"} : inbox' \in {inbox, Append(inbox, e)}
    BY <1>16, Zenon DEF SendHotplug
  <2>2. PICK n \in Nat : n = Len(inbox)
    BY DEF ComposerTyped
  <2>3. /\ Append(inbox, e) \in Seq({"connected", "disconnected"})
        /\ Len(Append(inbox, e)) = n + 1
    BY <2>2, SMT DEF ComposerTyped
  <2>4. n + 1 <= MaxEvents
    BY <1>16, <2>2, ModeAssumptions, SMT DEF SendHotplug, ModeAssumptions
  <2> QED
    BY <1>16, <2>1, <2>3, <2>4, Zenon DEF SendHotplug, ComposerTyped
<1>17. CASE ChangeCable \/ ChooseMode \/ Startup \/ UNCHANGED vars
  BY <1>3, <1>17, Zenon DEF ChangeCable, ChooseMode, Startup, vars
<1>18. CASE Stop \/ Crash
  BY <1>18, DrainTyped, Zenon DEF Stop, Crash, Died
<1> QED
  BY <1>4, <1>5, <1>6, <1>7, <1>8, <1>9, <1>10, <1>11, <1>12, <1>13, <1>14, <1>15, <1>16, <1>17,
     <1>18, Zenon
  DEF Next, Call, Client, Loop, Environment

\* A cleared counter is below its limit.
LEMMA SamplesCleared ==
  ASSUME samples' = 0
  PROVE  SamplesBounded'
BY ModeAssumptions, SMT DEF SamplesBounded, ModeAssumptions

\* A step that leaves the counter, the request and the session alone, and does
\* not begin to apply a mode.
LEMMA SamplesQuiet ==
  ASSUME SamplesBounded, UNCHANGED <<samples, armed>>, active => active',
         pc' \in {"get", "journal", "set"} => pc \in {"get", "journal", "set"},
         pc' = "disarm" \/ pc # "disarm"
  PROVE  SamplesBounded'
BY Zenon DEF SamplesBounded

\* Release clears the counter of an armed request, and only such a one can have
\* reached the limit.
LEMMA SamplesReleased ==
  ASSUME SamplesBounded, PlacesKnown, Release("poll") \/ Release("composer") \/ Release("advance")
  PROVE  SamplesBounded'
<1>1. CASE armed
  BY <1>1, SamplesCleared, Zenon DEF Release, Disarm, ClearArm
<1>2. CASE ~armed
  <2>1. UNCHANGED samples /\ pc' \in {"poll", "composer", "advance"}
    BY <1>2, Zenon DEF Release
  <2> QED
    BY <1>2, <2>1, SMT DEF SamplesBounded
<1> QED
  BY <1>1, <1>2

\* The sample that reaches the limit starts the session or goes to disarm.
LEMMA SamplesCounted ==
  ASSUME SamplesBounded, ~active, armed, pc = "advance", Settled
  PROVE  SamplesBounded'
<1>1. samples \in Nat /\ samples < StableSamples
  BY ModeAssumptions, SMT DEF SamplesBounded, ModeAssumptions
<1>2. /\ samples' = samples + 1 /\ armed' = armed /\ pc' \in {"poll", "disarm"}
      /\ samples + 1 < StableSamples \/ active' \/ pc' = "disarm"
  BY Zenon DEF Settled, TooFewSamples
<1> QED
  BY <1>1, <1>2, ModeAssumptions, SMT DEF SamplesBounded, ModeAssumptions

\* Every step keeps the counter of stable samples within its limit.
LEMMA SamplesStep ==
  ASSUME SamplesBounded, PlacesKnown, [Next]_vars
  PROVE  SamplesBounded'
<1> USE DEF files, flags, control, composer, cable
<1>1. after \notin {"get", "journal", "set"}
  BY SMT DEF PlacesKnown
<1>2. CASE Replay \/ Unlink
  <2>1. UNCHANGED <<samples, armed, active>> /\ pc # "disarm" /\ pc' \in {"unlink", after}
    BY <1>2, Zenon DEF Replay, Unlink
  <2> QED
    BY <1>1, <2>1, SamplesQuiet
<1>3. CASE GetMode \/ WriteJournal \/ SetPreferred
  <2>1. UNCHANGED samples /\ pc \in {"get", "journal", "set"}
    BY <1>3, Zenon DEF GetMode, WriteJournal, SetPreferred
  <2> QED
    BY <2>1, SamplesCleared, SMT DEF SamplesBounded
<1>4. CASE DisarmFailed \/ Arm
  BY <1>4, SamplesCleared, Zenon DEF DisarmFailed, Disarm, ClearArm, Arm
<1>5. CASE AcceptDisarm
  <2>1. Release("composer") \/ samples' = 0
    BY <1>5, Zenon DEF AcceptDisarm, Disarm, ClearArm
  <2> QED
    BY <2>1, SamplesReleased, SamplesCleared
<1>6. CASE NoClient \/ AcceptStatus \/ AcceptSetMode \/ AcceptArm \/ AcceptProbe
  <2>1. UNCHANGED <<samples, armed>> /\ (active => active') /\ pc = "accept"
    <3>1. CASE AcceptProbe
      BY <3>1, Zenon DEF AcceptProbe, AtAccept
    <3>2. CASE NoClient \/ AcceptStatus \/ AcceptSetMode \/ AcceptArm
      <4>1. UNCHANGED <<samples, armed, active>> /\ pc = "accept"
        BY <3>2, Zenon DEF NoClient, AcceptStatus, AcceptSetMode, AcceptArm, AtAccept
      <4> QED
        BY <4>1
    <3> QED
      BY <1>6, <3>1, <3>2, Zenon
  <2>2. pc' \in {"arm", "composer"}
    BY <1>6, Zenon DEF NoClient, AcceptStatus, AcceptSetMode, AcceptArm, AcceptProbe, Passed
  <2> QED
    BY <2>1, <2>2, SamplesQuiet
<1>7. CASE Poll \/ NoEvent \/ NothingDue
  <2>1. /\ UNCHANGED <<samples, armed, active>> /\ pc # "disarm"
        /\ pc' \in {"accept", "advance", "poll"}
    BY <1>7, Zenon DEF Poll, NoEvent, NothingDue, AtComposer, AtAdvance
  <2> QED
    BY <2>1, SamplesQuiet
<1>8. CASE ComposerHangup \/ HandleEvent \/ EventTaken \/ SessionEnds
  <2>1. \/ Release("advance") \/ Release("poll") \/ samples' = 0
        \/ UNCHANGED <<samples, armed, active>> /\ pc = "composer" /\ pc' = "advance"
    BY <1>8, Zenon
    DEF ComposerHangup, HandleEvent, EventTaken, SessionEnds, AtComposer, PreserveArm, Disarm,
        ClearArm
  <2> QED
    BY <2>1, SamplesReleased, SamplesCleared, SamplesQuiet
<1>9. CASE AdvanceArmed
  <2>1. /\ ~active /\ armed /\ pc = "advance"
        /\ \/ samples' = 0 \/ Settled
           \/ UNCHANGED <<samples, armed, active>> /\ pc' = "poll"
    BY <1>9, Zenon DEF AdvanceArmed, AtAdvance, NotSettled
  <2> QED
    BY <2>1, SamplesCleared, SamplesCounted, SamplesQuiet, Zenon
<1>10. CASE Environment \/ UNCHANGED vars
  <2>1. UNCHANGED <<samples, armed, active, pc>>
    BY <1>10, Zenon DEF Environment, ChangeCable, SendHotplug, ChooseMode, vars
  <2> QED
    BY <2>1, Zenon DEF SamplesBounded
<1>11. CASE Startup
  <2>1. UNCHANGED <<samples, armed, active>> /\ pc = "down" /\ pc' \in {"poll", "replay"}
    BY <1>11, Zenon DEF Startup, Recover
  <2> QED
    BY <2>1, SamplesQuiet
<1>12. CASE Stop \/ Crash
  BY <1>12, SamplesCleared, Zenon DEF Stop, Crash, Died
<1> QED
  BY <1>2, <1>3, <1>4, <1>5, <1>6, <1>7, <1>8, <1>9, <1>10, <1>11, <1>12, Zenon
  DEF Next, Call, Client, Loop

\* A phone whose broker was never started satisfies the type invariant.
LEMMA TypeInit == Init => TypeInv
<1> SUFFICES ASSUME Init PROVE TypeInv
  OBVIOUS
<1>1. ModesStored /\ PlacesKnown
  BY SMT DEF Init, ModesStored, PlacesKnown, Presets
<1>2. FlagsTyped
  BY Zenon DEF Init, FlagsTyped
<1>3. <<>> \in Seq({"connected", "disconnected"}) /\ Len(<<>>) <= MaxEvents
  BY ModeAssumptions DEF ModeAssumptions
<1>4. ComposerTyped
  BY <1>3, Zenon DEF Init, ComposerTyped
<1>5. SamplesBounded
  BY ModeAssumptions, SMT DEF Init, SamplesBounded, ModeAssumptions
<1> QED
  BY <1>1, <1>2, <1>4, <1>5 DEF TypeInv

\* Whatever fails, the replay of the journal included, every variable keeps its
\* type: only modes that were read are journalled and replayed, the queue of
\* hotplug events keeps its bound, and stable_mode_samples_ never counts past
\* kModeStableSamples.
THEOREM ModeTypes == Spec => []TypeOK
<1>1. TypeInv /\ [Next]_vars => TypeInv'
  BY PlacesStep, ModesStoredStep, FlagsStep, ComposerStep, SamplesStep DEF TypeInv
<1>2. TypeInv => TypeOK
  BY Zenon
  DEF TypeInv, TypeOK, ModesStored, PlacesKnown, FlagsTyped, ComposerTyped, SamplesBounded
<1> QED
  BY TypeInit, <1>1, <1>2, PTL DEF Spec
=============================================================================
