---------------------------- MODULE InputBridge ----------------------------
(***************************************************************************)
(* hdmi-input-bridge: physical mice and keyboards, grabbed and merged into *)
(* one virtual mouse and one virtual keyboard.                             *)
(*                                                                         *)
(* A key is held on the virtual device while some source holds it:         *)
(* holders counts the sources.  The bridge is one thread; the devices, the *)
(* kernel's event queues and their overflow run beside it.  A code belongs *)
(* to one virtual device, so the two are one map from codes.               *)
(***************************************************************************)
EXTENDS Naturals, Sequences, FiniteSets

CONSTANTS
  Sources,    \* the event nodes a device can appear at
  Codes,      \* the key and button codes
  Keys,       \* the codes that a device has
  Accepts,    \* key_target: the codes that a source's roles let through
  MaxQueue,   \* size of the kernel's queue of one client, in events
  Batch       \* size of the events array that one read fills

None == "none"

ASSUME BridgeAssumptions ==
  /\ IsFiniteSet(Sources) /\ None \notin Sources
  /\ Keys \in [Sources -> SUBSET Codes] /\ Accepts \in [Sources -> SUBSET Codes]
  /\ MaxQueue \in Nat /\ MaxQueue > 2 /\ Batch \in Nat \ {0}

VARIABLES
  attached,   \* the sources whose device exists
  down,       \* the keys physically down on each
  queue,      \* the kernel's queue of each
  early,      \* the keys of each that were down before it was grabbed, and still are
  stale,      \* history: the sources that EVIOCGKEY brought out of step
  grabbed,    \* sources[]
  pressed,    \* source->pressed
  dropping,   \* the sources with source->dropping
  holders,    \* device->holders
  shown,      \* the keys down on the virtual devices
  at,         \* the source that forward_events works on
  events,     \* what its last read returned and is not yet handled
  stopped     \* the process has ended

kernel == <<attached, down, queue, early, stale>>
work == <<at, events>>
state == <<grabbed, pressed, dropping, holders, shown>>
vars == <<kernel, state, work, stopped>>

Key(c, v) == [type |-> "KEY", code |-> c, value |-> v]
Report == [type |-> "REPORT"]
Dropped == [type |-> "DROPPED"]

Init ==
  /\ attached = {} /\ down = [s \in Sources |-> {}] /\ queue = [s \in Sources |-> <<>>]
  /\ early = [s \in Sources |-> {}] /\ stale = {}
  /\ grabbed = {} /\ pressed = [s \in Sources |-> {}] /\ dropping = {}
  /\ holders = [c \in Codes |-> 0] /\ shown = {}
  /\ at = None /\ events = <<>> /\ stopped = FALSE

-----------------------------------------------------------------------------
(* The devices and the kernel's evdev queues. *)

\* A device appears at a path.  One that takes over the path of a device that
\* went away is noticed once the old one has been disconnected (source_exists).
Attach(s) ==
  /\ s \notin attached \cup grabbed /\ attached' = attached \cup {s}
  /\ UNCHANGED <<down, queue, early, stale, state, work, stopped>>

\* A device goes away; what waits in its queue can no longer be read.
Detach(s) ==
  /\ s \in attached /\ attached' = attached \ {s}
  /\ down' = [down EXCEPT ![s] = {}] /\ early' = [early EXCEPT ![s] = {}]
  /\ queue' = [queue EXCEPT ![s] = <<>>]
  /\ UNCHANGED <<stale, state, work, stopped>>

\* A key changes.  Its event and a report are queued for a client that has the
\* device open; an overflow leaves a marker and the newest event.
Change(s, c) ==
  LET v == IF c \in down[s] THEN 0 ELSE 1
      frame == <<Key(c, v), Report>>
      room == Len(queue[s]) + 2 <= MaxQueue
  IN /\ s \in attached /\ c \in Keys[s] /\ ~stopped
     /\ down' = [down EXCEPT ![s] = IF v = 1 THEN @ \cup {c} ELSE @ \ {c}]
     /\ early' = [early EXCEPT ![s] = @ \ {c}]
     /\ queue' = [queue EXCEPT ![s] = IF s \notin grabbed THEN @
                                      ELSE IF room THEN @ \o frame
                                      ELSE <<Dropped>> \o frame]
     /\ UNCHANGED <<attached, stale, state, work, stopped>>

\* EVIOCGKEY drops the key events that wait, and the reports this empties.
Flushed(q) == IF q # <<>> /\ Head(q) = Dropped THEN <<Dropped, Report>> ELSE <<>>

HasKey(q) == \E i \in DOMAIN q : q[i].type = "KEY"

-----------------------------------------------------------------------------
(* The keys. *)

KeyTargetAny(s, c) == TRUE

KeyTarget(s, c) == c \in Accepts[s]

ChangeKeysIgnoringHolders(s, want) ==
  LET gone == pressed[s] \ want
      new == want \ pressed[s]
  IN /\ pressed' = [pressed EXCEPT ![s] = want]
     /\ holders' = [c \in Codes |-> IF c \in gone THEN holders[c] - 1
                                    ELSE IF c \in new THEN holders[c] + 1 ELSE holders[c]]
     /\ shown' = (shown \ gone) \cup new

\* change_key for every key in which the source's keys and want differ: the
\* virtual key goes down with its first holder and up with its last.  Autorepeat,
\* which changes no key, is left out.
ChangeKeys(s, want) ==
  LET gone == pressed[s] \ want
      new == want \ pressed[s]
  IN /\ pressed' = [pressed EXCEPT ![s] = want]
     /\ holders' = [c \in Codes |-> IF c \in gone THEN holders[c] - 1
                                    ELSE IF c \in new THEN holders[c] + 1 ELSE holders[c]]
     /\ shown' = (shown \ {c \in gone : holders[c] = 1}) \cup {c \in new : holders[c] = 0}

\* reconcile_keys
ReconcileKeys(s) ==
  /\ ChangeKeys(s, {c \in down[s] : KeyTarget(s, c)})
  /\ queue' = [queue EXCEPT ![s] = Flushed(@)]

\* scan_physical: a new device is opened and grabbed, keys already down and all.
Grab(s) ==
  /\ at = None /\ ~stopped
  /\ s \in attached \ grabbed
  /\ grabbed' = grabbed \cup {s}
  /\ queue' = [queue EXCEPT ![s] = <<>>]
  /\ early' = [early EXCEPT ![s] = down[s]]
  /\ UNCHANGED <<attached, down, stale, pressed, dropping, holders, shown, work, stopped>>

-----------------------------------------------------------------------------
(* forward_events: read until there is nothing left, handle event by event. *)

Read(s) ==
  /\ at \in {None, s} /\ events = <<>> /\ ~stopped
  /\ s \in grabbed \cap attached /\ queue[s] # <<>>
  /\ LET n == IF Len(queue[s]) < Batch THEN Len(queue[s]) ELSE Batch
     IN /\ events' = SubSeq(queue[s], 1, n)
        /\ queue' = [queue EXCEPT ![s] = SubSeq(@, n + 1, Len(@))]
  /\ at' = s
  /\ UNCHANGED <<attached, down, early, stale, state, stopped>>

\* The read finds nothing (EAGAIN).
Drained ==
  /\ at \in attached /\ events = <<>> /\ queue[at] = <<>>
  /\ at' = None
  /\ UNCHANGED <<kernel, state, events, stopped>>

Handle(type) ==
  /\ events # <<>> /\ Head(events).type = type
  /\ events' = Tail(events) /\ UNCHANGED <<at, stopped>>

HandleDropped ==
  /\ Handle("DROPPED")
  /\ dropping' = dropping \cup {at}
  /\ UNCHANGED <<kernel, grabbed, pressed, holders, shown>>

ReportReconcilesNothing ==
  /\ Handle("REPORT")
  /\ at \in dropping => at \in attached
  /\ dropping' = dropping \ {at}
  /\ stale' = stale \ {at}
  /\ UNCHANGED <<attached, down, queue, early, grabbed, pressed, holders, shown>>

\* A report ends the frame; after an overflow it first brings the keys up to
\* date.  Key events that were read together with it are handled after events
\* newer than they are have been dropped: the keys stay in doubt.
HandleReport ==
  /\ Handle("REPORT")
  /\ IF at \in dropping
     THEN /\ at \in attached
          /\ ReconcileKeys(at)
          /\ dropping' = dropping \ {at}
          /\ stale' = IF HasKey(Tail(events)) /\ HasKey(queue[at]) THEN stale \cup {at}
                      ELSE stale \ {at}
     ELSE UNCHANGED <<queue, stale, dropping, pressed, holders, shown>>
  /\ UNCHANGED <<attached, down, early, grabbed>>

HandleKey ==
  /\ Handle("KEY")
  /\ LET c == Head(events).code
     IN IF at \in dropping \/ ~KeyTarget(at, c)
        THEN UNCHANGED <<pressed, holders, shown>>
        ELSE ChangeKeys(at, IF Head(events).value = 1 THEN pressed[at] \cup {c}
                            ELSE pressed[at] \ {c})
  /\ UNCHANGED <<kernel, grabbed, dropping>>

\* The device hung up, or a read or EVIOCGKEY of it failed: disconnect_physical
\* lets go of all that it held.
Disconnect(s) ==
  /\ s \in grabbed \ attached /\ ~stopped
  /\ \/ at = None
     \/ at = s /\ (events # <<>> => Head(events) = Report /\ s \in dropping)
  /\ at' = None /\ events' = <<>>
  /\ ChangeKeys(s, {})
  /\ grabbed' = grabbed \ {s} /\ dropping' = dropping \ {s}
  /\ stale' = stale \ {s}
  /\ UNCHANGED <<attached, down, queue, early, stopped>>

\* SIGTERM: every source is disconnected, then the virtual devices are
\* destroyed; release_keys finds what is still held.
Stop ==
  /\ at = None /\ ~stopped /\ stopped' = TRUE
  /\ grabbed' = {} /\ dropping' = {}
  /\ pressed' = [s \in Sources |-> {}]
  /\ holders' = [c \in Codes |-> 0] /\ shown' = {c \in shown : holders[c] = 0}
  /\ queue' = [s \in Sources |-> <<>>]
  /\ UNCHANGED <<attached, down, early, stale, work>>

Next ==
  \/ \E s \in Sources : \/ Attach(s) \/ Detach(s) \/ Grab(s) \/ Read(s) \/ Disconnect(s)
                        \/ \E c \in Codes : Change(s, c)
  \/ Drained \/ HandleDropped \/ HandleReport \/ HandleKey \/ Stop

Spec == Init /\ [][Next]_vars

-----------------------------------------------------------------------------
\* Every variable of the bridge has its type, and a source presses only keys
\* that key_target gives it.
TypeOK ==
  /\ attached \subseteq Sources /\ stale \subseteq Sources
  /\ grabbed \subseteq Sources /\ dropping \subseteq grabbed
  /\ down \in [Sources -> SUBSET Codes] /\ early \in [Sources -> SUBSET Codes]
  /\ \A s \in Sources : pressed[s] \subseteq Accepts[s] /\ Len(queue[s]) <= MaxQueue
  /\ holders \in [Codes -> 0 .. Cardinality(Sources)] /\ shown \subseteq Codes
  /\ at \in Sources \cup {None} /\ Len(events) <= Batch /\ stopped \in BOOLEAN

\* The unsigned counter of each virtual key is the number of grabbed devices
\* that hold it, so that it never wraps below zero, and the virtual key is down
\* exactly while the count is positive: not after one of two devices lets go or
\* disappears while the other still holds it, and not after the last has.
HoldersExact ==
  \A c \in Codes :
    /\ holders[c] = Cardinality({s \in grabbed : c \in pressed[s]})
    /\ c \in shown <=> holders[c] > 0

\* Once everything a device sent has been handled, its keys are known: no key is
\* taken for down that is up, and none is missed but those that were down before
\* the device was grabbed.  This includes a device whose queue overflowed, unless
\* key events were read together with the report that ends the overflow and newer
\* ones were dropped by EVIOCGKEY.
KeysFollowDevice ==
  \A s \in (grabbed \cap attached) \ stale :
    queue[s] = <<>> /\ (at = s => events = <<>>)
      => /\ pressed[s] \subseteq down[s]
         /\ (down[s] \cap Accepts[s]) \ early[s] \subseteq pressed[s]
=============================================================================
