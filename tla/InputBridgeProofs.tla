-------------------------- MODULE InputBridgeProofs --------------------------
(***************************************************************************)
(* Proofs about InputBridge, for any number of devices, any keys and any   *)
(* sizes of the queues: the counters of the virtual keys are exact, and    *)
(* the keys of every device are known once its events are handled.         *)
(***************************************************************************)
EXTENDS InputBridge, FiniteSetTheorems, TLAPS

Events == [type : {"KEY"}, code : Codes, value : {0, 1}] \cup {Report, Dropped}

KernelTyped ==
  /\ attached \subseteq Sources /\ stale \subseteq Sources
  /\ down \in [Sources -> SUBSET Codes] /\ early \in [Sources -> SUBSET Codes]
  /\ queue \in [Sources -> Seq(Events)] /\ \A s \in Sources : Len(queue[s]) <= MaxQueue

BridgeTyped ==
  /\ grabbed \subseteq Sources /\ dropping \subseteq grabbed
  /\ pressed \in [Sources -> SUBSET Codes]
  /\ \A s \in Sources : pressed[s] \subseteq Accepts[s]
  /\ holders \in [Codes -> Nat] /\ shown \subseteq Codes /\ stopped \in BOOLEAN

\* forward_events works on a device that is in sources[].
WorkTyped ==
  /\ events \in Seq(Events) /\ Len(events) <= Batch
  /\ at \in grabbed \/ (at = None /\ events = <<>>)

Typed == KernelTyped /\ BridgeTyped /\ WorkTyped

\* Only a device in sources[] holds keys.
HoldersInv == HoldersExact /\ \A s \in Sources \ grabbed : pressed[s] = {}

\* The events of a device that the bridge has read and not handled.
Unhandled(s) == IF at = s THEN events ELSE <<>>

IsKey(e, c) == e.type = "KEY" /\ e.code = c
Mentions(q, c) == \E i \in 1 .. Len(q) : IsKey(q[i], c)
Overflowed(q) == \E i \in 1 .. Len(q) : q[i] = Dropped

\* The newest event of each key in q says whether the key is in keys, unless there
\* is one in later.
Newest(q, later, keys) ==
  \A i \in 1 .. Len(q) :
    /\ q[i].type = "KEY" /\ ~Mentions(later, q[i].code)
    /\ \A j \in i + 1 .. Len(q) : ~IsKey(q[j], q[i].code)
    => (q[i].value = 1 <=> q[i].code \in keys)

\* The marker of an overflow is the first event of what it begins.
MarkersInv ==
  /\ \A s \in Sources : \A i \in 1 .. Len(queue[s]) : queue[s][i] = Dropped => i = 1
  /\ \A i \in 1 .. Len(events) : events[i] = Dropped => i = 1

\* An overflow whose report is still to come finds it: what is queued ends with a
\* report, and so does what was read when nothing is queued behind it.
Reporting(s) ==
  /\ queue[s] # <<>> => queue[s][Len(queue[s])] = Report
  /\ (s \in dropping \/ Overflowed(Unhandled(s))) /\ queue[s] = <<>>
       => Unhandled(s) # <<>> /\ Unhandled(s)[Len(Unhandled(s))] = Report

\* What is queued is newer than what was read.  The newest of both is up to date
\* unless an overflow or EVIOCGKEY came in between; a batch that was read after
\* an overflow is up to date again.
Current(s) ==
  /\ Newest(queue[s], <<>>, down[s])
  /\ s \notin stale \/ s \in dropping \/ Overflowed(Unhandled(s))
       => Overflowed(queue[s]) \/ Newest(Unhandled(s), queue[s], down[s])

\* A key that no pending event mentions is known, unless the bridge still has to
\* bring the device's keys up to date.
Known(s) ==
  s \notin stale \cup dropping /\ ~Overflowed(queue[s]) /\ ~Overflowed(Unhandled(s)) =>
    \A c \in Accepts[s] :
      ~Mentions(queue[s], c) /\ ~Mentions(Unhandled(s), c) =>
        /\ c \in pressed[s] => c \in down[s]
        /\ c \in down[s] \ early[s] => c \in pressed[s]

DeviceInv(s) == Reporting(s) /\ Current(s) /\ Known(s)

EventsInv == MarkersInv /\ \A s \in grabbed \cap attached : DeviceInv(s)

BridgeInv == HoldersInv /\ EventsInv

-----------------------------------------------------------------------------
(* The counters. *)

\* The devices in sources[] that hold a key.
Holding(c) == {s \in grabbed : c \in pressed[s]}

\* They are finitely many.
LEMMA HoldingFinite ==
  ASSUME Typed, NEW c
  PROVE  /\ IsFiniteSet(Holding(c)) /\ Cardinality(Holding(c)) \in Nat
         /\ Cardinality(Holding(c)) <= Cardinality(Sources)
         /\ Cardinality(Holding(c)) > 0 <=> Holding(c) # {}
<1>1. IsFiniteSet(Sources) /\ Holding(c) \subseteq Sources
  BY BridgeAssumptions DEF BridgeAssumptions, Holding, Typed, BridgeTyped
<1>2. IsFiniteSet(Holding(c)) /\ Cardinality(Holding(c)) <= Cardinality(Sources)
  BY <1>1, FS_Subset
<1>3. Cardinality(Holding(c)) \in Nat
  BY <1>2, FS_CardinalityType
<1>4. Cardinality(Holding(c)) = 0 <=> Holding(c) = {}
  BY <1>2, FS_EmptySet
<1> QED
  BY <1>2, <1>3, <1>4

\* change_key keeps the counters and the virtual keys exact.
LEMMA ChangeKeysExact ==
  ASSUME Typed, HoldersExact, NEW s \in grabbed, NEW want \in SUBSET Codes, ChangeKeys(s, want)
  PROVE  \A c \in Codes :
           LET now == {r \in grabbed : c \in pressed'[r]} IN
           holders'[c] = Cardinality(now) /\ (c \in shown' <=> holders'[c] > 0)
<1> SUFFICES ASSUME NEW c \in Codes
             PROVE  LET now == {r \in grabbed : c \in pressed'[r]} IN
                    holders'[c] = Cardinality(now) /\ (c \in shown' <=> holders'[c] > 0)
  OBVIOUS
<1> DEFINE now == {r \in grabbed : c \in pressed'[r]}
<1>1. s \in Sources /\ pressed \in [Sources -> SUBSET Codes] /\ grabbed \subseteq Sources
  BY DEF Typed, BridgeTyped
<1>2. pressed' = [pressed EXCEPT ![s] = want]
  BY DEF ChangeKeys
<1>3. holders[c] = Cardinality(Holding(c)) /\ (c \in shown <=> holders[c] > 0)
  BY DEF HoldersExact, Holding
<1>4. /\ IsFiniteSet(Holding(c)) /\ holders[c] \in Nat
      /\ holders[c] > 0 <=> Holding(c) # {}
  BY <1>3, HoldingFinite
<1>5. CASE c \in pressed[s] \ want
  <2>1. now = Holding(c) \ {s} /\ s \in Holding(c)
    BY <1>1, <1>2, <1>5 DEF Holding
  <2>2. Cardinality(now) = holders[c] - 1 /\ holders[c] > 0
    <3>1. Cardinality(Holding(c) \ {s}) = Cardinality(Holding(c)) - 1
      BY <1>4, <2>1, FS_RemoveElement, Zenon
    <3> QED
      BY <1>3, <1>4, <2>1, <3>1, Zenon
  <2>3. holders'[c] = holders[c] - 1 /\ (c \in shown' <=> c \in shown /\ holders[c] # 1)
    BY <1>5 DEF ChangeKeys
  <2> QED
    BY <1>3, <1>4, <2>2, <2>3
<1>6. CASE c \in want \ pressed[s]
  <2>1. now = Holding(c) \cup {s} /\ s \notin Holding(c)
    BY <1>1, <1>2, <1>6 DEF Holding
  <2>2. Cardinality(now) = holders[c] + 1
    <3>1. Cardinality(Holding(c) \cup {s}) = Cardinality(Holding(c)) + 1
      BY <1>4, <2>1, FS_AddElement, Zenon
    <3> QED
      BY <1>3, <2>1, <3>1, Zenon
  <2>3. holders'[c] = holders[c] + 1 /\ (c \in shown' <=> c \in shown \/ holders[c] = 0)
    BY <1>6 DEF ChangeKeys
  <2> QED
    BY <1>3, <1>4, <2>2, <2>3
<1>7. CASE c \in want <=> c \in pressed[s]
  <2>1. now = Holding(c)
    BY <1>1, <1>2, <1>7 DEF Holding
  <2>2. holders'[c] = holders[c] /\ (c \in shown' <=> c \in shown)
    BY <1>7 DEF ChangeKeys
  <2> QED
    BY <1>3, <2>1, <2>2, Zenon
<1> QED
  BY <1>5, <1>6, <1>7

-----------------------------------------------------------------------------
(* Types. *)

\* change_key gives a device only keys that key_target lets through.
LEMMA ChangeKeysTyped ==
  ASSUME Typed, NEW s \in grabbed, NEW want \in SUBSET Codes, want \subseteq Accepts[s],
         HoldersExact, ChangeKeys(s, want)
  PROVE  /\ pressed' \in [Sources -> SUBSET Codes]
         /\ \A r \in Sources : pressed'[r] \subseteq Accepts[r]
         /\ holders' \in [Codes -> Nat] /\ shown' \subseteq Codes
<1>1. s \in Sources /\ pressed \in [Sources -> SUBSET Codes] /\ holders \in [Codes -> Nat]
      /\ shown \subseteq Codes
  BY DEF Typed, BridgeTyped
<1>2. pressed' = [pressed EXCEPT ![s] = want]
  BY DEF ChangeKeys
<1>3. pressed' \in [Sources -> SUBSET Codes] /\ \A r \in Sources : pressed'[r] \subseteq Accepts[r]
  BY <1>1, <1>2 DEF Typed, BridgeTyped
<1>4. \A c \in pressed[s] : holders[c] > 0
  BY <1>1, HoldingFinite, Zenon DEF HoldersExact, Holding
<1>5. holders' \in [Codes -> Nat]
  BY <1>1, <1>4 DEF ChangeKeys
<1>6. shown' \subseteq Codes
  BY <1>1 DEF ChangeKeys
<1> QED
  BY <1>3, <1>5, <1>6

\* One piece of a queue behind another.
LEMMA Joined ==
  ASSUME NEW S, NEW q \in Seq(S), NEW r \in Seq(S)
  PROVE  /\ q \o r \in Seq(S) /\ Len(q \o r) = Len(q) + Len(r)
         /\ \A i \in 1 .. Len(q \o r) :
              (q \o r)[i] = IF i <= Len(q) THEN q[i] ELSE r[i - Len(q)]
OBVIOUS

\* The two places where forward_events changes keys, and the end of a device.
LEMMA KeyChanges ==
  ASSUME Typed, HoldersExact
  PROVE  /\ HandleKey => at \in grabbed /\ Head(events) \in Events /\ Head(events).type = "KEY"
                         /\ Head(events).code \in Codes
         /\ HandleKey => \/ UNCHANGED <<pressed, holders, shown>>
                         \/ \E want \in SUBSET Codes : want \subseteq Accepts[at] /\ ChangeKeys(at, want)
         /\ HandleReport => \/ UNCHANGED <<pressed, holders, shown>>
                            \/ \E want \in SUBSET Codes :
                                 /\ at \in grabbed /\ want \subseteq Accepts[at]
                                 /\ ChangeKeys(at, want)
<1>1. ASSUME events # <<>> PROVE at \in grabbed /\ at \in Sources /\ Head(events) \in Events
  BY <1>1 DEF Typed, WorkTyped, BridgeTyped
<1>2. \A e \in Events : e.type = "KEY" => e.code \in Codes
  BY DEF Events, Report, Dropped
<1>3. ASSUME HandleKey
      PROVE  at \in grabbed /\ Head(events) \in Events /\ Head(events).type = "KEY"
             /\ Head(events).code \in Codes
  BY <1>1, <1>2, <1>3 DEF HandleKey, Handle
<1>4. ASSUME HandleKey, ~UNCHANGED <<pressed, holders, shown>>
      PROVE  \E want \in SUBSET Codes : want \subseteq Accepts[at] /\ ChangeKeys(at, want)
  <2> DEFINE c == Head(events).code
             want == IF Head(events).value = 1 THEN pressed[at] \cup {c} ELSE pressed[at] \ {c}
  <2>1. c \in Accepts[at] /\ ChangeKeys(at, want)
    BY <1>4 DEF HandleKey, KeyTarget
  <2>2. pressed[at] \in SUBSET Codes /\ pressed[at] \subseteq Accepts[at]
    BY <1>1, <1>4 DEF HandleKey, Handle, Typed, BridgeTyped
  <2>3. want \in SUBSET Codes /\ want \subseteq Accepts[at]
    BY <1>3, <1>4, <2>1, <2>2
  <2> QED
    BY <2>1, <2>3, Zenon
<1>5. ASSUME HandleReport, ~UNCHANGED <<pressed, holders, shown>>
      PROVE  \E want \in SUBSET Codes :
               at \in grabbed /\ want \subseteq Accepts[at] /\ ChangeKeys(at, want)
  <2> DEFINE want == {c \in down[at] : KeyTarget(at, c)}
  <2>1. at \in grabbed /\ at \in Sources
    BY <1>1, <1>5 DEF HandleReport, Handle
  <2>2. ChangeKeys(at, want)
    BY <1>5, Zenon DEF HandleReport, ReconcileKeys
  <2>3. want \in SUBSET Codes /\ want \subseteq Accepts[at]
    BY <2>1 DEF KeyTarget, Typed, KernelTyped
  <2> QED
    BY <2>1, <2>2, <2>3, Zenon
<1> QED
  BY <1>3, <1>4, <1>5, Zenon

\* Every step keeps the types of the bridge.
LEMMA BridgeStep ==
  ASSUME Typed, HoldersExact, [Next]_vars PROVE BridgeTyped'
<1> USE DEF kernel, work, state, BridgeTyped
<1>1. CASE \E s \in Sources : Grab(s)
  BY <1>1 DEF Grab, Typed, KernelTyped
<1>2. ASSUME NEW s \in Sources, Disconnect(s) PROVE BridgeTyped'
  <2>1. s \in grabbed /\ ChangeKeys(s, {})
    BY <1>2 DEF Disconnect
  <2>2. /\ pressed' \in [Sources -> SUBSET Codes]
        /\ \A r \in Sources : pressed'[r] \subseteq Accepts[r]
        /\ holders' \in [Codes -> Nat] /\ shown' \subseteq Codes
    BY <2>1, ChangeKeysTyped
  <2>3. grabbed' \subseteq Sources /\ dropping' \subseteq grabbed' /\ stopped' = stopped
    BY <1>2 DEF Disconnect, Typed
  <2> QED
    BY <2>2, <2>3, Zenon DEF Typed
<1>3. CASE HandleKey \/ HandleReport
  <2>1. /\ pressed' \in [Sources -> SUBSET Codes]
        /\ \A r \in Sources : pressed'[r] \subseteq Accepts[r]
        /\ holders' \in [Codes -> Nat] /\ shown' \subseteq Codes
    <3>1. CASE UNCHANGED <<pressed, holders, shown>>
      BY <3>1 DEF Typed
    <3>2. CASE \E want \in SUBSET Codes :
                 at \in grabbed /\ want \subseteq Accepts[at] /\ ChangeKeys(at, want)
      BY <3>2, ChangeKeysTyped
    <3> QED
      BY <1>3, <3>1, <3>2, KeyChanges, Zenon
  <2>2. grabbed' \subseteq Sources /\ dropping' \subseteq grabbed' /\ stopped' = stopped
    BY <1>3 DEF HandleKey, HandleReport, Handle, Typed
  <2> QED
    BY <2>1, <2>2, Zenon DEF Typed
<1>4. CASE HandleDropped
  <2>1. at \in grabbed
    BY <1>4 DEF HandleDropped, Handle, Typed, WorkTyped
  <2> QED
    BY <1>4, <2>1 DEF HandleDropped, Handle, Typed
<1>5. CASE Stop
  BY <1>5 DEF Stop, Typed
<1>6. CASE Drained \/ (\E s \in Sources : Attach(s) \/ Detach(s) \/ Read(s) \/ \E c \in Codes : Change(s, c))
             \/ UNCHANGED vars
  <2>1. UNCHANGED <<grabbed, pressed, dropping, holders, shown, stopped>>
    BY <1>6, Zenon DEF Drained, Attach, Detach, Read, Change, vars
  <2> QED
    BY <2>1, Zenon DEF Typed
<1> QED
  BY <1>1, <1>2, <1>3, <1>4, <1>5, <1>6, Zenon DEF Next

\* Of what forward_events has read.
LEMMA WorkStep ==
  ASSUME Typed, [Next]_vars PROVE WorkTyped'
<1> USE DEF kernel, work, state, WorkTyped
<1>1. ASSUME NEW s \in Sources, Read(s) PROVE WorkTyped'
  <2> DEFINE n == IF Len(queue[s]) < Batch THEN Len(queue[s]) ELSE Batch
  <2>1. queue[s] \in Seq(Events) /\ s \in grabbed /\ grabbed' = grabbed
    BY <1>1 DEF Read, Typed, KernelTyped
  <2>2. n \in 0 .. Len(queue[s]) /\ n <= Batch
    BY <2>1, BridgeAssumptions DEF BridgeAssumptions
  <2>3. events' = SubSeq(queue[s], 1, n) /\ at' = s
    BY <1>1 DEF Read
  <2>4. events' \in Seq(Events) /\ Len(events') = n
    BY <2>1, <2>2, <2>3
  <2> QED
    BY <2>1, <2>2, <2>3, <2>4
<1>2. ASSUME NEW type, Handle(type), grabbed' = grabbed PROVE WorkTyped'
  <2>1. events # <<>> /\ events' = Tail(events) /\ at' = at
    BY <1>2 DEF Handle
  <2>2. events' \in Seq(Events) /\ Len(events') <= Batch
    BY <2>1, BridgeAssumptions DEF BridgeAssumptions, Typed
  <2> QED
    BY <1>2, <2>1, <2>2 DEF Typed
<1>3. CASE HandleDropped \/ HandleReport \/ HandleKey
  BY <1>2, <1>3, Zenon DEF HandleDropped, HandleReport, HandleKey
<1>4. CASE Drained \/ (\E s \in Sources : Disconnect(s))
  <2>1. events' = <<>> /\ at' = None
    BY <1>4 DEF Drained, Disconnect
  <2> QED
    BY <2>1, BridgeAssumptions DEF BridgeAssumptions
<1>5. CASE Stop
  <2>1. at = None /\ UNCHANGED <<at, events>>
    BY <1>5 DEF Stop
  <2>2. at \notin grabbed
    BY <2>1, BridgeAssumptions DEF BridgeAssumptions, Typed, BridgeTyped
  <2> QED
    BY <2>1, <2>2, Zenon DEF Typed
<1>6. CASE (\E s \in Sources : Attach(s) \/ Detach(s) \/ Grab(s) \/ \E c \in Codes : Change(s, c))
             \/ UNCHANGED vars
  <2>1. UNCHANGED <<at, events>> /\ grabbed \subseteq grabbed'
    BY <1>6, Zenon DEF Attach, Detach, Grab, Change, vars
  <2> QED
    BY <2>1 DEF Typed
<1> QED
  BY <1>1, <1>3, <1>4, <1>5, <1>6, Zenon DEF Next

\* And of the kernel's queues.
LEMMA KernelStep ==
  ASSUME Typed, [Next]_vars PROVE KernelTyped'
<1> USE DEF kernel, work, state, KernelTyped
<1>1. CASE \E s \in Sources : Attach(s)
  BY <1>1 DEF Attach, Typed
<1>2. ASSUME NEW s \in Sources, NEW q \in Seq(Events), Len(q) <= MaxQueue,
             queue' = [queue EXCEPT ![s] = q]
      PROVE  queue' \in [Sources -> Seq(Events)] /\ \A r \in Sources : Len(queue'[r]) <= MaxQueue
  <2>1. queue' \in [Sources -> Seq(Events)] /\ \A r \in Sources : queue'[r] = IF r = s THEN q ELSE queue[r]
    BY <1>2 DEF Typed
  <2> QED
    BY <1>2, <2>1 DEF Typed
<1>3. ASSUME NEW s \in Sources, Detach(s) \/ Grab(s) PROVE KernelTyped'
  <2>1. <<>> \in Seq(Events) /\ Len(<<>>) <= MaxQueue
    BY BridgeAssumptions DEF BridgeAssumptions
  <2>2. queue' = [queue EXCEPT ![s] = <<>>]
    BY <1>3 DEF Detach, Grab
  <2>3. /\ attached' \subseteq Sources /\ stale' \subseteq Sources
        /\ down' \in [Sources -> SUBSET Codes] /\ early' \in [Sources -> SUBSET Codes]
    BY <1>3, Zenon DEF Detach, Grab, Typed
  <2> QED
    BY <1>2, <2>1, <2>2, <2>3, Zenon
<1>4. ASSUME NEW s \in Sources, NEW c \in Codes, Change(s, c) PROVE KernelTyped'
  <2> DEFINE frame == <<Key(c, IF c \in down[s] THEN 0 ELSE 1), Report>>
             q == IF s \notin grabbed THEN queue[s]
                  ELSE IF Len(queue[s]) + 2 <= MaxQueue THEN queue[s] \o frame
                  ELSE <<Dropped>> \o frame
  <2>1. frame \in Seq(Events) /\ Len(frame) = 2 /\ <<Dropped>> \in Seq(Events) /\ Len(<<Dropped>>) = 1
    <3>1. Key(c, IF c \in down[s] THEN 0 ELSE 1) \in Events /\ Report \in Events /\ Dropped \in Events
      BY DEF Key, Events
    <3> QED
      BY <3>1
  <2> HIDE DEF frame
  <2>2. queue[s] \in Seq(Events) /\ Len(queue[s]) <= MaxQueue
    BY DEF Typed
  <2>3. q \in Seq(Events) /\ Len(q) <= MaxQueue
    <3>1. queue[s] \o frame \in Seq(Events) /\ Len(queue[s] \o frame) = Len(queue[s]) + Len(frame)
      BY <2>1, <2>2, Joined, Zenon
    <3>2. /\ <<Dropped>> \o frame \in Seq(Events)
          /\ Len(<<Dropped>> \o frame) = Len(<<Dropped>>) + Len(frame)
      BY <2>1, Joined, Zenon
    <3>3. 3 <= MaxQueue
      BY BridgeAssumptions DEF BridgeAssumptions
    <3> QED
      BY <2>1, <2>2, <3>1, <3>2, <3>3
  <2>4. queue' = [queue EXCEPT ![s] = q]
    BY <1>4 DEF Change, frame
  <2>5. /\ attached' \subseteq Sources /\ stale' \subseteq Sources
        /\ down' \in [Sources -> SUBSET Codes] /\ early' \in [Sources -> SUBSET Codes]
    BY <1>4 DEF Change, Typed
  <2> HIDE DEF q
  <2> QED
    BY <1>2, <2>3, <2>4, <2>5, Zenon
<1>5. CASE (\E s \in Sources : Read(s)) \/ HandleReport
  <2>1. ASSUME HandleReport, UNCHANGED queue PROVE KernelTyped'
    <3>1. at \in Sources /\ UNCHANGED <<attached, down, early>>
      BY <2>1 DEF HandleReport, Handle, Typed, WorkTyped, BridgeTyped
    <3>2. stale' \subseteq Sources
      BY <2>1, <3>1 DEF HandleReport, Typed
    <3> QED
      BY <2>1, <3>1, <3>2, Zenon DEF Typed
  <2>2. ASSUME NEW s \in Sources, Read(s) PROVE KernelTyped'
    <3> DEFINE n == IF Len(queue[s]) < Batch THEN Len(queue[s]) ELSE Batch
               q == SubSeq(queue[s], n + 1, Len(queue[s]))
    <3>1. queue' = [queue EXCEPT ![s] = q] /\ UNCHANGED <<attached, down, early, stale>>
      BY <2>2 DEF Read
    <3>2. queue[s] \in Seq(Events) /\ Len(queue[s]) <= MaxQueue
      BY DEF Typed
    <3>3. n \in 0 .. Len(queue[s])
      BY <3>2, BridgeAssumptions DEF BridgeAssumptions
    <3>4. q \in Seq(Events) /\ Len(q) <= MaxQueue
      BY <3>2, <3>3, BridgeAssumptions DEF BridgeAssumptions
    <3> HIDE DEF q
    <3> QED
      BY <1>2, <3>1, <3>4, Zenon DEF Typed
  <2>3. ASSUME HandleReport, ~UNCHANGED queue PROVE KernelTyped'
    <3>1. at \in Sources
      BY <2>3 DEF HandleReport, Handle, Typed, WorkTyped, BridgeTyped
    <3>2. queue' = [queue EXCEPT ![at] = Flushed(queue[at])] /\ UNCHANGED <<attached, down, early>>
      BY <2>3, Zenon DEF HandleReport, ReconcileKeys
    <3>3. stale' \subseteq Sources
      BY <2>3, <3>1 DEF HandleReport, Typed
    <3>4. <<>> \in Seq(Events) /\ <<Dropped, Report>> \in Seq(Events)
          /\ Len(<<>>) <= MaxQueue /\ Len(<<Dropped, Report>>) <= MaxQueue
      BY BridgeAssumptions DEF BridgeAssumptions, Events
    <3>5. Flushed(queue[at]) \in Seq(Events) /\ Len(Flushed(queue[at])) <= MaxQueue
      BY <3>4, Zenon DEF Flushed
    <3> QED
      BY <1>2, <3>1, <3>2, <3>3, <3>5, Zenon DEF Typed
  <2> QED
    BY <1>5, <2>1, <2>2, <2>3, Zenon
<1>6. CASE \E s \in Sources : Disconnect(s)
  BY <1>6 DEF Disconnect, Typed
<1>7. CASE Stop
  BY <1>7, BridgeAssumptions DEF BridgeAssumptions, Stop, Typed
<1>8. CASE Drained \/ HandleDropped \/ HandleKey \/ UNCHANGED vars
  <2>1. UNCHANGED kernel
    BY <1>8, Zenon DEF Drained, HandleDropped, HandleKey, vars
  <2> QED
    BY <2>1, Zenon DEF Typed
<1> QED
  BY <1>1, <1>3, <1>4, <1>5, <1>6, <1>7, <1>8, Zenon DEF Next

\* Only a device in sources[] holds keys, and the counters are exact: every
\* step keeps both.
LEMMA HoldersStep ==
  ASSUME Typed, HoldersInv, [Next]_vars PROVE HoldersInv'
<1> USE DEF HoldersInv, kernel, work, state
<1>1. ASSUME UNCHANGED <<grabbed, pressed, holders, shown>> PROVE HoldersInv'
  BY <1>1 DEF HoldersExact
<1>2. ASSUME NEW s \in Sources, Grab(s) PROVE HoldersInv'
  <2>1. s \notin grabbed /\ grabbed' = grabbed \cup {s} /\ UNCHANGED <<pressed, holders, shown>>
    BY <1>2 DEF Grab
  <2>2. pressed[s] = {}
    BY <2>1
  <2>3. \A c \in Codes : {r \in grabbed' : c \in pressed'[r]} = {r \in grabbed : c \in pressed[r]}
    BY <2>1, <2>2
  <2> QED
    BY <2>1, <2>3 DEF HoldersExact
<1>3. ASSUME NEW s \in grabbed, NEW want \in SUBSET Codes, ChangeKeys(s, want), UNCHANGED grabbed
      PROVE  HoldersInv'
  <2>1. \A r \in Sources : pressed'[r] = IF r = s THEN want ELSE pressed[r]
    BY <1>3 DEF ChangeKeys, Typed, BridgeTyped
  <2>2. HoldersExact'
    BY <1>3, ChangeKeysExact, Zenon DEF HoldersExact, Holding
  <2> QED
    BY <1>3, <2>1, <2>2
<1>4. CASE HandleKey \/ HandleReport
  <2>1. UNCHANGED grabbed
    BY <1>4 DEF HandleKey, HandleReport
  <2> QED
    BY <1>1, <1>3, <1>4, <2>1, KeyChanges, Zenon
<1>5. ASSUME NEW s \in Sources, Disconnect(s) PROVE HoldersInv'
  <2>1. s \in grabbed /\ {} \in SUBSET Codes /\ ChangeKeys(s, {}) /\ grabbed' = grabbed \ {s}
    BY <1>5 DEF Disconnect
  <2>2. \A r \in Sources : pressed'[r] = IF r = s THEN {} ELSE pressed[r]
    BY <2>1 DEF ChangeKeys, Typed, BridgeTyped
  <2>3. \A c \in Codes : {r \in grabbed' : c \in pressed'[r]} = {r \in grabbed : c \in pressed'[r]}
    BY <2>1, <2>2 DEF Typed, BridgeTyped
  <2>4. \A c \in Codes : /\ holders'[c] = Cardinality({r \in grabbed : c \in pressed'[r]})
                         /\ c \in shown' <=> holders'[c] > 0
    BY <2>1, ChangeKeysExact, Zenon
  <2>5. HoldersExact'
    BY <2>3, <2>4, Zenon DEF HoldersExact
  <2> QED
    BY <2>1, <2>2, <2>5
<1>6. CASE Stop
  <2>1. \A c \in Codes : holders'[c] = 0 /\ c \notin shown'
    <3>1. \A c \in Codes : holders[c] \in Nat /\ (c \in shown <=> holders[c] > 0)
      BY Zenon DEF HoldersExact, Typed, BridgeTyped
    <3> QED
      BY <1>6, <3>1 DEF Stop
  <2>2. \A c \in Codes : {s \in grabbed' : c \in pressed'[s]} = {}
    BY <1>6 DEF Stop
  <2>3. HoldersExact'
    BY <2>1, <2>2, FS_EmptySet DEF HoldersExact
  <2> QED
    BY <1>6, <2>3 DEF Stop
<1>7. CASE Drained \/ HandleDropped
           \/ (\E s \in Sources : Attach(s) \/ Detach(s) \/ Read(s) \/ \E c \in Codes : Change(s, c))
           \/ UNCHANGED vars
  BY <1>1, <1>7, ZenonT(60) DEF Drained, HandleDropped, Attach, Detach, Read, Change, vars
<1> QED
  BY <1>2, <1>4, <1>5, <1>6, <1>7, Zenon DEF Next

-----------------------------------------------------------------------------
(* The events.  What the kernel's queue, a read and the handling of one event *)
(* do to the newest event of each key.                                        *)

\* A key c changes, and the keys that are down are no longer those of old: the
\* event is queued behind q, or it is all that the overflow leaves.
Appended(q, p, c, old, keys) ==
  /\ q \in Seq(Events) /\ p \in Seq(Events) /\ c \in Codes
  /\ \A d \in Codes \ {c} : d \in keys <=> d \in old
  /\ \E v \in {0, 1} : (c \in keys <=> v = 1) /\ p = q \o <<Key(c, v), Report>>

Overran(p, c, keys) ==
  /\ p \in Seq(Events) /\ c \in Codes
  /\ \E v \in {0, 1} : (c \in keys <=> v = 1) /\ p = <<Dropped>> \o <<Key(c, v), Report>>

\* A queued event is the newest in the queue and newer than what was read.
LEMMA NewestAppended ==
  ASSUME NEW q, NEW p, NEW c, NEW old, NEW keys, Appended(q, p, c, old, keys),
         NEW u \in Seq(Events)
  PROVE  /\ Newest(q, <<>>, old) => Newest(p, <<>>, keys)
         /\ Newest(u, q, old) => Newest(u, p, keys)
         /\ \A d : Mentions(p, d) <=> Mentions(q, d) \/ d = c
         /\ Overflowed(q) => Overflowed(p)
         /\ p # <<>> /\ p[Len(p)] = Report
<1>0. /\ q \in Seq(Events) /\ p \in Seq(Events) /\ c \in Codes
      /\ \A d \in Codes \ {c} : d \in keys <=> d \in old
  BY DEF Appended
<1> PICK v \in {0, 1} : (c \in keys <=> v = 1) /\ p = q \o <<Key(c, v), Report>>
  BY Zenon DEF Appended
<1> USE <1>0
<1> DEFINE L == Len(q)
<1>1. /\ L \in Nat /\ Len(p) = L + 2 /\ p[L + 1] = Key(c, v) /\ p[L + 2] = Report
      /\ \A i \in 1 .. L : p[i] = q[i]
  OBVIOUS
<1>2. ASSUME NEW d PROVE Mentions(p, d) <=> Mentions(q, d) \/ d = c
  <2>1. IsKey(p[L + 1], d) <=> d = c
    BY <1>1 DEF IsKey, Key
  <2>2. ~IsKey(p[L + 2], d)
    BY <1>1 DEF IsKey, Report
  <2> QED
    BY <1>1, <2>1, <2>2 DEF Mentions
<1>3. Overflowed(q) => Overflowed(p)
  BY <1>1 DEF Overflowed
<1>4. \A e \in Events : e.type = "KEY" => e.code \in Codes
  BY DEF Events, Report, Dropped
<1>5. ASSUME Newest(u, q, old) PROVE Newest(u, p, keys)
  <2> SUFFICES ASSUME NEW i \in 1 .. Len(u), u[i].type = "KEY", ~Mentions(p, u[i].code),
                      \A j \in i + 1 .. Len(u) : ~IsKey(u[j], u[i].code)
               PROVE  u[i].value = 1 <=> u[i].code \in keys
    BY Zenon DEF Newest
  <2>1. u[i] \in Events
    OBVIOUS
  <2>2. u[i].code \in Codes \ {c} /\ ~Mentions(q, u[i].code)
    BY <1>2, <1>4, <2>1, Zenon
  <2> QED
    BY <1>5, <2>2 DEF Newest
<1>6. ASSUME Newest(q, <<>>, old) PROVE Newest(p, <<>>, keys)
  <2> SUFFICES ASSUME NEW i \in 1 .. Len(p), p[i].type = "KEY",
                      \A j \in i + 1 .. Len(p) : ~IsKey(p[j], p[i].code)
               PROVE  p[i].value = 1 <=> p[i].code \in keys
    BY Zenon DEF Newest
  <2>1. CASE i <= L
    <3>1. i \in 1 .. L /\ p[i] = q[i] /\ q[i] \in Events /\ L + 1 \in i + 1 .. Len(p)
      BY <1>1, <2>1
    <3>2. q[i].code \in Codes \ {c}
      <4>1. q[i].code \in Codes /\ ~IsKey(Key(c, v), q[i].code)
        BY <1>1, <1>4, <3>1
      <4> QED
        BY <4>1 DEF IsKey, Key
    <3>3. \A j \in i + 1 .. L : ~IsKey(q[j], q[i].code)
      BY <1>1, <3>1
    <3>4. ~Mentions(<<>>, q[i].code)
      BY DEF Mentions
    <3> QED
      BY <1>6, <3>1, <3>2, <3>3, <3>4 DEF Newest
  <2>2. CASE i = L + 1
    BY <1>1, <2>2 DEF Key
  <2>3. CASE i = L + 2
    BY <1>1, <2>3 DEF Report
  <2> QED
    BY <1>1, <2>1, <2>2, <2>3
<1>7. p # <<>> /\ p[Len(p)] = Report
  BY <1>1
<1> QED
  BY <1>2, <1>3, <1>5, <1>6, <1>7, Zenon

\* The queue overflows: the event that stays is the newest.
LEMMA NewestOverflowed ==
  ASSUME NEW p, NEW c, NEW keys, Overran(p, c, keys)
  PROVE  Newest(p, <<>>, keys) /\ Overflowed(p) /\ p # <<>> /\ p[Len(p)] = Report
<1> PICK v \in {0, 1} : (c \in keys <=> v = 1) /\ p = <<Dropped>> \o <<Key(c, v), Report>>
  BY DEF Overran
<1>1. Len(p) = 3 /\ p[1] = Dropped /\ p[2] = Key(c, v) /\ p[3] = Report
  OBVIOUS
<1>2. Overflowed(p)
  BY <1>1 DEF Overflowed
<1>3. \A i \in 1 .. 3 : p[i].type = "KEY" => i = 2
  BY <1>1 DEF Dropped, Report
<1> QED
  BY <1>1, <1>2, <1>3 DEF Newest, Key

\* A read takes the older part u of the queue q and leaves p.
Taken(q, u, p) ==
  /\ q \in Seq(Events) /\ u \in Seq(Events) /\ p \in Seq(Events)
  /\ \E n \in 1 .. Len(q) :
       /\ Len(u) = n /\ \A i \in 1 .. n : u[i] = q[i]
       /\ Len(p) = Len(q) - n /\ \A i \in 1 .. Len(p) : p[i] = q[i + n]

\* Every event of the queue is in one of the two, with the newer ones behind it.
LEMMA NewestRead ==
  ASSUME NEW q, NEW u, NEW p, Taken(q, u, p), NEW keys
  PROVE  /\ Newest(q, <<>>, keys) => Newest(p, <<>>, keys) /\ Newest(u, p, keys)
         /\ \A c : Mentions(q, c) <=> Mentions(u, c) \/ Mentions(p, c)
         /\ Overflowed(q) <=> Overflowed(u) \/ Overflowed(p)
         /\ q # <<>> /\ (p # <<>> => p[Len(p)] = q[Len(q)])
         /\ p = <<>> => u # <<>> /\ u[Len(u)] = q[Len(q)]
<1> USE DEF Taken
<1> PICK n \in 1 .. Len(q) : /\ Len(u) = n /\ \A i \in 1 .. n : u[i] = q[i]
                            /\ Len(p) = Len(q) - n /\ \A i \in 1 .. Len(p) : p[i] = q[i + n]
  BY Zenon
<1>0. /\ Len(q) \in Nat /\ n \in Nat /\ Len(p) \in Nat
      /\ \A j \in 1 .. Len(q) : j \in 1 .. n \/ (j - n \in 1 .. Len(p) /\ q[j] = p[j - n])
      /\ \A i \in 1 .. n : i \in 1 .. Len(q)
      /\ \A i \in 1 .. Len(p) : i + n \in 1 .. Len(q)
  OBVIOUS
<1>1. \A c : Mentions(q, c) <=> Mentions(u, c) \/ Mentions(p, c)
  BY <1>0 DEF Mentions
<1>2. Overflowed(q) <=> Overflowed(u) \/ Overflowed(p)
  <2>1. ASSUME NEW j \in 1 .. Len(q), q[j] = Dropped PROVE Overflowed(u) \/ Overflowed(p)
    <3>1. CASE j \in 1 .. n
      BY <2>1, <3>1 DEF Overflowed
    <3>2. CASE j - n \in 1 .. Len(p) /\ q[j] = p[j - n]
      BY <2>1, <3>2, Zenon DEF Overflowed
    <3> QED
      BY <1>0, <3>1, <3>2
  <2>2. ASSUME NEW i \in 1 .. Len(u), u[i] = Dropped PROVE Overflowed(q)
    BY <1>0, <2>2, Zenon DEF Overflowed
  <2>3. ASSUME NEW i \in 1 .. Len(p), p[i] = Dropped PROVE Overflowed(q)
    BY <1>0, <2>3, Zenon DEF Overflowed
  <2> QED
    BY <2>1, <2>2, <2>3, Zenon DEF Overflowed
<1>3. \A c : ~Mentions(<<>>, c)
  BY DEF Mentions
<1>4. ASSUME Newest(q, <<>>, keys) PROVE Newest(p, <<>>, keys)
  <2> SUFFICES ASSUME NEW i \in 1 .. Len(p), p[i].type = "KEY",
                      \A j \in i + 1 .. Len(p) : ~IsKey(p[j], p[i].code)
               PROVE  p[i].value = 1 <=> p[i].code \in keys
    BY Zenon DEF Newest
  <2>1. i + n \in 1 .. Len(q) /\ p[i] = q[i + n]
    BY <1>0
  <2>2. \A j \in i + n + 1 .. Len(q) : j - n \in i + 1 .. Len(p) /\ q[j] = p[j - n]
    BY <1>0
  <2> QED
    BY <1>3, <1>4, <2>1, <2>2 DEF Newest
<1>5. ASSUME Newest(q, <<>>, keys) PROVE Newest(u, p, keys)
  <2> SUFFICES ASSUME NEW i \in 1 .. n, u[i].type = "KEY", ~Mentions(p, u[i].code),
                      \A j \in i + 1 .. n : ~IsKey(u[j], u[i].code)
               PROVE  u[i].value = 1 <=> u[i].code \in keys
    BY DEF Newest
  <2>1. i \in 1 .. Len(q) /\ u[i] = q[i]
    BY <1>0
  <2>2. ASSUME NEW j \in i + 1 .. Len(q) PROVE ~IsKey(q[j], q[i].code)
    <3>1. CASE j \in 1 .. n
      BY <2>1, <3>1
    <3>2. CASE j - n \in 1 .. Len(p) /\ q[j] = p[j - n]
      BY <2>1, <3>2 DEF Mentions
    <3> QED
      BY <1>0, <3>1, <3>2, SMTT(60)
  <2> QED
    BY <1>3, <1>5, <2>1, <2>2 DEF Newest
<1>6. q # <<>> /\ (p # <<>> => p[Len(p)] = q[Len(q)])
  BY <1>0
<1>7. p = <<>> => u # <<>> /\ u[Len(u)] = q[Len(q)]
  BY <1>0
<1> QED
  BY <1>1, <1>2, <1>4, <1>5, <1>6, <1>7, Zenon

\* An event is handled: those behind it are left.
LEMMA NewestHandled ==
  ASSUME NEW u \in Seq(Events), u # <<>>, NEW q \in Seq(Events), NEW keys,
         NEW t \in Seq(Events), t = Tail(u)
  PROVE  /\ Newest(u, q, keys) => Newest(t, q, keys)
         /\ \A c : Mentions(u, c) <=> IsKey(u[1], c) \/ Mentions(t, c)
         /\ Overflowed(u) <=> u[1] = Dropped \/ Overflowed(t)
         /\ u[Len(u)] # u[1] => t # <<>> /\ t[Len(t)] = u[Len(u)]
<1>1. /\ Len(u) \in Nat /\ Len(u) > 0 /\ Len(t) = Len(u) - 1
      /\ \A i \in 1 .. Len(t) : i + 1 \in 1 .. Len(u) /\ t[i] = u[i + 1]
      /\ \A i \in 1 .. Len(u) : i = 1 \/ (i - 1 \in 1 .. Len(t) /\ u[i] = t[i - 1])
  OBVIOUS
<1>2. \A c : Mentions(u, c) <=> IsKey(u[1], c) \/ Mentions(t, c)
  BY <1>1, SMTT(60) DEF Mentions
<1>3. Overflowed(u) <=> u[1] = Dropped \/ Overflowed(t)
  <2>1. 1 \in 1 .. Len(u)
    BY <1>1
  <2> QED
    BY <1>1, <2>1, ZenonT(60) DEF Overflowed
<1>4. ASSUME Newest(u, q, keys) PROVE Newest(t, q, keys)
  <2> SUFFICES ASSUME NEW i \in 1 .. Len(t), t[i].type = "KEY", ~Mentions(q, t[i].code),
                      \A j \in i + 1 .. Len(t) : ~IsKey(t[j], t[i].code)
               PROVE  t[i].value = 1 <=> t[i].code \in keys
    BY DEF Newest
  <2>1. i + 1 \in 1 .. Len(u) /\ t[i] = u[i + 1]
    BY <1>1
  <2>2. \A j \in (i + 1) + 1 .. Len(u) : j - 1 \in i + 1 .. Len(t) /\ u[j] = t[j - 1]
    BY <1>1
  <2>3. \A j \in (i + 1) + 1 .. Len(u) : ~IsKey(u[j], u[i + 1].code)
    BY <2>1, <2>2, Zenon
  <2> QED
    BY <1>4, <2>1, <2>3, Zenon DEF Newest
<1>5. u[Len(u)] # u[1] => t # <<>> /\ t[Len(t)] = u[Len(u)]
  <2>1. Len(u) \in 1 .. Len(u)
    BY <1>1
  <2>2. CASE Len(u) = 1
    BY <2>2
  <2>3. CASE Len(u) > 1
    <3>1. Len(t) \in 1 .. Len(t) /\ Len(t) + 1 = Len(u)
      BY <1>1, <2>3
    <3>2. t[Len(t)] = u[Len(u)]
      BY <1>1, <3>1
    <3>3. Len(t) # Len(<<>>)
      BY <1>1, <2>3
    <3> QED
      BY <3>2, <3>3, Zenon
  <2> QED
    BY <1>1, <2>2, <2>3
<1> QED
  BY <1>2, <1>3, <1>4, <1>5

\* A step that does not touch a device.
Same(s) ==
  /\ queue'[s] = queue[s] /\ down'[s] = down[s] /\ early'[s] = early[s] /\ pressed'[s] = pressed[s]
  /\ Unhandled(s)' = Unhandled(s)
  /\ s \in dropping' <=> s \in dropping
  /\ s \in stale' <=> s \in stale

\* It keeps what is known of the device.
LEMMA SameKept ==
  ASSUME NEW s, DeviceInv(s), Same(s) PROVE DeviceInv(s)'
<1>1. Reporting(s)'
  BY Zenon DEF DeviceInv, Reporting, Same
<1>2. Current(s)'
  BY ZenonT(60) DEF DeviceInv, Current, Same
<1>3. Known(s)'
  BY DEF DeviceInv, Known, Same
<1> QED
  BY <1>1, <1>2, <1>3, Zenon DEF DeviceInv

\* What Change does, and to the queue of a device that is grabbed.
LEMMA ChangeEffect ==
  ASSUME Typed, Typed', NEW s \in Sources, NEW c \in Codes, Change(s, c)
  PROVE  /\ \A r \in Sources \ {s} : Same(r)
         /\ UNCHANGED <<attached, stale, grabbed, pressed, dropping, at, events>>
         /\ Unhandled(s)' = Unhandled(s)
         /\ \A d \in Codes \ {c} : d \in early'[s] <=> d \in early[s]
         /\ s \in grabbed => \/ Appended(queue[s], queue'[s], c, down[s], down'[s])
                             \/ Overran(queue'[s], c, down'[s])
<1>1. UNCHANGED <<attached, stale, grabbed, pressed, dropping, at, events>>
  BY SMTT(60) DEF Change, state, work
<1>2. \A r \in Sources \ {s} : queue'[r] = queue[r] /\ down'[r] = down[r] /\ early'[r] = early[r]
  BY ZenonT(60) DEF Change, Typed, KernelTyped
<1>3. \A r \in Sources \ {s} : Same(r)
  BY <1>1, <1>2, Zenon DEF Same, Unhandled
<1>4. Unhandled(s)' = Unhandled(s)
  BY <1>1, ZenonT(60) DEF Unhandled
<1> DEFINE v == IF c \in down[s] THEN 0 ELSE 1
           frame == <<Key(c, v), Report>>
<1>5. c \in down'[s] <=> v = 1
  BY SMTT(60) DEF Change, Typed, KernelTyped
<1>6. /\ \A d \in Codes \ {c} : d \in down'[s] <=> d \in down[s]
      /\ \A d \in Codes \ {c} : d \in early'[s] <=> d \in early[s]
  BY SMTT(60) DEF Change, Typed, KernelTyped
<1>7. s \in grabbed => queue'[s] = queue[s] \o frame \/ queue'[s] = <<Dropped>> \o frame
  BY SMTT(60) DEF Change, Typed, KernelTyped
<1>8. v \in {0, 1} /\ queue[s] \in Seq(Events) /\ queue'[s] \in Seq(Events)
  BY DEF Typed, KernelTyped
<1> HIDE DEF v
<1>9. s \in grabbed => \/ Appended(queue[s], queue'[s], c, down[s], down'[s])
                       \/ Overran(queue'[s], c, down'[s])
  BY <1>5, <1>6, <1>7, <1>8, Zenon DEF Appended, Overran
<1> QED
  BY <1>1, <1>3, <1>4, <1>6, <1>9, ZenonT(60)

\* What a read moves from the queue.
LEMMA ReadEffect ==
  ASSUME Typed, NEW s \in Sources, Read(s)
  PROVE  /\ \A r \in Sources \ {s} : Same(r)
         /\ UNCHANGED <<attached, down, early, stale, grabbed, pressed, dropping>>
         /\ Unhandled(s) = <<>> /\ Unhandled(s)' = events'
         /\ Taken(queue[s], events', queue'[s])
<1>1. UNCHANGED <<attached, down, early, stale, grabbed, pressed, dropping>>
  BY DEF Read, state
<1>2. at \in {None, s} /\ events = <<>> /\ at' = s /\ queue[s] # <<>>
  BY DEF Read
<1>3. \A r \in Sources \ {s} : queue'[r] = queue[r]
  BY DEF Read, Typed, KernelTyped
<1>4. \A r \in Sources \ {s} : Unhandled(r)' = Unhandled(r)
  BY <1>2 DEF Unhandled
<1>5. \A r \in Sources \ {s} : Same(r)
  BY <1>1, <1>3, <1>4, Zenon DEF Same
<1>6. Unhandled(s) = <<>> /\ Unhandled(s)' = events'
  BY <1>2, Zenon DEF Unhandled
<1> DEFINE q == queue[s]
           n == IF Len(q) < Batch THEN Len(q) ELSE Batch
<1>7. q \in Seq(Events) /\ q # <<>>
  BY <1>2 DEF Typed, KernelTyped
<1>8. n \in 1 .. Len(q)
  BY <1>7, BridgeAssumptions DEF BridgeAssumptions
<1>9. events' = SubSeq(q, 1, n) /\ queue'[s] = SubSeq(q, n + 1, Len(q))
  BY Zenon DEF Read, Typed, KernelTyped
<1> HIDE DEF q, n
<1>10. /\ events' \in Seq(Events) /\ queue'[s] \in Seq(Events)
       /\ Len(events') = n /\ \A i \in 1 .. n : events'[i] = q[i]
       /\ Len(queue'[s]) = Len(q) - n /\ \A i \in 1 .. Len(queue'[s]) : queue'[s][i] = q[i + n]
  BY <1>7, <1>8, <1>9, SMTT(60)
<1> QED
  BY <1>1, <1>5, <1>6, <1>7, <1>8, <1>10, ZenonT(60) DEF q, Taken

\* What handling an event does.
LEMMA HandleEffect ==
  ASSUME Typed, NEW type, Handle(type)
  PROVE  /\ at \in grabbed /\ at \in Sources /\ at' = at
         /\ events \in Seq(Events) /\ events # <<>> /\ Head(events) = events[1]
         /\ events[1] \in Events /\ events[1].type = type
         /\ events' \in Seq(Events) /\ events' = Tail(events)
         /\ Unhandled(at) = events /\ Unhandled(at)' = events'
         /\ \A r \in Sources \ {at} : Unhandled(r)' = Unhandled(r)
<1>1. events # <<>> /\ Head(events).type = type /\ events' = Tail(events) /\ at' = at
  BY DEF Handle
<1>2. at \in grabbed /\ at \in Sources /\ events \in Seq(Events)
  BY <1>1 DEF Typed, WorkTyped, BridgeTyped
<1>3. events[1] \in Events /\ Head(events) = events[1] /\ events' \in Seq(Events)
  BY <1>1, <1>2
<1>4. /\ Unhandled(at) = events /\ Unhandled(at)' = events'
      /\ \A r \in Sources \ {at} : Unhandled(r)' = Unhandled(r)
  BY <1>1, Zenon DEF Unhandled
<1> QED
  BY <1>1, <1>2, <1>3, <1>4, Zenon

\* A key changes: the device's own events are up to date, whether or not the queue
\* overflows.
LEMMA ChangeDevice ==
  ASSUME Typed, EventsInv, NEW s \in Sources, NEW c \in Codes, Change(s, c), Typed',
         NEW r \in grabbed' \cap attached'
  PROVE  DeviceInv(r)'
<1>1. r \in grabbed \cap attached /\ r \in Sources
  BY ChangeEffect, ZenonT(60) DEF Typed, BridgeTyped
<1>2. CASE r # s
  BY <1>1, <1>2, ChangeEffect, SameKept, ZenonT(60) DEF EventsInv
<1>3. CASE r = s
  <2> DEFINE q == queue[s]
             p == queue'[s]
             u == Unhandled(s)
  <2>1. DeviceInv(s) /\ s \in grabbed
    BY <1>1, <1>3 DEF EventsInv
  <2>2. /\ Appended(q, p, c, down[s], down'[s]) \/ Overran(p, c, down'[s])
        /\ \A d \in Codes \ {c} : d \in early'[s] <=> d \in early[s]
    BY <2>1, ChangeEffect, ZenonT(60)
  <2>3. /\ UNCHANGED <<stale, dropping, pressed>> /\ Unhandled(s)' = u
    BY ChangeEffect, ZenonT(60)
  <2>4. u \in Seq(Events) /\ Accepts[s] \subseteq Codes
    BY BridgeAssumptions DEF BridgeAssumptions, Typed, WorkTyped, Unhandled
  <2> HIDE DEF q, p, u
  <2>5. CASE Overran(p, c, down'[s])
    <3>1. Newest(p, <<>>, down'[s]) /\ Overflowed(p) /\ p # <<>> /\ p[Len(p)] = Report
      BY <2>5, NewestOverflowed, Zenon
    <3>2. Reporting(s)'
      BY <3>1, Zenon DEF Reporting, p
    <3>3. Current(s)'
      BY <3>1, Zenon DEF Current, p
    <3>4. Known(s)'
      BY <3>1, Zenon DEF Known, p
    <3> QED
      BY <1>3, <3>2, <3>3, <3>4, Zenon DEF DeviceInv
  <2>6. CASE Appended(q, p, c, down[s], down'[s])
    <3>1. /\ Newest(q, <<>>, down[s]) => Newest(p, <<>>, down'[s])
          /\ Newest(u, q, down[s]) => Newest(u, p, down'[s])
          /\ \A d : Mentions(p, d) <=> Mentions(q, d) \/ d = c
          /\ Overflowed(q) => Overflowed(p)
          /\ p # <<>> /\ p[Len(p)] = Report
      BY <2>4, <2>6, NewestAppended, Zenon
    <3>2. Reporting(s)'
      BY <3>1, Zenon DEF Reporting, p
    <3>3. Current(s)'
      BY <2>1, <2>3, <3>1, ZenonT(60) DEF DeviceInv, Current, p, q, u
    <3>4. ASSUME Known(s) PROVE Known(s)'
      <4> SUFFICES ASSUME (s \notin stale \cup dropping)', ~Overflowed(p), ~Overflowed(u),
                          NEW d \in Accepts[s], ~Mentions(p, d), ~Mentions(u, d)
                   PROVE  (d \in pressed'[s] => d \in down'[s])
                          /\ (d \in down'[s] \ early'[s] => d \in pressed'[s])
        BY <2>3, ZenonT(60) DEF Known, p
      <4>1. d \in Codes \ {c} /\ ~Mentions(q, d) /\ ~Overflowed(q)
        BY <2>4, <3>1, SMTT(60)
      <4>2. (d \in pressed[s] => d \in down[s]) /\ (d \in down[s] \ early[s] => d \in pressed[s])
        BY <2>3, <3>4, <4>1, SMTT(60) DEF Known, q, u
      <4>3. d \in down'[s] <=> d \in down[s]
        BY <2>6, <4>1 DEF Appended
      <4> QED
        BY <2>2, <2>3, <4>1, <4>2, <4>3, ZenonT(60)
    <3> QED
      BY <1>3, <2>1, <3>2, <3>3, <3>4, ZenonT(60) DEF DeviceInv
  <2> QED
    BY <2>2, <2>5, <2>6, ZenonT(60)
<1> QED
  BY <1>2, <1>3, SMTT(60)

\* A read: what it leaves in the queue is newer than what it took.
LEMMA ReadDevice ==
  ASSUME Typed, EventsInv, NEW s \in Sources, Read(s), NEW r \in grabbed' \cap attached'
  PROVE  DeviceInv(r)'
<1>1. r \in grabbed \cap attached /\ r \in Sources
  BY ReadEffect, ZenonT(60) DEF Typed, BridgeTyped
<1>2. CASE r # s
  BY <1>1, <1>2, ReadEffect, SameKept, Zenon DEF EventsInv
<1>3. CASE r = s
  <2> DEFINE q == queue[s]
             p == queue'[s]
             u == events'
  <2>1. DeviceInv(s)
    BY <1>1, <1>3 DEF EventsInv
  <2>2. Taken(q, u, p)
    BY ReadEffect, ZenonT(60)
  <2>3. /\ UNCHANGED <<down, early, stale, dropping, pressed>>
        /\ Unhandled(s) = <<>> /\ Unhandled(s)' = u
    BY ReadEffect, ZenonT(60)
  <2> HIDE DEF q, p, u
  <2>4. /\ Newest(q, <<>>, down[s]) => Newest(p, <<>>, down[s]) /\ Newest(u, p, down[s])
        /\ \A c : Mentions(q, c) <=> Mentions(u, c) \/ Mentions(p, c)
        /\ Overflowed(q) <=> Overflowed(u) \/ Overflowed(p)
        /\ q # <<>> /\ (p # <<>> => p[Len(p)] = q[Len(q)])
        /\ p = <<>> => u # <<>> /\ u[Len(u)] = q[Len(q)]
    BY <2>2, NewestRead, Zenon
  <2>5. /\ ~Overflowed(<<>>) /\ \A c : ~Mentions(<<>>, c)
    BY DEF Overflowed, Mentions
  <2>6. q[Len(q)] = Report
    BY <2>1, <2>4, ZenonT(60) DEF DeviceInv, Reporting, q
  <2>7. /\ p # <<>> => p[Len(p)] = Report
        /\ p = <<>> => u # <<>> /\ u[Len(u)] = Report
    BY <2>4, <2>6
  <2>8. Reporting(s)'
    BY <2>3, <2>7, Zenon DEF Reporting, p
  <2>9. Current(s)'
    BY <2>1, <2>3, <2>4, Zenon DEF DeviceInv, Current, p, q
  <2>10. Known(s)'
    BY <2>1, <2>3, <2>4, <2>5, ZenonT(60) DEF DeviceInv, Known, p, q
  <2> QED
    BY <1>3, <2>8, <2>9, <2>10, ZenonT(60) DEF DeviceInv
<1> QED
  BY <1>2, <1>3, SMTT(60)

\* The marker of an overflow is handled: the keys are in doubt until the report.
LEMMA DroppedDevice ==
  ASSUME Typed, EventsInv, HandleDropped, NEW r \in grabbed' \cap attached'
  PROVE  DeviceInv(r)'
<1>1. /\ Handle("DROPPED") /\ UNCHANGED <<attached, down, queue, early, stale, grabbed, pressed>>
      /\ dropping' = dropping \cup {at}
  BY SMTT(60) DEF HandleDropped, kernel
<1>2. DeviceInv(r) /\ r \in Sources
  BY <1>1 DEF EventsInv, Typed, BridgeTyped
<1>3. CASE r # at
  <2>1. Unhandled(r)' = Unhandled(r)
    BY <1>1, <1>2, <1>3, HandleEffect, SMTT(60)
  <2>2. Same(r)
    BY <1>1, <1>3, <2>1 DEF Same
  <2> QED
    BY <1>2, <2>2, SameKept, ZenonT(60)
<1>4. CASE r = at
  <2> DEFINE u == events
             t == events'
             q == queue[at]
  <2>1. /\ u \in Seq(Events) /\ u # <<>> /\ t \in Seq(Events) /\ t = Tail(u)
        /\ u[1] \in Events /\ u[1].type = "DROPPED"
        /\ Unhandled(at) = u /\ Unhandled(at)' = t /\ at' = at
    BY <1>1, HandleEffect, ZenonT(60)
  <2>2. u[1] = Dropped
    BY <2>1 DEF Events, Report
  <2>3. q \in Seq(Events)
    BY <1>2, <1>4 DEF Typed, KernelTyped
  <2> HIDE DEF u, t, q
  <2>4. /\ Newest(u, q, down[at]) => Newest(t, q, down[at])
        /\ Overflowed(u) <=> u[1] = Dropped \/ Overflowed(t)
        /\ u[Len(u)] # u[1] => t # <<>> /\ t[Len(t)] = u[Len(u)]
    BY <2>1, <2>3, NewestHandled, ZenonT(60)
  <2>5. Overflowed(u) /\ at \in dropping' /\ Report # Dropped
    BY <1>1, <2>2, <2>4 DEF Report, Dropped
  <2>6. Reporting(at)'
    <3>1. queue'[at'] = q
      BY <1>1, <2>1 DEF q
    <3>2. q # <<>> => q[Len(q)] = Report
      BY <1>2, <1>4, Zenon DEF DeviceInv, Reporting, q
    <3>3. q = <<>> => t # <<>> /\ t[Len(t)] = Report
      BY <1>2, <1>4, <2>1, <2>2, <2>4, <2>5, ZenonT(60) DEF DeviceInv, Reporting, q
    <3> QED
      BY <2>1, <3>1, <3>2, <3>3, ZenonT(60) DEF Reporting
  <2>7. Current(at)'
    <3>1. Newest(q, <<>>, down[at]) /\ (Overflowed(q) \/ Newest(t, q, down[at]))
      BY <1>2, <1>4, <2>1, <2>4, <2>5, ZenonT(60) DEF DeviceInv, Current, q
    <3> QED
      BY <1>1, <2>1, <3>1, Zenon DEF Current, q
  <2>8. Known(at)'
    BY <2>1, <2>5, Zenon DEF Known
  <2> QED
    BY <1>4, <2>1, <2>6, <2>7, <2>8, Zenon DEF DeviceInv
<1> QED
  BY <1>3, <1>4

\* A key event is handled.
LEMMA KeyDevice ==
  ASSUME Typed, HoldersExact, EventsInv, HandleKey, NEW r \in grabbed' \cap attached'
  PROVE  DeviceInv(r)'
<1>1. Handle("KEY") /\ UNCHANGED <<attached, down, queue, early, stale, grabbed, dropping>>
  BY ZenonT(60) DEF HandleKey, kernel
<1>2. DeviceInv(r) /\ r \in Sources
  BY <1>1 DEF EventsInv, Typed, BridgeTyped
<1> DEFINE u == events
           t == events'
           q == queue[at]
           c == events[1].code
           want == IF events[1].value = 1 THEN pressed[at] \cup {c} ELSE pressed[at] \ {c}
<1>3. /\ at \in Sources /\ at' = at /\ Head(events) = events[1]
      /\ u \in Seq(Events) /\ u # <<>> /\ t \in Seq(Events) /\ t = Tail(u)
      /\ u[1] \in Events /\ u[1].type = "KEY"
      /\ Unhandled(at) = u /\ Unhandled(at)' = t
      /\ \A s \in Sources \ {at} : Unhandled(s)' = Unhandled(s)
  BY <1>1, HandleEffect, ZenonT(60)
<1>4. /\ UNCHANGED pressed \/ pressed' = [pressed EXCEPT ![at] = want]
      /\ at \notin dropping /\ c \in Accepts[at] => pressed' = [pressed EXCEPT ![at] = want]
      /\ c \notin Accepts[at] => UNCHANGED pressed
  BY <1>3, ZenonT(60) DEF HandleKey, ChangeKeys, KeyTarget
<1>5. /\ \A s \in Sources \ {at} : pressed'[s] = pressed[s]
      /\ at \notin dropping /\ c \in Accepts[at] => pressed'[at] = want
      /\ \A d \in Accepts[at] \ {c} : d \in pressed'[at] <=> d \in pressed[at]
  <2>1. pressed \in [Sources -> SUBSET Codes]
    BY DEF Typed, BridgeTyped
  <2>2. CASE UNCHANGED pressed
    BY <1>3, <1>4, <2>1, <2>2, ZenonT(60)
  <2>3. CASE pressed' = [pressed EXCEPT ![at] = want]
    <3>1. pressed'[at] = want /\ \A s \in Sources \ {at} : pressed'[s] = pressed[s]
      BY <1>3, <2>1, <2>3, SMTT(60)
    <3>2. \A d \in Accepts[at] \ {c} : d \in want <=> d \in pressed[at]
      OBVIOUS
    <3> HIDE DEF want, c
    <3> QED
      BY <3>1, <3>2, ZenonT(60)
  <2> QED
    BY <1>4, <2>2, <2>3, Zenon
<1>6. CASE r # at
  <2>1. Same(r)
    BY <1>1, <1>2, <1>3, <1>5, <1>6, ZenonT(60) DEF Same
  <2> QED
    BY <1>2, <2>1, SameKept, Zenon
<1>7. CASE r = at
  <2>1. q \in Seq(Events)
    BY <1>3 DEF Typed, KernelTyped
  <2> HIDE DEF u, t, q
  <2>2. /\ Newest(u, q, down[at]) => Newest(t, q, down[at])
        /\ \A d : Mentions(u, d) <=> IsKey(u[1], d) \/ Mentions(t, d)
        /\ Overflowed(u) <=> u[1] = Dropped \/ Overflowed(t)
        /\ u[Len(u)] # u[1] => t # <<>> /\ t[Len(t)] = u[Len(u)]
    BY <1>3, <2>1, NewestHandled, ZenonT(60)
  <2>3. u[1] # Dropped /\ u[1] # Report
    BY <1>3, SMTT(60) DEF Dropped, Report
  <2>4. /\ queue'[at] = q /\ down'[at] = down[at] /\ early'[at] = early[at]
        /\ at \in dropping' <=> at \in dropping
        /\ at \in stale' <=> at \in stale
    BY <1>1 DEF q
  <2>5. Reporting(at)'
    <3>1. q # <<>> => q[Len(q)] = Report
      BY <1>2, <1>7, Zenon DEF DeviceInv, Reporting, q
    <3>2. (at \in dropping \/ Overflowed(t)) /\ q = <<>> => t # <<>> /\ t[Len(t)] = Report
      BY <1>2, <1>3, <1>7, <2>2, <2>3, ZenonT(60) DEF DeviceInv, Reporting, q
    <3> QED
      BY <1>3, <2>4, <3>1, <3>2, ZenonT(60) DEF Reporting
  <2>6. Current(at)'
    <3>1. /\ Newest(q, <<>>, down[at])
          /\ at \notin stale \/ at \in dropping \/ Overflowed(t)
               => Overflowed(q) \/ Newest(t, q, down[at])
      BY <1>2, <1>3, <1>7, <2>2, ZenonT(60) DEF DeviceInv, Current, q
    <3> QED
      BY <1>3, <2>4, <3>1, Zenon DEF Current
  <2>7. Known(at)'
    <3> SUFFICES ASSUME at \notin stale, at \notin dropping, ~Overflowed(q), ~Overflowed(t),
                        NEW d \in Accepts[at], ~Mentions(q, d), ~Mentions(t, d)
                 PROVE  (d \in pressed'[at] => d \in down[at])
                        /\ (d \in down[at] \ early[at] => d \in pressed'[at])
      BY <1>3, <2>4 DEF Known
    <3>1. CASE d = c
      <4>1. u[1].code = d /\ u[1].value \in {0, 1}
        BY <1>3, <3>1, SMTT(60) DEF u, Events, Report, Dropped
      <4>2. d \in pressed'[at] <=> u[1].value = 1
        BY <1>5, <3>1, <4>1, ZenonT(60) DEF u
      <4>3. Newest(u, q, down[at])
        BY <1>2, <1>3, <1>7, ZenonT(60) DEF DeviceInv, Current, q
      <4>4. 1 \in 1 .. Len(u) /\ \A j \in 1 + 1 .. Len(u) : j - 1 \in 1 .. Len(t) /\ u[j] = t[j - 1]
        BY <1>3
      <4>5. \A j \in 1 + 1 .. Len(u) : ~IsKey(u[j], d)
        BY <4>4, Zenon DEF Mentions
      <4>6. u[1].value = 1 <=> d \in down[at]
        BY <1>3, <4>1, <4>3, <4>4, <4>5, ZenonT(60) DEF Newest
      <4> QED
        BY <4>2, <4>6, SMTT(60)
    <3>2. CASE d # c
      <4>1. ~Mentions(u, d) /\ ~Overflowed(u)
        BY <2>2, <2>3, <3>2, ZenonT(60) DEF IsKey, u
      <4>2. d \in pressed'[at] <=> d \in pressed[at]
        BY <1>5, <3>2
      <4> QED
        BY <1>2, <1>3, <1>7, <4>1, <4>2, ZenonT(60) DEF DeviceInv, Known, q
    <3> QED
      BY <3>1, <3>2, SMTT(60)
  <2> QED
    BY <1>3, <1>7, <2>5, <2>6, <2>7, ZenonT(60) DEF DeviceInv
<1> QED
  BY <1>6, <1>7, SMTT(60)

\* A report is handled.  After an overflow it brings the keys up to date: EVIOCGKEY
\* empties the queue of key events, and the events that were read with the report
\* stay up to date unless newer ones were in the queue.
LEMMA ReportDevice ==
  ASSUME Typed, EventsInv, HandleReport, NEW r \in grabbed' \cap attached'
  PROVE  DeviceInv(r)'
<1>1. Handle("REPORT") /\ UNCHANGED <<attached, down, early, grabbed>>
  BY DEF HandleReport
<1>2. DeviceInv(r) /\ r \in Sources
  BY <1>1 DEF EventsInv, Typed, BridgeTyped
<1> DEFINE u == events
           t == events'
           q == queue[at]
<1>3. /\ at \in Sources /\ at' = at
      /\ u \in Seq(Events) /\ u # <<>> /\ t \in Seq(Events) /\ t = Tail(u)
      /\ u[1] \in Events /\ u[1].type = "REPORT"
      /\ Unhandled(at) = u /\ Unhandled(at)' = t
      /\ \A s \in Sources \ {at} : Unhandled(s)' = Unhandled(s)
  BY <1>1, HandleEffect, Zenon
<1>4. CASE r # at
  <2>1. queue'[r] = queue[r] /\ pressed'[r] = pressed[r]
    BY <1>2, <1>3, <1>4, ZenonT(60) DEF HandleReport, ReconcileKeys, ChangeKeys, Typed, KernelTyped, BridgeTyped
  <2>2. (r \in dropping' <=> r \in dropping) /\ (r \in stale' <=> r \in stale)
    BY <1>4, ZenonT(60) DEF HandleReport
  <2>3. Same(r)
    BY <1>1, <1>2, <1>3, <1>4, <2>1, <2>2, ZenonT(60) DEF Same
  <2> QED
    BY <1>2, <2>3, SameKept, ZenonT(60)
<1>5. ASSUME r = at PROVE DeviceInv(r)'
  <2>1. q \in Seq(Events)
    BY <1>3 DEF Typed, KernelTyped
  <2>2. u[1] # Dropped /\ \A d : ~IsKey(u[1], d)
    BY <1>3 DEF Dropped, IsKey
  <2>3. ~Overflowed(t)
    <3>1. \A i \in 1 .. Len(t) : i + 1 \in 1 .. Len(u) /\ i + 1 # 1 /\ t[i] = u[i + 1]
      BY <1>3
    <3> QED
      BY <3>1, ZenonT(60) DEF EventsInv, MarkersInv, Overflowed
  <2> HIDE DEF u, t
  <2>4. /\ Newest(u, q, down[at]) => Newest(t, q, down[at])
        /\ \A d : Mentions(u, d) <=> IsKey(u[1], d) \/ Mentions(t, d)
        /\ Overflowed(u) <=> u[1] = Dropped \/ Overflowed(t)
    BY <1>3, <2>1, NewestHandled, ZenonT(60)
  <2>5. /\ down'[at] = down[at] /\ early'[at] = early[at]
    BY <1>1
  <2>6. CASE at \notin dropping
    <3>1. UNCHANGED <<queue, stale, dropping, pressed>>
      BY <2>6, ZenonT(60) DEF HandleReport
    <3> HIDE DEF q
    <3>2. queue'[at] = q
      BY <3>1 DEF q
    <3>3. Reporting(at)'
      <4>1. q # <<>> => q[Len(q)] = Report
        BY <1>2, <1>5, Zenon DEF DeviceInv, Reporting, q
      <4> QED
        BY <1>3, <2>3, <2>6, <3>1, <3>2, <4>1, ZenonT(60) DEF Reporting
    <3>4. Current(at)'
      <4>1. /\ Newest(q, <<>>, down[at])
            /\ at \notin stale => Overflowed(q) \/ Newest(t, q, down[at])
        BY <1>2, <1>5, <1>3, <2>4, Zenon DEF DeviceInv, Current, q
      <4> QED
        BY <1>3, <2>3, <2>5, <2>6, <3>1, <3>2, <4>1, ZenonT(60) DEF Current
    <3>5. Known(at)'
      <4> SUFFICES ASSUME at \notin stale \cup dropping, ~Overflowed(q),
                          NEW d \in Accepts[at], ~Mentions(q, d), ~Mentions(t, d)
                   PROVE  (d \in pressed[at] => d \in down[at])
                          /\ (d \in down[at] \ early[at] => d \in pressed[at])
        BY <1>3, <2>5, <3>1, <3>2, ZenonT(60) DEF Known
      <4>1. ~Overflowed(u) /\ ~Mentions(u, d)
        BY <2>2, <2>3, <2>4, Zenon
      <4> QED
        BY <1>2, <1>3, <1>5, <4>1, ZenonT(60) DEF DeviceInv, Known, q
    <3> QED
      BY <1>3, <1>5, <3>3, <3>4, <3>5, ZenonT(60) DEF DeviceInv
  <2>7. CASE at \in dropping
    <3>1. /\ queue'[at] = Flushed(q) /\ at \notin dropping'
          /\ pressed'[at] = {d \in down[at] : KeyTarget(at, d)}
      BY <1>3, <2>7, ZenonT(60) DEF HandleReport, ReconcileKeys, ChangeKeys, Typed, KernelTyped, BridgeTyped
    <3>2. at \in stale' <=> HasKey(t) /\ HasKey(q)
      BY <1>3, <2>7, ZenonT(60) DEF HandleReport, u
    <3>3. ASSUME HasKey(t) => ~HasKey(q) PROVE Overflowed(Flushed(q)) \/ Newest(t, <<>>, down[at])
      <4>1. CASE q # <<>> /\ Head(q) = Dropped
        BY <4>1, SMTT(60) DEF Flushed, Overflowed
      <4>2. CASE ~(q # <<>> /\ Head(q) = Dropped)
        <5>1. ~Overflowed(q)
          <6> SUFFICES ASSUME NEW i \in 1 .. Len(q), q[i] = Dropped PROVE FALSE
            BY Zenon DEF Overflowed
          <6>1. i = 1
            BY <1>3, ZenonT(60) DEF EventsInv, MarkersInv
          <6>2. q # <<>> /\ Head(q) = q[1]
            BY <2>1
          <6> QED
            BY <4>2, <6>1, <6>2, Zenon
        <5>2. DOMAIN q = 1 .. Len(q) /\ DOMAIN t = 1 .. Len(t)
          BY <1>3, <2>1
        <5>3. CASE ~HasKey(t)
          BY <5>2, <5>3, Zenon DEF HasKey, Newest
        <5>4. CASE ~HasKey(q)
          <6>1. \A d : ~Mentions(q, d)
            BY <5>2, <5>4, Zenon DEF HasKey, Mentions, IsKey
          <6>2. Newest(t, q, down[at])
            BY <1>2, <1>3, <1>5, <2>4, <2>7, <5>1, ZenonT(60) DEF DeviceInv, Current
          <6> QED
            BY <6>1, <6>2, Zenon DEF Newest
        <5> QED
          BY <3>3, <5>3, <5>4
      <4> QED
        BY <4>1, <4>2, SMTT(60)
    <3>4. Flushed(q) = <<>> \/ Flushed(q) = <<Dropped, Report>>
      BY DEF Flushed
    <3>5. /\ Flushed(q) # <<>> => Overflowed(Flushed(q)) /\ Flushed(q)[Len(Flushed(q))] = Report
          /\ Newest(Flushed(q), <<>>, down[at])
      <4> DEFINE p == <<Dropped, Report>>
      <4>1. Len(p) = 2 /\ p[1] = Dropped /\ p[2] = Report /\ 1 \in 1 .. Len(p)
        OBVIOUS
      <4>2. \A i \in 1 .. Len(p) : p[i] = Dropped \/ p[i] = Report
        BY <4>1
      <4> HIDE DEF p
      <4>3. Dropped.type # "KEY" /\ Report.type # "KEY"
        BY DEF Dropped, Report
      <4>4. Overflowed(p) /\ p[Len(p)] = Report /\ Newest(p, <<>>, down[at])
        BY <4>1, <4>2, <4>3, ZenonT(60) DEF Overflowed, Newest
      <4>5. Newest(<<>>, <<>>, down[at])
        BY DEF Newest
      <4> QED
        BY <3>4, <4>4, <4>5, ZenonT(60) DEF p
    <3> HIDE DEF q
    <3>6. Reporting(at)'
      BY <1>3, <2>3, <3>1, <3>5, ZenonT(60) DEF Reporting
    <3>7. Current(at)'
      <4>1. at \notin stale' => Overflowed(Flushed(q)) \/ Newest(t, Flushed(q), down[at])
        BY <3>2, <3>3, <3>5, ZenonT(60)
      <4> QED
        BY <1>3, <2>3, <2>5, <3>1, <3>5, <4>1, ZenonT(60) DEF Current
    <3>8. Known(at)'
      BY <1>3, <2>5, <3>1 DEF Known, KeyTarget
    <3> QED
      BY <1>3, <1>5, <3>6, <3>7, <3>8, ZenonT(60) DEF DeviceInv
  <2> QED
    BY <2>6, <2>7, SMTT(60)
<1> QED
  BY <1>4, <1>5, SMTT(60)

\* Every step keeps the markers of overflows in front.
LEMMA MarkersStep ==
  ASSUME Typed, Typed', MarkersInv, [Next]_vars PROVE MarkersInv'
<1> DEFINE Front(q) == \A i \in 1 .. Len(q) : q[i] = Dropped => i = 1
<1> USE DEF kernel, work, state
<1>1. ASSUME \A s \in Sources : Front(queue'[s]), Front(events') PROVE MarkersInv'
  BY <1>1, Zenon DEF MarkersInv
<1>2. (\A s \in Sources : Front(queue[s])) /\ Front(events)
  BY Zenon DEF MarkersInv
<1>3. Front(<<>>) /\ Front(<<Dropped, Report>>)
  BY DEF Report, Dropped
<1>4. ASSUME NEW s \in Sources, Detach(s) \/ Grab(s) PROVE MarkersInv'
  <2>1. \A r \in Sources : queue'[r] = IF r = s THEN <<>> ELSE queue[r]
    BY <1>4 DEF Detach, Grab, Typed, KernelTyped
  <2>2. events' = events
    BY <1>4 DEF Detach, Grab
  <2> HIDE DEF Front
  <2> QED
    BY <1>1, <1>2, <1>3, <2>1, <2>2, ZenonT(60)
<1>5. ASSUME NEW s \in Sources, NEW c \in Codes, Change(s, c) PROVE MarkersInv'
  <2>1. \A r \in Sources \ {s} : queue'[r] = queue[r]
    BY <1>5, ChangeEffect, ZenonT(60) DEF Same
  <2>2. events' = events
    BY <1>5, ChangeEffect, ZenonT(60)
  <2>3. Front(queue'[s])
    <3>1. CASE s \notin grabbed
      <4>1. queue'[s] = queue[s]
        BY <1>5, <3>1 DEF Change, Typed, KernelTyped
      <4> QED
        BY <1>2, <4>1, ZenonT(60)
    <3>2. CASE Appended(queue[s], queue'[s], c, down[s], down'[s])
      <4> DEFINE q == queue[s]
                 p == queue'[s]
      <4>1. PICK v \in {0, 1} : p = q \o <<Key(c, v), Report>>
        BY <3>2, ZenonT(60) DEF Appended
      <4>2. q \in Seq(Events) /\ Front(q)
        BY <1>2, <3>2, ZenonT(60) DEF Appended
      <4> HIDE DEF q, p
      <4>3. Key(c, v) # Dropped /\ Report # Dropped
        BY DEF Key, Dropped, Report
      <4>4. \A i \in 1 .. Len(p) : \/ i \in 1 .. Len(q) /\ p[i] = q[i]
                                   \/ p[i] = Key(c, v) \/ p[i] = Report
        BY <4>1, <4>2
      <4> QED
        BY <4>2, <4>3, <4>4, Zenon DEF p
    <3>3. CASE Overran(queue'[s], c, down'[s])
      <4> DEFINE p == queue'[s]
      <4>1. PICK v \in {0, 1} : p = <<Dropped>> \o <<Key(c, v), Report>>
        BY <3>3, ZenonT(60) DEF Overran
      <4> HIDE DEF p
      <4>2. Key(c, v) # Dropped /\ Report # Dropped
        BY DEF Key, Dropped, Report
      <4>3. \A i \in 1 .. Len(p) : i = 1 \/ p[i] = Key(c, v) \/ p[i] = Report
        BY <4>1
      <4> QED
        BY <4>2, <4>3, Zenon DEF p
    <3> QED
      BY <1>5, <3>1, <3>2, <3>3, ChangeEffect, Zenon
  <2> HIDE DEF Front
  <2> QED
    BY <1>1, <1>2, <2>1, <2>2, <2>3, ZenonT(60)
<1>6. ASSUME NEW s \in Sources, Read(s) PROVE MarkersInv'
  <2> DEFINE q == queue[s]
             p == queue'[s]
             u == events'
  <2>1. \A r \in Sources \ {s} : queue'[r] = queue[r]
    BY <1>6, ReadEffect, Zenon DEF Same
  <2>2. Taken(q, u, p) /\ Front(q)
    BY <1>2, <1>6, ReadEffect, Zenon
  <2> HIDE DEF q, p, u
  <2>3. PICK n \in 1 .. Len(q) : /\ Len(u) = n /\ \A i \in 1 .. n : u[i] = q[i]
                                 /\ Len(p) = Len(q) - n /\ \A i \in 1 .. Len(p) : p[i] = q[i + n]
    BY <2>2, ZenonT(60) DEF Taken
  <2>a. Len(q) \in Nat
    BY <2>2 DEF Taken
  <2>b. \A l \in Nat : \A m \in 1 .. l :
          /\ \A i \in 1 .. m : i \in 1 .. l
          /\ \A i \in 1 .. (l - m) : i + m \in 1 .. l /\ i + m # 1
    BY SMT
  <2>4. \A i \in 1 .. Len(u) : i \in 1 .. Len(q) /\ u[i] = q[i]
    BY <2>3, <2>a, <2>b, ZenonT(60)
  <2>5. \A i \in 1 .. Len(p) : i + n \in 1 .. Len(q) /\ i + n # 1 /\ p[i] = q[i + n]
    BY <2>3, <2>a, <2>b, ZenonT(60)
  <2>6. Front(u) /\ Front(p)
    BY <2>2, <2>4, <2>5, Zenon
  <2>7. \A r \in Sources : Front(queue'[r])
    BY <1>2, <2>1, <2>6, Zenon DEF p
  <2> QED
    BY <1>1, <2>6, <2>7, Zenon DEF u
<1>7. ASSUME NEW type, Handle(type), \A s \in Sources : queue'[s] \in {queue[s], <<>>, <<Dropped, Report>>}
      PROVE  MarkersInv'
  <2>1. events \in Seq(Events) /\ events # <<>> /\ events' = Tail(events)
    BY <1>7, HandleEffect, Zenon
  <2>2. \A i \in 1 .. Len(events') : i + 1 \in 1 .. Len(events) /\ i + 1 # 1 /\ events'[i] = events[i + 1]
    BY <2>1
  <2>3. Front(events')
    BY <1>2, <2>2, Zenon
  <2> HIDE DEF Front
  <2>4. \A s \in Sources : Front(queue'[s])
    BY <1>2, <1>3, <1>7, Zenon
  <2> QED
    BY <1>1, <2>3, <2>4, Zenon
<1>8. CASE HandleReport
  <2>1. Handle("REPORT") /\ at \in Sources
    BY <1>8, HandleEffect, ZenonT(60) DEF HandleReport
  <2>2. \A s \in Sources : queue'[s] \in {queue[s], Flushed(queue[s])}
    BY <1>8, <2>1 DEF HandleReport, ReconcileKeys, Typed, KernelTyped
  <2>3. \A s \in Sources : queue'[s] \in {queue[s], <<>>, <<Dropped, Report>>}
    BY <2>2, Zenon DEF Flushed
  <2> QED
    BY <1>7, <2>1, <2>3, Zenon
<1>9. CASE HandleDropped \/ HandleKey
  <2>1. (Handle("DROPPED") \/ Handle("KEY")) /\ UNCHANGED queue
    BY <1>9, ZenonT(60) DEF HandleDropped, HandleKey
  <2> QED
    BY <1>7, <2>1, ZenonT(60)
<1>10. CASE Drained \/ (\E s \in Sources : Disconnect(s)) \/ (\E s \in Sources : Attach(s)) \/ UNCHANGED vars
  <2>1. UNCHANGED queue /\ events' \in {events, <<>>}
    BY <1>10, ZenonT(60) DEF Drained, Disconnect, Attach, vars
  <2> HIDE DEF Front
  <2> QED
    BY <1>1, <1>2, <1>3, <2>1, ZenonT(60)
<1>11. CASE Stop
  <2>1. (\A s \in Sources : queue'[s] = <<>>) /\ UNCHANGED events
    BY <1>11 DEF Stop
  <2> HIDE DEF Front
  <2> QED
    BY <1>1, <1>2, <1>3, <2>1, ZenonT(60)
<1> QED
  BY <1>4, <1>5, <1>6, <1>8, <1>9, <1>10, <1>11, ZenonT(60) DEF Next

\* Every step keeps what is known of every device.
LEMMA DevicesStep ==
  ASSUME Typed, Typed', HoldersInv, EventsInv, [Next]_vars, NEW r \in grabbed' \cap attached'
  PROVE  DeviceInv(r)'
<1> USE DEF kernel, work, state
<1>0. r \in Sources
  BY ZenonT(60) DEF Typed, BridgeTyped
<1>1. ASSUME r \in grabbed \cap attached, Same(r) PROVE DeviceInv(r)'
  BY <1>1, SameKept, Zenon DEF EventsInv
<1>2. ASSUME NEW s \in Sources, Attach(s) \/ Detach(s) PROVE DeviceInv(r)'
  <2>1. r # s /\ r \in grabbed \cap attached
    BY <1>2 DEF Attach, Detach
  <2>2. UNCHANGED <<stale, pressed, dropping, at, events>>
    BY <1>2, SMTT(60) DEF Attach, Detach
  <2>3. queue'[r] = queue[r] /\ down'[r] = down[r] /\ early'[r] = early[r]
    BY <1>0, <1>2, <2>1 DEF Attach, Detach, Typed, KernelTyped
  <2> QED
    BY <1>1, <2>1, <2>2, <2>3, ZenonT(60) DEF Same, Unhandled
<1>3. ASSUME NEW s \in Sources, Grab(s) PROVE DeviceInv(r)'
  <2>1. UNCHANGED <<attached, down, stale, pressed, dropping, at, events>> /\ at = None
        /\ grabbed' = grabbed \cup {s} /\ s \notin grabbed
    BY <1>3, ZenonT(60) DEF Grab
  <2>2. CASE r # s
    <3>1. r \in grabbed \cap attached /\ queue'[r] = queue[r] /\ early'[r] = early[r]
      BY <1>0, <1>3, <2>1, <2>2 DEF Grab, Typed, KernelTyped
    <3> QED
      BY <1>1, <2>1, <3>1, ZenonT(60) DEF Same, Unhandled
  <2>3. CASE r = s
    <3>1. queue'[r] = <<>> /\ early'[r] = down'[r] /\ pressed'[r] = {} /\ r \notin dropping'
      BY <1>0, <1>3, <2>1, <2>3, ZenonT(60) DEF Grab, Typed, KernelTyped, BridgeTyped, HoldersInv
    <3>2. at' # r
      BY <1>0, <2>1, BridgeAssumptions DEF BridgeAssumptions
    <3>3. Unhandled(r)' = <<>>
      BY <3>2, Zenon DEF Unhandled
    <3>4. ~Overflowed(<<>>) /\ Newest(<<>>, <<>>, down'[r])
      BY DEF Overflowed, Newest
    <3>5. Reporting(r)'
      BY <3>1, <3>3, <3>4, Zenon DEF Reporting
    <3>6. Current(r)'
      BY <3>1, <3>3, <3>4, ZenonT(60) DEF Current
    <3>7. Known(r)'
      BY <3>1, ZenonT(60) DEF Known
    <3> QED
      BY <3>5, <3>6, <3>7, ZenonT(60) DEF DeviceInv
  <2> QED
    BY <2>2, <2>3, SMTT(60)
<1>4. CASE Drained
  <2>1. UNCHANGED <<attached, down, queue, early, stale, grabbed, pressed, dropping>>
        /\ events = <<>> /\ events' = <<>>
    BY <1>4 DEF Drained
  <2>2. Unhandled(r) = <<>> /\ Unhandled(r)' = <<>>
    BY <2>1, Zenon DEF Unhandled
  <2> QED
    BY <1>1, <2>1, <2>2, ZenonT(60) DEF Same
<1>5. ASSUME NEW s \in Sources, Disconnect(s) PROVE DeviceInv(r)'
  <2>1. /\ UNCHANGED <<attached, down, queue, early>> /\ r # s /\ r \in grabbed \cap attached
        /\ at \in {None, s} /\ at' = None /\ events' = <<>>
        /\ (r \in dropping' <=> r \in dropping) /\ (r \in stale' <=> r \in stale)
    BY <1>5, SMTT(60) DEF Disconnect
  <2>2. pressed'[r] = pressed[r]
    BY <1>0, <1>5, <2>1, ZenonT(60) DEF Disconnect, ChangeKeys, Typed, BridgeTyped
  <2>3. Unhandled(r) = <<>> /\ Unhandled(r)' = <<>>
    BY <1>0, <2>1, BridgeAssumptions DEF BridgeAssumptions, Unhandled
  <2> QED
    BY <1>1, <2>1, <2>2, <2>3, ZenonT(60) DEF Same
<1>6. CASE Stop
  BY <1>6 DEF Stop
<1>7. CASE UNCHANGED vars
  <2>1. UNCHANGED <<attached, down, queue, early, stale, grabbed, pressed, dropping, at, events>>
    BY <1>7 DEF vars
  <2> QED
    BY <1>1, <2>1, Zenon DEF Same, Unhandled
<1>8. CASE HandleDropped \/ HandleReport \/ HandleKey
  BY <1>8, DroppedDevice, ReportDevice, KeyDevice, Zenon DEF HoldersInv
<1>9. CASE \E s \in Sources : Read(s) \/ \E c \in Codes : Change(s, c)
  BY <1>9, ReadDevice, ChangeDevice, Zenon
<1> QED
  BY <1>2, <1>3, <1>4, <1>5, <1>6, <1>7, <1>8, <1>9, ZenonT(60) DEF Next

-----------------------------------------------------------------------------
(* The theorems. *)

\* No device is grabbed and no key is down when the bridge starts.
LEMMA BridgeInit ==
  ASSUME Init PROVE Typed /\ BridgeInv
<1>1. KernelTyped /\ WorkTyped
  BY BridgeAssumptions DEF BridgeAssumptions, Init, KernelTyped, WorkTyped
<1>2. BridgeTyped
  <2>1. stopped \in BOOLEAN
    BY Zenon DEF Init
  <2> QED
    BY <2>1 DEF Init, BridgeTyped
<1>3. HoldersInv
  <2>1. \A c \in Codes : {s \in grabbed : c \in pressed[s]} = {}
    BY DEF Init
  <2> QED
    BY <2>1, FS_EmptySet DEF Init, HoldersInv, HoldersExact
<1>4. EventsInv
  BY DEF Init, EventsInv, MarkersInv
<1> QED
  BY <1>1, <1>2, <1>3, <1>4, Zenon DEF Typed, BridgeInv

\* The inductive invariant: every reachable state of the devices, of their queues
\* and of the bridge is well-formed, the counters are exact, and pending events
\* say what the keys are.
THEOREM BridgeInvariance == Spec => [](Typed /\ BridgeInv)
<1>1. Init => Typed /\ BridgeInv
  BY BridgeInit, Zenon
<1>2. ASSUME Typed, BridgeInv, [Next]_vars PROVE (Typed /\ BridgeInv)'
  <2>1. HoldersInv /\ HoldersExact /\ EventsInv /\ MarkersInv
    BY <1>2, Zenon DEF BridgeInv, HoldersInv, EventsInv
  <2>2. Typed'
    BY <1>2, <2>1, KernelStep, BridgeStep, WorkStep, Zenon DEF Typed
  <2>3. HoldersInv'
    BY <1>2, <2>1, HoldersStep, Zenon
  <2>4. MarkersInv' /\ \A r \in grabbed' \cap attached' : DeviceInv(r)'
    BY <1>2, <2>1, <2>2, MarkersStep, DevicesStep, Zenon
  <2> QED
    BY <2>2, <2>3, <2>4, Zenon DEF BridgeInv, EventsInv
<1> QED
  BY <1>1, <1>2, PTL DEF Spec

\* Type correctness of the bridge: a source never presses a key that key_target
\* does not give it, no queue and no read exceeds its size, and no counter exceeds
\* the number of devices.
THEOREM BridgeTypes == Spec => []TypeOK
<1>1. ASSUME Typed, BridgeInv PROVE TypeOK
  <2>1. holders \in [Codes -> 0 .. Cardinality(Sources)]
    <3>1. \A c \in Codes : holders[c] = Cardinality(Holding(c))
      BY <1>1 DEF BridgeInv, HoldersInv, HoldersExact, Holding
    <3>2. Cardinality(Sources) \in Nat
      BY BridgeAssumptions, FS_CardinalityType DEF BridgeAssumptions
    <3>3. \A c \in Codes : holders[c] \in 0 .. Cardinality(Sources)
      BY <1>1, <3>1, <3>2, HoldingFinite
    <3> QED
      BY <1>1, <3>3 DEF Typed, BridgeTyped
  <2>2. stopped \in BOOLEAN
    BY <1>1, Zenon DEF Typed, BridgeTyped
  <2>3. at \in Sources \cup {None} /\ Len(events) <= Batch
    BY <1>1 DEF Typed, WorkTyped, BridgeTyped
  <2> QED
    BY <1>1, <2>1, <2>2, <2>3, ZenonT(60) DEF Typed, KernelTyped, BridgeTyped, TypeOK
<1> QED
  BY <1>1, BridgeInvariance, PTL

\* change_key's counters are exact for any number of devices: a virtual key is
\* down exactly while some grabbed device holds it, whatever devices come, go and
\* overflow, and the unsigned counter never wraps.
THEOREM CountersAreExact == Spec => []HoldersExact
<1>1. BridgeInv => HoldersExact
  BY Zenon DEF BridgeInv, HoldersInv
<1> QED
  BY <1>1, BridgeInvariance, PTL

\* An empty queue neither mentions a key nor holds an overflow marker.
LEMMA NothingPending == ~Overflowed(<<>>) /\ \A c : ~Mentions(<<>>, c)
BY DEF Overflowed, Mentions

\* Once the events of a device are handled the bridge knows its keys, for any
\* queue size and any batch size of forward_events: reconcile_keys repairs every
\* overflow that did not meet newer key events behind its report.
THEOREM KeysAreKnown == Spec => []KeysFollowDevice
<1>1. ASSUME Typed, BridgeInv PROVE KeysFollowDevice
  <2> SUFFICES ASSUME NEW s \in (grabbed \cap attached) \ stale, queue[s] = <<>>, at = s => events = <<>>
               PROVE  /\ pressed[s] \subseteq down[s]
                      /\ (down[s] \cap Accepts[s]) \ early[s] \subseteq pressed[s]
    BY ZenonT(60) DEF KeysFollowDevice
  <2>1. DeviceInv(s) /\ s \in Sources /\ pressed[s] \subseteq Accepts[s]
    BY <1>1, ZenonT(60) DEF BridgeInv, EventsInv, Typed, BridgeTyped
  <2>2. Unhandled(s) = <<>>
    BY ZenonT(60) DEF Unhandled
  <2>3. ~Overflowed(<<>>) /\ \A c : ~Mentions(<<>>, c)
    BY NothingPending, Zenon
  <2>4. s \notin dropping
    BY <2>1, <2>2, Zenon DEF DeviceInv, Reporting
  <2> QED
    BY <2>1, <2>2, <2>3, <2>4, ZenonT(60) DEF DeviceInv, Known
<1> QED
  BY <1>1, BridgeInvariance, PTL
=============================================================================
