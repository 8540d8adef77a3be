---------------------------- MODULE ScanoutTrace ----------------------------
(***************************************************************************)
(* libhdmi-los-drmtrace.so inside Xorg, and the agent that relays its      *)
(* records to the broker's log and judges Xorg's scanout from them.        *)
(*                                                                         *)
(* Every DRM ioctl of a thread of Xorg exchanges records with the agent:   *)
(* one before it, some details, one after it.  The threads share one       *)
(* socket without a lock.  Once the agent has verified the scanout, its    *)
(* acknowledgements let routine ioctls go untraced; SETCRTC stays traced.  *)
(* The agent starts Xorg again for each session.                           *)
(***************************************************************************)
EXTENDS Naturals, Sequences

CONSTANTS
  Threads,    \* the threads of Xorg that use DRM
  Main,       \* the one that loads the library
  Buffers,    \* framebuffers of Xorg
  AndroidFb,  \* the framebuffer that the CRTC shows at the takeover
  NoFb,       \* framebuffer id 0
  Modes,      \* timings
  AndroidMode,\* the timing that Xorg is to inherit
  Values,     \* values of a connector property
  Unknown,    \* the property is not cached
  MaxSeq      \* bound on g_sequence within a session

ASSUME TraceAssumptions ==
  /\ Main \in Threads /\ AndroidMode \in Modes
  /\ AndroidFb \notin Buffers /\ NoFb \notin Buffers \cup {AndroidFb}
  /\ Unknown \notin Values /\ MaxSeq \in Nat

VARIABLES
  pc, req, seq, result,  \* per thread: place, request, its number, its outcome
  next,       \* g_sequence
  quiet,      \* g_trace_steady of the interposer
  cache,      \* g_connector_properties, for one property
  records,    \* the trace socket, towards the agent
  acks,       \* and back: [seq, steady]
  agent,      \* "idle", "starting", "scanned" (verify_scanout done), "running"
              \* or "ending" (in cleanup_session)
  scan,       \* g_scanout_sequence, _fb, _connector_seen, _confirmed and _failed
  steady,     \* g_trace_steady of the agent
  log,        \* the sequence numbers whose BEFORE record is in the broker's log
  crtc,       \* the leased CRTC: [fb, mode]
  prop,       \* the connector property in the kernel
  reached,    \* history: the SETCRTCs whose buffer and timing the CRTC has shown
  written     \* history: a SETPROPERTY of this Xorg has reached the kernel

threads == <<pc, req, seq, result>>
xorg == <<threads, next, quiet, cache>>
socket == <<records, acks>>
agentVars == <<agent, scan, steady, log>>
property == <<prop, written>>
kernel == <<crtc, property, reached>>
vars == <<xorg, socket, agentVars, kernel>>

\* The ioctls that the properties tell apart; IGNORED is drmModeGetProperty's
\* note about a property it hides from Xorg.
SetCrtc == [op : {"SETCRTC"}, fb : Buffers \cup {NoFb}, mode : Modes, leased : BOOLEAN]
PageFlip == [op : {"PAGE_FLIP"}, fb : Buffers]
SetProperty == [op : {"SETPROPERTY"}, value : Values]
GetProperties == [op : {"OBJ_GETPROPERTIES"}]
Requests == SetCrtc \cup PageFlip \cup SetProperty \cup GetProperties
Filled(v) == [op |-> "OBJ_GETPROPERTIES", value |-> v]  \* what the kernel returns
Loading == [op |-> "LOADED"]
Ignored == [op |-> "IGNORED"]

Record(s, phase, r, ok) == [seq |-> s, phase |-> phase, req |-> r, ok |-> ok]

NoScan == [seq |-> 0, fb |-> NoFb, seen |-> FALSE, confirmed |-> FALSE, failed |-> FALSE]

Waiting == {"loaded", "before", "detail", "suppressed", "reported", "after", "noted"}
Places == {"none", "idle", "issue", "fallback", "flip", "verify"} \cup Waiting

\* Xorg does not run.
Stopped ==
  /\ pc' = [t \in Threads |-> "none"]
  /\ req' = [t \in Threads |-> Loading] /\ seq' = [t \in Threads |-> 0]
  /\ result' = [t \in Threads |-> FALSE]
  /\ next' = 1 /\ quiet' = FALSE /\ cache' = Unknown

Init ==
  /\ pc = [t \in Threads |-> "none"]
  /\ req = [t \in Threads |-> Loading] /\ seq = [t \in Threads |-> 0]
  /\ result = [t \in Threads |-> FALSE]
  /\ next = 1 /\ quiet = FALSE /\ cache = Unknown
  /\ records = <<>> /\ acks = <<>>
  /\ agent = "idle" /\ scan = NoScan /\ steady = FALSE /\ log = {}
  /\ crtc = [fb |-> AndroidFb, mode |-> AndroidMode] /\ prop \in Values /\ reached = {}
  /\ written = FALSE

-----------------------------------------------------------------------------
(* The interposer: ioctl() *)

ShouldTrace(r) == ~quiet \/ r.op = "SETCRTC"

Goto(t, place) == pc' = [pc EXCEPT ![t] = place]

\* send() of a record whose acknowledgement the thread then waits for.
Emit(t, record, place) == records' = Append(records, record) /\ Goto(t, place)

\* A traced request takes the next number and sends its first record.
Trace(t, phase, r, place) ==
  /\ next <= MaxSeq /\ next' = next + 1
  /\ seq' = [seq EXCEPT ![t] = next]
  /\ Emit(t, Record(next, phase, r, FALSE), place)

\* A thread calls ioctl.
Call(t, r) ==
  /\ pc[t] = "idle"
  /\ req' = [req EXCEPT ![t] = r] /\ result' = [result EXCEPT ![t] = FALSE]
  /\ IF ShouldTrace(r)
     THEN Trace(t, "BEFORE", r, "before")
     ELSE seq' = [seq EXCEPT ![t] = 0] /\ Goto(t, "issue") /\ UNCHANGED <<next, records>>
  /\ UNCHANGED <<quiet, cache, acks, agentVars, kernel>>

\* drmModeGetProperty hides a property from Xorg, and says so in a record.
HideProperty(t) ==
  /\ pc[t] = "idle" /\ ShouldTrace(Ignored)
  /\ req' = [req EXCEPT ![t] = Ignored] /\ result' = [result EXCEPT ![t] = FALSE]
  /\ Trace(t, "DETAIL", Ignored, "noted")
  /\ UNCHANGED <<quiet, cache, acks, agentVars, kernel>>

Exit == Stopped /\ records' = <<>> /\ acks' = <<>>

\* emit_setcrtc_details: a SETCRTC with a connector has a record about it.
HasConnector(r) == r.op = "SETCRTC" /\ r.fb # NoFb

\* What follows a valid acknowledgement.
Proceed(t) ==
  LET r == req[t] IN
  \/ /\ pc[t] = "before" /\ HasConnector(r)
     /\ Emit(t, Record(seq[t], "DETAIL", r, FALSE), "detail") /\ UNCHANGED cache
  \/ /\ \/ pc[t] = "before" /\ ~HasConnector(r)
        \/ pc[t] = "detail"
     /\ Goto(t, "issue") /\ UNCHANGED <<records, cache>>
  \/ /\ pc[t] \in {"suppressed", "reported"}
     /\ Emit(t, Record(seq[t], "AFTER", r, result[t]), "after") /\ UNCHANGED cache
  \/ /\ pc[t] = "after" /\ r.op = "OBJ_GETPROPERTIES" /\ result[t]
     /\ cache' = r.value
     /\ Emit(t, Record(seq[t], "DETAIL", r, FALSE), "noted")
  \/ /\ \/ pc[t] = "after" /\ ~(r.op = "OBJ_GETPROPERTIES" /\ result[t])
        \/ pc[t] \in {"noted", "loaded"}
     /\ Goto(t, "idle") /\ UNCHANGED <<records, cache>>

ValidAckAny(t, ack) == TRUE

ValidAck(t, ack) == ack.seq = seq[t]

\* exchange_record: whichever thread reads next takes the next acknowledgement,
\* and one that is not its own makes the library end the process.
Await(t) ==
  /\ pc[t] \in Waiting /\ acks # <<>>
  /\ IF ValidAck(t, Head(acks))
     THEN /\ quiet' = (quiet \/ Head(acks).steady)
          /\ acks' = Tail(acks)
          /\ Proceed(t)
          /\ UNCHANGED <<req, seq, result, next>>
     ELSE Exit
  /\ UNCHANGED <<agentVars, kernel>>

\* No acknowledgement within two seconds, or Xorg ends by itself.
Die == pc[Main] # "none" /\ Exit /\ UNCHANGED <<agentVars, kernel>>

\* The end of an ioctl, traced or not.
Return(t, ok) ==
  /\ result' = [result EXCEPT ![t] = ok]
  /\ IF seq[t] # 0 THEN Emit(t, Record(seq[t], "AFTER", req[t], ok), "after")
     ELSE Goto(t, "idle") /\ UNCHANGED records

\* What a step of the thread leaves in the CRTC, and whether that is its SETCRTC.
Show(t, shown) ==
  /\ crtc' = shown
  /\ reached' = IF req[t].op = "SETCRTC" /\ req[t].leased
                   /\ shown = [fb |-> req[t].fb, mode |-> req[t].mode]
                THEN reached \cup {seq[t]} ELSE reached

\* Mutant: any property that is cached.
SuppressibleAnyValue(r) == r.op = "SETPROPERTY" /\ cache # Unknown

Suppressible(r) == r.op = "SETPROPERTY" /\ cache = r.value

\* A SETPROPERTY of the cached value is answered without the kernel.
Suppress(t) ==
  /\ pc[t] = "issue" /\ Suppressible(req[t])
  /\ result' = [result EXCEPT ![t] = TRUE]
  /\ IF seq[t] # 0 THEN Emit(t, Record(seq[t], "DETAIL", req[t], FALSE), "suppressed")
     ELSE Goto(t, "idle") /\ UNCHANGED records
  /\ UNCHANGED <<req, seq, next, quiet, cache, acks, agentVars, kernel>>

MayFallBackAlways(r) == TRUE

MayFallBack(r) == r.op = "SETCRTC"

\* The ioctl itself.  A CRTC is set only with the connector of the lease, and
\* turned off without one.
Syscall(t) ==
  LET r == req[t] IN
  /\ pc[t] = "issue" /\ ~Suppressible(r)
  /\ \/ /\ Return(t, TRUE)
        /\ \/ /\ r.op = "SETCRTC" /\ r.fb # NoFb /\ r.leased
              /\ Show(t, [fb |-> r.fb, mode |-> r.mode]) /\ UNCHANGED property
           \/ /\ r.op = "SETCRTC" /\ r.fb = NoFb
              /\ crtc' = [crtc EXCEPT !.fb = NoFb] /\ reached' = reached \cup {seq[t]}
              /\ UNCHANGED property
           \/ /\ r.op = "PAGE_FLIP" /\ crtc.fb # NoFb
              /\ Show(t, [crtc EXCEPT !.fb = r.fb]) /\ UNCHANGED property
           \/ /\ r.op = "SETPROPERTY" /\ prop' = r.value /\ written' = TRUE
              /\ UNCHANGED <<crtc, reached>>
           \/ r.op = "OBJ_GETPROPERTIES" /\ UNCHANGED kernel
        /\ req' = IF r.op = "OBJ_GETPROPERTIES" THEN [req EXCEPT ![t] = Filled(prop)] ELSE req
     \/ Return(t, FALSE) /\ UNCHANGED <<req, kernel>>
     \/ /\ MayFallBack(r)  \* EINVAL
        /\ Goto(t, "fallback") /\ UNCHANGED <<req, records, result, kernel>>
  /\ UNCHANGED <<seq, next, quiet, cache, acks, agentVars>>

-----------------------------------------------------------------------------
(* try_same_mode_pageflip *)

\* The detail record about the outcome; the AFTER record follows it.
Report(t, ok) ==
  /\ result' = [result EXCEPT ![t] = ok]
  /\ Emit(t, Record(seq[t], "NOTE", req[t], ok), "reported")

SameModeAnyConnector(t) ==
  /\ req[t].fb # NoFb
  /\ crtc.fb # NoFb /\ crtc.mode = req[t].mode

SameMode(t) ==
  /\ req[t].fb # NoFb /\ req[t].leased
  /\ crtc.fb # NoFb /\ crtc.mode = req[t].mode

Fallback(t) ==
  /\ pc[t] = "fallback"
  /\ \/ SameMode(t) /\ Goto(t, "flip") /\ UNCHANGED <<records, result>>
     \/ Report(t, FALSE)
  /\ UNCHANGED <<req, seq, next, quiet, cache, acks, agentVars, kernel>>

Flip(t) ==
  /\ pc[t] = "flip"
  /\ \/ Report(t, FALSE) /\ UNCHANGED kernel
     \/ /\ Goto(t, "verify") /\ UNCHANGED <<records, result, property>>
        /\ Show(t, [crtc EXCEPT !.fb = req[t].fb])
     \/ Goto(t, "verify") /\ UNCHANGED <<records, result, kernel>>  \* it never lands
  /\ UNCHANGED <<req, seq, next, quiet, cache, acks, agentVars>>

Verify(t) ==
  /\ pc[t] = "verify"
  /\ \/ /\ crtc = [fb |-> req[t].fb, mode |-> req[t].mode]
        /\ Report(t, TRUE) /\ Show(t, crtc) /\ UNCHANGED property
     \/ Report(t, FALSE) /\ UNCHANGED kernel
  /\ UNCHANGED <<req, seq, next, quiet, cache, acks, agentVars>>

-----------------------------------------------------------------------------
(* The agent. *)

\* spawn_xorg: the socket pair and the process, whose library's constructor sends
\* the first record.
SpawnXorg ==
  /\ pc' = [pc EXCEPT ![Main] = "loaded"]
  /\ records' = <<Record(0, "LOADED", Loading, FALSE)>>

\* start_xorg, up to the loop.  The agent remembers nothing of the last session
\* but g_trace_steady, which cleanup_session cleared.
Start ==
  /\ agent = "idle" /\ pc[Main] = "none"
  /\ agent' = "starting" /\ scan' = NoScan /\ log' = {} /\ reached' = {}
  /\ written' = FALSE
  /\ SpawnXorg
  /\ crtc' = [fb |-> AndroidFb, mode |-> AndroidMode]
  /\ UNCHANGED <<req, seq, result, next, quiet, cache, acks, steady, prop>>

\* Xorg starts another thread.
Spawn(t) ==
  /\ pc[t] = "none" /\ pc[Main] \notin {"none", "loaded"}
  /\ Goto(t, "idle")
  /\ UNCHANGED <<req, seq, result, next, quiet, cache, socket, agentVars, kernel>>

\* observe_scanout_record
Observe(r) ==
  IF r.req.op # "SETCRTC" THEN scan
  ELSE IF r.phase = "BEFORE" /\ r.req.fb # NoFb /\ (scan.seq = 0 \/ scan.confirmed)
  THEN [scan EXCEPT !.seq = r.seq, !.fb = r.req.fb, !.seen = FALSE]
  ELSE IF r.seq # scan.seq THEN scan
  ELSE IF r.phase = "DETAIL" /\ r.req.leased THEN [scan EXCEPT !.seen = TRUE]
  ELSE IF r.phase = "AFTER"
  THEN IF r.ok /\ scan.seen THEN [scan EXCEPT !.confirmed = TRUE]
       ELSE [scan EXCEPT !.failed = TRUE]
  ELSE scan

\* Where a look at g_scanout_failed sends the agent; start_xorg has its own.
AfterRelay(failed) == IF agent = "running" /\ failed THEN "ending" ELSE agent

\* relay_trace_record, of start_xorg, of run_wait or of the loop: the broker logs
\* the record, then both hops acknowledge.  The loop then ends a session whose
\* scanout failed.
Relay ==
  /\ agent \in {"starting", "scanned", "running"} /\ records # <<>>
  /\ scan' = Observe(Head(records))
  /\ log' = IF Head(records).phase = "BEFORE" THEN log \cup {Head(records).seq} ELSE log
  /\ records' = Tail(records)
  /\ acks' = Append(acks, [seq |-> Head(records).seq, steady |-> steady])
  /\ agent' = AfterRelay(scan'.failed)
  /\ UNCHANGED <<xorg, steady, kernel>>

\* The broker, its log or Xorg is gone, a check failed, time ran out or STOP
\* came: cleanup_session begins.  Xorg has seconds of grace in it, and nobody
\* reads its records.
EndSession ==
  /\ agent \in {"starting", "scanned", "running"} /\ agent' = "ending"
  /\ UNCHANGED <<xorg, socket, scan, steady, log, kernel>>

\* cleanup_session has ended Xorg: it closes the socket and forgets g_trace_steady.
Cleanup ==
  /\ agent = "ending" /\ agent' = "idle" /\ steady' = FALSE
  /\ Exit
  /\ UNCHANGED <<scan, log, kernel>>

\* xorg_ready succeeded and the scanout was confirmed: verify_scanout.
VerifyScanout ==
  /\ agent = "starting" /\ pc[Main] # "none" /\ scan.confirmed /\ ~scan.failed
  /\ crtc = [fb |-> scan.fb, mode |-> AndroidMode]
  /\ agent' = "scanned"
  /\ UNCHANGED <<xorg, socket, scan, steady, log, kernel>>

\* verify_xorg; by default routine tracing ends here (g_trace_startup_only).
VerifyXorg ==
  /\ agent = "scanned" /\ pc[Main] # "none" /\ agent' = "running"
  /\ steady' \in BOOLEAN
  /\ UNCHANGED <<xorg, socket, scan, log, kernel>>

Next ==
  \/ \E t \in Threads : \/ Await(t) \/ Suppress(t) \/ Syscall(t) \/ Fallback(t) \/ Flip(t)
                        \/ Verify(t) \/ Spawn(t) \/ HideProperty(t)
                        \/ \E r \in Requests : Call(t, r)
  \/ Die \/ Start \/ Relay \/ EndSession \/ Cleanup \/ VerifyScanout \/ VerifyXorg

Spec == Init /\ [][Next]_vars

-----------------------------------------------------------------------------
\* Every variable of the tracer, the agent and the kernel has its type.
TypeOK ==
  /\ \A t \in Threads : /\ pc[t] \in Places
                        /\ req[t] \in Requests \cup {Loading, Ignored} \cup {Filled(v) : v \in Values}
                        /\ seq[t] \in 0 .. MaxSeq /\ result[t] \in BOOLEAN
                        /\ pc[t] \in {"fallback", "flip", "verify"} => req[t] \in SetCrtc
  /\ next \in 1 .. MaxSeq + 1 /\ quiet \in BOOLEAN /\ cache \in Values \cup {Unknown}
  /\ agent \in {"idle", "starting", "scanned", "running", "ending"} /\ steady \in BOOLEAN
  /\ scan.seq \in 0 .. MaxSeq /\ scan.fb \in Buffers \cup {NoFb}
  /\ log \subseteq 1 .. MaxSeq /\ reached \subseteq 0 .. MaxSeq
  /\ crtc \in [fb : Buffers \cup {AndroidFb, NoFb}, mode : Modes] /\ prop \in Values
  /\ written \in BOOLEAN

\* "the ioctl is not issued without that acknowledgement", and "every later
\* SETCRTC remains durably traced" (docs/ARCHITECTURE.md:62, :77): an ioctl
\* reaches the kernel only when its own record is in the broker's log, whatever
\* other threads exchange on the same socket; only in a session whose scanout
\* was verified, up to the end of its cleanup, may an ioctl other than SETCRTC go
\* without.
TracedFirst ==
  [][\A t \in Threads :
       pc[t] = "issue" /\ pc'[t] \notin {"issue", "none"} =>
         seq[t] \in log \/ (agent \in {"running", "ending"} /\ steady /\ req[t].op # "SETCRTC")]_vars

\* A SETCRTC that is reported as successful, by the kernel or by the same-mode
\* fallback, has put its own buffer on the leased connector at its own timing.
ReportedWasShown ==
  \A i \in DOMAIN records :
    /\ records[i].phase = "AFTER" /\ records[i].req.op = "SETCRTC" /\ records[i].ok
    => records[i].seq \in reached

\* "A real value change, unknown property, or different connector still reaches
\* the kernel" (docs/QUALCOMM_DRM_RESEARCH.md:58-59): after a SETPROPERTY that
\* succeeds the property has the value, whether the kernel answered or the cache
\* did, and whatever other threads do meanwhile.  This ends with the first
\* SETPROPERTY that goes through (`written'), since it does not update the cache:
\* setting the value back is then suppressed.
ChangeReachesKernel ==
  [][\A t \in Threads :
       pc[t] = "issue" /\ req[t].op = "SETPROPERTY" /\ result'[t]
         => prop' = req[t].value \/ written]_vars
=============================================================================
