------------------------- MODULE ScanoutTraceProofs -------------------------
(***************************************************************************)
(* Proofs about ScanoutTrace, for any number of threads, buffers, timings  *)
(* and property values, and any length of a session: no ioctl goes ahead   *)
(* of its record, no SETCRTC is reported that was not shown, and the cache *)
(* hides no change before the first property that Xorg writes.             *)
(***************************************************************************)
EXTENDS ScanoutTrace, TLAPS

AnyRequest == Requests \cup {Loading, Ignored} \cup {Filled(v) : v \in Values}
AnyRecord == [seq : 0 .. MaxSeq, phase : {"LOADED", "BEFORE", "DETAIL", "NOTE", "AFTER"},
              req : AnyRequest, ok : BOOLEAN]
Ack == [seq : 0 .. MaxSeq, steady : BOOLEAN]
Scan == [seq : 0 .. MaxSeq, fb : Buffers \cup {NoFb}, seen : BOOLEAN, confirmed : BOOLEAN,
         failed : BOOLEAN]

XorgTyped ==
  /\ pc \in [Threads -> Places] /\ req \in [Threads -> AnyRequest]
  /\ seq \in [Threads -> 0 .. MaxSeq] /\ result \in [Threads -> BOOLEAN]
  /\ next \in 1 .. MaxSeq + 1 /\ quiet \in BOOLEAN /\ cache \in Values \cup {Unknown}

SocketTyped == records \in Seq(AnyRecord) /\ acks \in Seq(Ack)

AgentTyped ==
  /\ agent \in {"idle", "starting", "scanned", "running", "ending"} /\ scan \in Scan
  /\ steady \in BOOLEAN /\ log \subseteq 1 .. MaxSeq

KernelTyped ==
  /\ crtc \in [fb : Buffers \cup {AndroidFb, NoFb}, mode : Modes] /\ prop \in Values
  /\ reached \subseteq 0 .. MaxSeq /\ written \in BOOLEAN

Typed == XorgTyped /\ SocketTyped /\ AgentTyped /\ KernelTyped

\* What a thread's place says about its request.
PlacesInv ==
  \A t \in Threads :
    /\ pc[t] \in {"before", "detail", "issue"} => ~result[t]
    /\ pc[t] \in {"fallback", "flip", "verify", "reported"} => req[t] \in SetCrtc
    /\ pc[t] \in {"flip", "verify"} => req[t].leased
    /\ pc[t] = "suppressed" => req[t].op = "SETPROPERTY"
    /\ pc[t] = "noted" => req[t].op # "SETCRTC"
    /\ pc[t] \in {"before", "detail"} => seq[t] # 0

\* A process that ended left nothing behind.
StoppedInv ==
  pc[Main] = "none" =>
    /\ \A t \in Threads : pc[t] = "none"
    /\ records = <<>> /\ acks = <<>> /\ next = 1 /\ cache = Unknown /\ ~quiet

\* Routine tracing ends only in a session whose scanout was verified.
SteadyInv ==
  /\ agent \notin {"running", "ending"} => ~steady
  /\ ~steady => ~quiet /\ \A i \in 1 .. Len(acks) : ~acks[i].steady

\* A number belongs to one thread, and all numbers in use are below the next.
NumbersInv ==
  /\ \A t \in Threads : seq[t] < next
  /\ \A i \in 1 .. Len(records) : records[i].seq < next
  /\ \A i \in 1 .. Len(acks) : acks[i].seq < next
  /\ \A t, u \in Threads : t # u /\ seq[t] = seq[u] => seq[t] = 0

\* The only record of a thread that waits for its first acknowledgement is the
\* BEFORE record; its acknowledgement follows the log, and so does the ioctl.
LoggedInv ==
  /\ \A i \in 1 .. Len(records) : records[i].phase = "BEFORE" => records[i].seq # 0
  /\ \A t \in Threads :
       /\ pc[t] = "before" =>
            /\ \A i \in 1 .. Len(records) :
                 records[i].seq = seq[t] => records[i].phase = "BEFORE"
            /\ \A i \in 1 .. Len(acks) : acks[i].seq = seq[t] => seq[t] \in log
       /\ pc[t] = "detail" => seq[t] \in log
       /\ pc[t] = "issue" => seq[t] \in log \/ (quiet /\ req[t].op # "SETCRTC")

\* A SETCRTC that is about to be reported, or that is in a report, was shown.
ShownInv ==
  /\ \A t \in Threads :
       pc[t] = "reported" /\ result[t] => seq[t] \in reached
  /\ ReportedWasShown

\* What the cache holds, and what an OBJ_GETPROPERTIES that returned brings to
\* it, is the property's value until Xorg writes the property.
CacheInv ==
  /\ cache \in {Unknown, prop} \/ written
  /\ \A t \in Threads :
       pc[t] = "after" /\ req[t].op = "OBJ_GETPROPERTIES" /\ result[t]
         => req[t] \in {Filled(v) : v \in Values} /\ (req[t].value = prop \/ written)

TraceInv ==
  PlacesInv /\ StoppedInv /\ SteadyInv /\ NumbersInv /\ LoggedInv /\ ShownInv /\ CacheInv

-----------------------------------------------------------------------------
(* Types. *)

\* Sending a record keeps the types of the socket and of the places.
LEMMA EmitTyped ==
  ASSUME Typed, NEW t \in Threads, NEW r \in AnyRecord, NEW place \in Places,
         Emit(t, r, place)
  PROVE  records' \in Seq(AnyRecord) /\ pc' \in [Threads -> Places]
BY DEF Typed, XorgTyped, SocketTyped, Emit, Goto

\* So does a traced request, which also takes a number.
LEMMA TraceTyped ==
  ASSUME Typed, NEW t \in Threads, NEW r \in AnyRequest, NEW phase \in {"BEFORE", "DETAIL"},
         NEW place \in Places, Trace(t, phase, r, place)
  PROVE  /\ records' \in Seq(AnyRecord) /\ pc' \in [Threads -> Places]
         /\ seq' \in [Threads -> 0 .. MaxSeq] /\ next' \in 1 .. MaxSeq + 1
<1>1. next \in 0 .. MaxSeq
  BY TraceAssumptions, SMT DEF TraceAssumptions, Trace, Typed, XorgTyped
<1>2. Record(next, phase, r, FALSE) \in AnyRecord
  BY <1>1 DEF Record, AnyRecord
<1>3. seq' \in [Threads -> 0 .. MaxSeq]
  BY <1>1 DEF Trace, Typed, XorgTyped
<1>4. next' \in 1 .. MaxSeq + 1
  BY <1>1, TraceAssumptions, SMT DEF TraceAssumptions, Trace
<1> QED
  BY <1>2, <1>3, <1>4, EmitTyped, Zenon DEF Trace

\* So does the end of an ioctl.
LEMMA ReturnTyped ==
  ASSUME Typed, NEW t \in Threads, NEW ok \in BOOLEAN, Return(t, ok)
  PROVE  /\ records' \in Seq(AnyRecord) /\ pc' \in [Threads -> Places]
         /\ result' \in [Threads -> BOOLEAN]
<1>1. Record(seq[t], "AFTER", req[t], ok) \in AnyRecord
  BY DEF Typed, XorgTyped, Record, AnyRecord
<1>2. "after" \in Places /\ "idle" \in Places
  BY DEF Places, Waiting
<1>3. result' \in [Threads -> BOOLEAN]
  BY DEF Return, Typed, XorgTyped
<1>4. CASE seq[t] # 0
  BY <1>1, <1>2, <1>3, <1>4, EmitTyped DEF Return
<1>5. CASE seq[t] = 0
  BY <1>2, <1>3, <1>5, SMTT(60) DEF Return, Typed, XorgTyped, SocketTyped, Goto
<1> QED
  BY <1>4, <1>5

\* And the record about the outcome of the fallback.
LEMMA ReportTyped ==
  ASSUME Typed, NEW t \in Threads, NEW ok \in BOOLEAN, Report(t, ok)
  PROVE  /\ records' \in Seq(AnyRecord) /\ pc' \in [Threads -> Places]
         /\ result' \in [Threads -> BOOLEAN]
<1>1. Record(seq[t], "NOTE", req[t], ok) \in AnyRecord
  BY DEF Typed, XorgTyped, Record, AnyRecord
<1>2. "reported" \in Places
  BY DEF Places, Waiting
<1>3. result' \in [Threads -> BOOLEAN]
  BY DEF Report, Typed, XorgTyped
<1> QED
  BY <1>1, <1>2, <1>3, EmitTyped DEF Report

\* Xorg has ended.
LEMMA ExitTyped ==
  ASSUME Exit
  PROVE  XorgTyped' /\ SocketTyped'
<1>1. pc' \in [Threads -> Places] /\ req' \in [Threads -> AnyRequest]
  BY Zenon DEF Exit, Stopped, Places, AnyRequest
<1>2. seq' \in [Threads -> 0 .. MaxSeq] /\ result' \in [Threads -> BOOLEAN]
  BY TraceAssumptions, SMT DEF TraceAssumptions, Exit, Stopped
<1>3. next' \in 1 .. MaxSeq + 1
  BY TraceAssumptions, SMT DEF TraceAssumptions, Exit, Stopped
<1>4. quiet' \in BOOLEAN /\ cache' \in Values \cup {Unknown}
  BY Zenon DEF Exit, Stopped
<1>5. records' \in Seq(AnyRecord) /\ acks' \in Seq(Ack)
  BY SMT DEF Exit
<1> QED
  BY <1>1, <1>2, <1>3, <1>4, <1>5 DEF XorgTyped, SocketTyped

\* What a step of a thread shows is a buffer and a timing.
LEMMA ShowTyped ==
  ASSUME Typed, NEW t \in Threads, UNCHANGED property,
         NEW shown \in [fb : Buffers \cup {AndroidFb, NoFb}, mode : Modes], Show(t, shown)
  PROVE  KernelTyped'
BY ZenonT(60) DEF Typed, XorgTyped, KernelTyped, Show, property

\* Every step of a thread of Xorg keeps the types.
LEMMA ThreadTyped ==
  ASSUME Typed, PlacesInv, CacheInv, NEW t \in Threads,
         \/ Await(t) \/ Suppress(t) \/ Syscall(t) \/ Fallback(t) \/ Flip(t) \/ Verify(t)
         \/ Spawn(t) \/ HideProperty(t) \/ \E r \in Requests : Call(t, r)
  PROVE  Typed'
<1> USE DEF xorg, threads, socket, agentVars, kernel, property
<1>0. \A place \in {"idle", "issue", "fallback", "flip", "verify"} \cup Waiting : place \in Places
  BY DEF Places
<1>1. ASSUME NEW r \in Requests, Call(t, r)
      PROVE  Typed'
  <2>1. r \in AnyRequest
    BY DEF AnyRequest
  <2>2. req' \in [Threads -> AnyRequest] /\ result' \in [Threads -> BOOLEAN]
    BY <1>1, <2>1 DEF Call, Typed, XorgTyped
  <2>3. /\ records' \in Seq(AnyRecord) /\ pc' \in [Threads -> Places]
        /\ seq' \in [Threads -> 0 .. MaxSeq] /\ next' \in 1 .. MaxSeq + 1
    <3>1. CASE ShouldTrace(r)
      BY <1>0, <1>1, <2>1, <3>1, TraceTyped DEF Call, Waiting
    <3>2. CASE ~ShouldTrace(r)
      BY <1>0, <1>1, <3>2, TraceAssumptions, SMTT(60)
         DEF TraceAssumptions, Call, Goto, Typed, XorgTyped, SocketTyped
    <3> QED
      BY <3>1, <3>2
  <2> QED
    BY <1>1, <2>2, <2>3 DEF Call, Typed, XorgTyped, SocketTyped, AgentTyped, KernelTyped
<1>2. CASE HideProperty(t)
  <2>1. Ignored \in AnyRequest
    BY Zenon DEF AnyRequest
  <2>2. req' \in [Threads -> AnyRequest] /\ result' \in [Threads -> BOOLEAN]
    BY <1>2, <2>1 DEF HideProperty, Typed, XorgTyped
  <2>3. /\ records' \in Seq(AnyRecord) /\ pc' \in [Threads -> Places]
        /\ seq' \in [Threads -> 0 .. MaxSeq] /\ next' \in 1 .. MaxSeq + 1
    BY <1>0, <1>2, <2>1, TraceTyped DEF HideProperty, Waiting
  <2> QED
    BY <1>2, <2>2, <2>3 DEF HideProperty, Typed, XorgTyped, SocketTyped, AgentTyped, KernelTyped
<1>3. CASE Await(t)
  <2>1. CASE ValidAck(t, Head(acks))
    <3>1. /\ pc[t] \in Waiting /\ acks # <<>> /\ quiet' = (quiet \/ Head(acks).steady)
          /\ acks' = Tail(acks) /\ Proceed(t)
          /\ UNCHANGED <<req, seq, result, next, agentVars, kernel>>
      BY <1>3, <2>1, Zenon DEF Await
    <3>2. acks' \in Seq(Ack) /\ Head(acks) \in Ack
      BY <3>1 DEF Typed, SocketTyped
    <3>3. quiet' \in BOOLEAN
      BY <3>1, Zenon
    <3>4. /\ records' \in Seq(AnyRecord) /\ pc' \in [Threads -> Places]
          /\ cache' \in Values \cup {Unknown}
      <4>1. \A phase \in {"DETAIL", "AFTER"}, ok \in BOOLEAN :
              Record(seq[t], phase, req[t], ok) \in AnyRecord
        BY DEF Typed, XorgTyped, Record, AnyRecord
      <4>2. /\ \A phase \in {"DETAIL", "AFTER"}, ok \in BOOLEAN,
                  place \in {"detail", "after", "noted"} :
                 Emit(t, Record(seq[t], phase, req[t], ok), place) =>
                   records' \in Seq(AnyRecord) /\ pc' \in [Threads -> Places]
            /\ \A place \in {"issue", "idle"} : Goto(t, place) => pc' \in [Threads -> Places]
        BY <1>0, <4>1, EmitTyped, SMTT(60) DEF Waiting, Goto, Typed, XorgTyped
      <4>3. result[t] \in BOOLEAN
        BY DEF Typed, XorgTyped
      <4>4. CASE UNCHANGED cache
        BY <3>1, <4>2, <4>3, <4>4, Zenon DEF Proceed, Typed, XorgTyped, SocketTyped
      <4>5. CASE /\ pc[t] = "after" /\ req[t].op = "OBJ_GETPROPERTIES" /\ result[t]
                 /\ cache' = req[t].value
                 /\ Emit(t, Record(seq[t], "DETAIL", req[t], FALSE), "noted")
        <5>1. req[t].value \in Values
          BY <4>5 DEF CacheInv, Filled
        <5> QED
          BY <4>2, <4>5, <5>1, ZenonT(60)
      <4> QED
        BY <3>1, <4>4, <4>5, Zenon DEF Proceed
    <3> QED
      BY <3>1, <3>2, <3>3, <3>4, SMTT(60) DEF Typed, XorgTyped, SocketTyped, AgentTyped, KernelTyped
  <2>2. CASE ~ValidAck(t, Head(acks))
    BY <1>3, <2>2, ExitTyped DEF Await, Typed, AgentTyped, KernelTyped
  <2> QED
    BY <2>1, <2>2
<1>4. CASE Suppress(t)
  <2>1. Record(seq[t], "DETAIL", req[t], FALSE) \in AnyRecord
    BY DEF Typed, XorgTyped, Record, AnyRecord
  <2>2. records' \in Seq(AnyRecord) /\ pc' \in [Threads -> Places]
    <3>1. CASE seq[t] # 0
      BY <1>0, <1>4, <2>1, <3>1, EmitTyped, Zenon DEF Suppress, Waiting
    <3>2. CASE seq[t] = 0
      BY <1>0, <1>4, <3>2, SMTT(60) DEF Suppress, Goto, Typed, XorgTyped, SocketTyped
    <3> QED
      BY <3>1, <3>2
  <2> QED
    BY <1>4, <2>2, ZenonT(60) DEF Suppress, Typed, XorgTyped, SocketTyped, AgentTyped, KernelTyped
<1>5. CASE Syscall(t)
  <2>0. UNCHANGED <<seq, next, quiet, cache, acks, agentVars>>
    BY <1>5 DEF Syscall
  <2>1. CASE Return(t, FALSE) /\ UNCHANGED <<req, kernel>>
    BY <2>0, <2>1, ReturnTyped, ZenonT(60) DEF Typed, XorgTyped, SocketTyped, AgentTyped, KernelTyped
  <2>2. CASE Goto(t, "fallback") /\ UNCHANGED <<req, records, result, kernel>>
    BY <1>0, <2>0, <2>2 DEF Goto, Typed, XorgTyped, SocketTyped, AgentTyped, KernelTyped
  <2>3. ASSUME Return(t, TRUE),
               req' = IF req[t].op = "OBJ_GETPROPERTIES"
                      THEN [req EXCEPT ![t] = Filled(prop)] ELSE req,
               KernelTyped'
        PROVE  Typed'
    <3>1. req' \in [Threads -> AnyRequest]
      BY <2>3 DEF Typed, XorgTyped, KernelTyped, AnyRequest
    <3>2. /\ records' \in Seq(AnyRecord) /\ pc' \in [Threads -> Places]
          /\ result' \in [Threads -> BOOLEAN]
      BY <2>3, ReturnTyped, Zenon
    <3> QED
      BY <2>0, <2>3, <3>1, <3>2 DEF Typed, XorgTyped, SocketTyped, AgentTyped
  <2>4. ASSUME ~(Return(t, FALSE) /\ UNCHANGED <<req, kernel>>),
               ~(Goto(t, "fallback") /\ UNCHANGED <<req, records, result, kernel>>)
        PROVE  KernelTyped'
    <3>1. req[t] \in AnyRequest
      BY DEF Typed, XorgTyped
    <3>2. req[t].op = "SETCRTC" =>
            req[t].fb \in Buffers \cup {NoFb} /\ req[t].mode \in Modes
      BY <3>1 DEF AnyRequest, Requests, SetCrtc, PageFlip, SetProperty, GetProperties,
          Loading, Ignored, Filled
    <3>3. req[t].op = "PAGE_FLIP" => req[t].fb \in Buffers
      BY <3>1, SMTT(60) DEF AnyRequest, Requests, SetCrtc, PageFlip, SetProperty, GetProperties,
          Loading, Ignored, Filled
    <3>4. req[t].op = "SETPROPERTY" => req[t].value \in Values
      BY <3>1, SMTT(60) DEF AnyRequest, Requests, SetCrtc, PageFlip, SetProperty, GetProperties,
          Loading, Ignored, Filled
    <3>5. CASE req[t].op = "SETCRTC" /\ Show(t, [fb |-> req[t].fb, mode |-> req[t].mode])
               /\ UNCHANGED property
      BY <3>2, <3>5, ShowTyped
    <3>6. CASE /\ req[t].op = "SETCRTC" /\ crtc' = [crtc EXCEPT !.fb = NoFb]
               /\ reached' = reached \cup {seq[t]} /\ UNCHANGED property
      BY <3>6 DEF Typed, XorgTyped, KernelTyped
    <3>7. CASE req[t].op = "PAGE_FLIP" /\ Show(t, [crtc EXCEPT !.fb = req[t].fb])
               /\ UNCHANGED property
      BY <3>3, <3>7, ShowTyped, SMTT(60) DEF Typed, KernelTyped
    <3>8. CASE /\ req[t].op = "SETPROPERTY" /\ prop' = req[t].value /\ written' = TRUE
               /\ UNCHANGED <<crtc, reached>>
      BY <3>4, <3>8 DEF Typed, KernelTyped
    <3>9. CASE UNCHANGED kernel
      BY <3>9 DEF Typed, KernelTyped
    <3> QED
      BY <1>5, <2>4, <3>5, <3>6, <3>7, <3>8, <3>9, Zenon DEF Syscall
  <2> QED
    BY <1>5, <2>1, <2>2, <2>3, <2>4, Zenon DEF Syscall
<1>6. CASE Fallback(t)
  <2>1. /\ records' \in Seq(AnyRecord) /\ pc' \in [Threads -> Places]
        /\ result' \in [Threads -> BOOLEAN]
    BY <1>0, <1>6, ReportTyped, Zenon DEF Fallback, Goto, Typed, XorgTyped, SocketTyped
  <2> QED
    BY <1>6, <2>1 DEF Fallback, Typed, XorgTyped, SocketTyped, AgentTyped, KernelTyped
<1>7. CASE Flip(t)
  <2>1. /\ records' \in Seq(AnyRecord) /\ pc' \in [Threads -> Places]
        /\ result' \in [Threads -> BOOLEAN]
    BY <1>0, <1>7, ReportTyped, Zenon DEF Flip, Goto, Typed, XorgTyped, SocketTyped
  <2>2. req[t].fb \in Buffers \cup {NoFb}
    BY <1>7 DEF Flip, PlacesInv, SetCrtc
  <2>3. KernelTyped'
    <3>1. CASE Show(t, [crtc EXCEPT !.fb = req[t].fb]) /\ UNCHANGED property
      BY <2>2, <3>1, ShowTyped DEF Typed, KernelTyped
    <3>2. CASE UNCHANGED kernel
      BY <3>2 DEF Typed, KernelTyped
    <3> QED
      BY <1>7, <3>1, <3>2, Zenon DEF Flip
  <2> QED
    BY <1>7, <2>1, <2>3 DEF Flip, Typed, XorgTyped, SocketTyped, AgentTyped
<1>8. CASE Verify(t)
  <2>1. /\ records' \in Seq(AnyRecord) /\ pc' \in [Threads -> Places]
        /\ result' \in [Threads -> BOOLEAN]
    BY <1>8, ReportTyped, Zenon DEF Verify
  <2>2. KernelTyped'
    BY <1>8, ShowTyped, Zenon DEF Verify, Typed, KernelTyped
  <2> QED
    BY <1>8, <2>1, <2>2 DEF Verify, Typed, XorgTyped, SocketTyped, AgentTyped
<1>9. CASE Spawn(t)
  BY <1>0, <1>9 DEF Spawn, Goto, Typed, XorgTyped, SocketTyped, AgentTyped, KernelTyped
<1> QED
  BY <1>1, <1>2, <1>3, <1>4, <1>5, <1>6, <1>7, <1>8, <1>9

\* The agent's view of the scanout after a record.
LEMMA ObserveTyped ==
  ASSUME Typed, NEW r \in AnyRecord PROVE Observe(r) \in Scan
<1>1. r.req.op = "SETCRTC" => r.req.fb \in Buffers \cup {NoFb}
  BY DEF AnyRecord, AnyRequest, Requests, SetCrtc, PageFlip, SetProperty, GetProperties,
          Loading, Ignored, Filled
<1> QED
  BY <1>1, ZenonT(60) DEF Observe, Typed, AgentTyped, Scan, AnyRecord

\* Every step keeps the types.
LEMMA TypedStep ==
  ASSUME Typed, PlacesInv, CacheInv, LoggedInv, [Next]_vars PROVE Typed'
<1> USE DEF xorg, threads, socket, agentVars, kernel, property
<1>1. CASE Die
  BY <1>1, ExitTyped DEF Die, Typed, AgentTyped, KernelTyped
<1>2. CASE Start
  <2>1. pc' \in [Threads -> Places]
    BY <1>2, Zenon DEF Start, SpawnXorg, Typed, XorgTyped, Places, Waiting
  <2>2. Record(0, "LOADED", Loading, FALSE) \in AnyRecord
    <3>1. Loading \in AnyRequest /\ 0 \in 0 .. MaxSeq
      BY TraceAssumptions DEF TraceAssumptions, AnyRequest
    <3> QED
      BY <3>1 DEF Record, AnyRecord
  <2>3. records' \in Seq(AnyRecord)
    <3>1. \A r \in AnyRecord : <<r>> \in Seq(AnyRecord)
      BY SMT
    <3> QED
      BY <1>2, <2>2, <3>1, Zenon DEF Start, SpawnXorg
  <2>4. NoScan \in Scan
    BY TraceAssumptions DEF TraceAssumptions, NoScan, Scan
  <2>5. KernelTyped'
    BY <1>2, TraceAssumptions, Zenon DEF TraceAssumptions, Start, Typed, KernelTyped
  <2> QED
    BY <1>2, <2>1, <2>3, <2>4, <2>5 DEF Start, Typed, XorgTyped, SocketTyped, AgentTyped
<1>3. CASE Relay
  <2>1. Head(records) \in AnyRecord /\ Tail(records) \in Seq(AnyRecord)
    BY <1>3 DEF Relay, Typed, SocketTyped
  <2>2. scan' \in Scan
    BY <1>3, <2>1, ObserveTyped DEF Relay
  <2>3. log' \subseteq 1 .. MaxSeq
    <3>1. Head(records).seq \in 0 .. MaxSeq
      BY <2>1 DEF AnyRecord
    <3>2. Head(records).phase = "BEFORE" => Head(records).seq # 0
      <4>1. Head(records) = records[1] /\ 1 \in 1 .. Len(records)
        BY <1>3 DEF Relay, Typed, SocketTyped
      <4> QED
        BY <4>1, Zenon DEF LoggedInv
    <3>3. Head(records).phase = "BEFORE" => Head(records).seq \in 1 .. MaxSeq
      BY <3>1, <3>2, TraceAssumptions, SMT DEF TraceAssumptions
    <3> QED
      BY <1>3, <3>3, Zenon DEF Relay, Typed, AgentTyped
  <2>4. agent' \in {"idle", "starting", "scanned", "running", "ending"}
    BY <1>3, Zenon DEF Relay, AfterRelay
  <2>5. SocketTyped'
    <3>1. [seq |-> Head(records).seq, steady |-> steady] \in Ack
      BY <2>1 DEF AnyRecord, Ack, Typed, AgentTyped
    <3> QED
      BY <1>3, <2>1, <3>1 DEF Relay, Typed, SocketTyped
  <2> QED
    BY <1>3, <2>2, <2>3, <2>4, <2>5, ZenonT(60) DEF Relay, Typed, XorgTyped, AgentTyped, KernelTyped
<1>4. CASE EndSession
  BY <1>4, ZenonT(60) DEF EndSession, Typed, XorgTyped, SocketTyped, AgentTyped, KernelTyped
<1>8. CASE Cleanup
  BY <1>8, ExitTyped, Zenon DEF Cleanup, Typed, AgentTyped, KernelTyped
<1>5. CASE VerifyScanout
  BY <1>5 DEF VerifyScanout, Typed, XorgTyped, SocketTyped, AgentTyped, KernelTyped
<1>6. CASE VerifyXorg
  BY <1>6 DEF VerifyXorg, Typed, XorgTyped, SocketTyped, AgentTyped, KernelTyped
<1>7. CASE UNCHANGED vars
  BY <1>7 DEF vars, Typed, XorgTyped, SocketTyped, AgentTyped, KernelTyped
<1> QED
  BY <1>1, <1>2, <1>3, <1>4, <1>5, <1>6, <1>7, <1>8, ThreadTyped DEF Next

-----------------------------------------------------------------------------
(* The inductive invariant. *)

\* A step that ends Xorg establishes what speaks of its threads.
LEMMA ExitInv ==
  ASSUME Exit
  PROVE  PlacesInv' /\ StoppedInv' /\ NumbersInv' /\ LoggedInv' /\ ShownInv' /\ CacheInv'
<1>1. PlacesInv'
  BY Zenon DEF Exit, Stopped, PlacesInv
<1>2. StoppedInv'
  BY Zenon DEF Exit, Stopped, StoppedInv
<1>3. records' = <<>> /\ acks' = <<>>
  BY DEF Exit
<1>4. NumbersInv'
  BY <1>3, SMT DEF Exit, Stopped, NumbersInv
<1>5. LoggedInv'
  BY <1>3, SMT DEF Exit, Stopped, LoggedInv
<1>6. ShownInv'
  BY <1>3, SMT DEF Exit, Stopped, ShownInv, ReportedWasShown
<1>7. CacheInv'
  BY Zenon DEF Exit, Stopped, CacheInv
<1> QED
  BY <1>1, <1>2, <1>4, <1>5, <1>6, <1>7

\* The threads' places keep agreeing with their requests.
LEMMA PlacesStep ==
  ASSUME Typed, PlacesInv, StoppedInv, [Next]_vars PROVE PlacesInv'
<1> USE DEF xorg, threads, socket, agentVars, kernel, property, Typed, XorgTyped, Goto
<1>1. ASSUME NEW t \in Threads, NEW r \in Requests, Call(t, r)
      PROVE  PlacesInv'
  <2>1. /\ req' = [req EXCEPT ![t] = r] /\ result' = [result EXCEPT ![t] = FALSE]
        /\ \/ pc' = [pc EXCEPT ![t] = "before"] /\ seq' = [seq EXCEPT ![t] = next]
           \/ pc' = [pc EXCEPT ![t] = "issue"] /\ seq' = [seq EXCEPT ![t] = 0]
    BY <1>1, Zenon DEF Call, Trace, Emit
  <2>2. next # 0
    BY SMTT(60)
  <2> QED
    BY <2>1, <2>2 DEF PlacesInv
<1>2. ASSUME NEW t \in Threads, HideProperty(t)
      PROVE  PlacesInv'
  BY <1>2 DEF HideProperty, Trace, Emit, PlacesInv, Ignored
<1>3. ASSUME NEW t \in Threads, Await(t)
      PROVE  PlacesInv'
  <2>1. CASE Exit
    BY <2>1, ExitInv
  <2>2. CASE Proceed(t) /\ UNCHANGED <<req, seq, result>>
    BY <2>2, ZenonT(60) DEF Proceed, Emit, PlacesInv
  <2> QED
    BY <1>3, <2>1, <2>2 DEF Await
<1>4. ASSUME NEW t \in Threads, Suppress(t)
      PROVE  PlacesInv'
  BY <1>4, ZenonT(60) DEF Suppress, Suppressible, Emit, PlacesInv
<1>5. ASSUME NEW t \in Threads, Syscall(t)
      PROVE  PlacesInv'
  <2>1. /\ pc[t] = "issue" /\ UNCHANGED seq
        /\ \A u \in Threads \ {t} : pc'[u] = pc[u] /\ req'[u] = req[u] /\ result'[u] = result[u]
        /\ \/ pc'[t] \in {"after", "idle"}
           \/ pc'[t] = "fallback" /\ req[t].op = "SETCRTC" /\ req'[t] = req[t]
    BY <1>5, Zenon DEF Syscall, Return, Emit, MayFallBack
  <2>2. req[t].op = "SETCRTC" => req[t] \in SetCrtc
    <3>1. req[t] \in AnyRequest
      OBVIOUS
    <3> QED
      BY <3>1 DEF AnyRequest, Requests, SetCrtc, PageFlip, SetProperty, GetProperties,
          Loading, Ignored, Filled
  <2> QED
    BY <2>1, <2>2 DEF PlacesInv
<1>6. ASSUME NEW t \in Threads, Fallback(t)
      PROVE  PlacesInv'
  BY <1>6, ZenonT(60) DEF Fallback, SameMode, Report, Emit, PlacesInv
<1>7. ASSUME NEW t \in Threads, Flip(t)
      PROVE  PlacesInv'
  BY <1>7, ZenonT(60) DEF Flip, Report, Emit, PlacesInv
<1>8. ASSUME NEW t \in Threads, Verify(t)
      PROVE  PlacesInv'
  BY <1>8, ZenonT(60) DEF Verify, Report, Emit, PlacesInv
<1>9. ASSUME NEW t \in Threads, Spawn(t)
      PROVE  PlacesInv'
  BY <1>9 DEF Spawn, PlacesInv
<1>10. CASE Die
  BY <1>10, ExitInv, SMTT(60) DEF Die
<1>11. CASE Start
  BY <1>11, SMTT(60) DEF Start, SpawnXorg, PlacesInv
<1>12. CASE Relay
  BY <1>12, Zenon DEF Relay, PlacesInv
<1>13. CASE Cleanup
  BY <1>13, ExitInv, Zenon DEF Cleanup
<1>14. CASE EndSession \/ VerifyScanout \/ VerifyXorg \/ UNCHANGED vars
  BY <1>14, Zenon DEF EndSession, VerifyScanout, VerifyXorg, vars, PlacesInv
<1> QED
  BY <1>1, <1>2, <1>3, <1>4, <1>5, <1>6, <1>7, <1>8, <1>9, <1>10, <1>11, <1>12, <1>13, <1>14, SMTT(60)
     DEF Next

-----------------------------------------------------------------------------
(* What the steps of a thread have in common. *)

\* The thread sends the first record of a request, with a new number.
Opens(t) ==
  /\ pc'[t] \in {"before", "noted"}
  /\ next' = next + 1 /\ seq' = [seq EXCEPT ![t] = next]
  /\ \E rec \in AnyRecord :
       /\ records' = Append(records, rec) /\ rec.seq = next
       /\ rec.phase = IF pc'[t] = "before" THEN "BEFORE" ELSE "DETAIL"

\* Or a later one.  A SETCRTC that it reports as successful was shown.
Sends(t) ==
  /\ pc'[t] \notin {"before", "issue"} /\ seq' = seq /\ next' = next
  /\ \E rec \in AnyRecord :
       /\ records' = Append(records, rec) /\ rec.seq = seq[t] /\ rec.phase # "BEFORE"
       /\ rec.phase = "AFTER" /\ rec.req.op = "SETCRTC" /\ rec.ok => seq[t] \in reached'

\* Or none.
SendsNothing(t) ==
  /\ pc'[t] \notin {"before", "detail"} /\ records' = records /\ next' = next
  /\ seq' \in {seq, [seq EXCEPT ![t] = 0]}

\* A thread goes on towards its ioctl only after an acknowledgement of its own
\* record, unless the request is not traced.
Acknowledged(t) ==
  /\ pc[t] \in {"before", "detail"} /\ acks # <<>> /\ Head(acks).seq = seq[t]
  /\ seq' = seq

ThreadEffect(t) ==
  /\ pc'[t] # "none" /\ pc' = [pc EXCEPT ![t] = pc'[t]] /\ req' = [req EXCEPT ![t] = req'[t]]
  /\ result' = [result EXCEPT ![t] = result'[t]]
  /\ Opens(t) \/ Sends(t) \/ SendsNothing(t)
  /\ \/ acks' = acks /\ quiet' = quiet
     \/ acks # <<>> /\ acks' = Tail(acks) /\ quiet' = (quiet \/ Head(acks).steady)
  /\ pc'[t] = "detail" => Acknowledged(t)
  /\ pc'[t] = "issue" =>
       Acknowledged(t) \/ (quiet /\ quiet' = quiet /\ req'[t].op # "SETCRTC")
  /\ pc[t] = "none" => pc[Main] # "none"
  /\ reached \subseteq reached'
  /\ pc'[t] = "reported" /\ result'[t] => seq[t] \in reached' /\ seq' = seq
  /\ UNCHANGED agentVars

\* A thread calls ioctl.
LEMMA CallEffect ==
  ASSUME Typed, NEW t \in Threads, NEW r \in Requests, Call(t, r)
  PROVE  ThreadEffect(t)
<1> USE DEF xorg, threads, socket, agentVars, kernel, property
<1>1. /\ pc[t] = "idle" /\ req' = [req EXCEPT ![t] = r]
      /\ result' = [result EXCEPT ![t] = FALSE]
      /\ UNCHANGED <<quiet, cache, acks, agentVars, kernel>>
  BY DEF Call
<1>2. r \in AnyRequest
  BY DEF AnyRequest
<1>3. CASE ShouldTrace(r)
  <2>1. /\ next <= MaxSeq /\ next' = next + 1 /\ seq' = [seq EXCEPT ![t] = next]
        /\ records' = Append(records, Record(next, "BEFORE", r, FALSE))
        /\ pc' = [pc EXCEPT ![t] = "before"]
    BY <1>3, Zenon DEF Call, Trace, Emit, Goto
  <2>2. Record(next, "BEFORE", r, FALSE) \in AnyRecord
    <3>1. next \in 0 .. MaxSeq
      BY <2>1, TraceAssumptions, SMT DEF TraceAssumptions, Typed, XorgTyped
    <3> QED
      BY <1>2, <3>1 DEF Record, AnyRecord
  <2>3. pc'[t] = "before"
    BY <2>1 DEF Typed, XorgTyped
  <2>4. Opens(t)
    BY <2>1, <2>2, <2>3, SMTT(60) DEF Opens, Record
  <2> QED
    BY <1>1, <2>1, <2>3, <2>4 DEF ThreadEffect, Typed, XorgTyped
<1>4. CASE ~ShouldTrace(r)
  <2>1. /\ seq' = [seq EXCEPT ![t] = 0] /\ pc' = [pc EXCEPT ![t] = "issue"]
        /\ UNCHANGED <<next, records>> /\ quiet /\ r.op # "SETCRTC"
    BY <1>4 DEF Call, Goto, ShouldTrace
  <2>2. SendsNothing(t)
    BY <2>1 DEF SendsNothing, Typed, XorgTyped
  <2> QED
    BY <1>1, <2>1, <2>2 DEF ThreadEffect, Typed, XorgTyped
<1> QED
  BY <1>3, <1>4

\* It goes on after an acknowledgement.
LEMMA AwaitEffect ==
  ASSUME Typed, PlacesInv, ShownInv, NEW t \in Threads, Await(t)
  PROVE  Exit \/ ThreadEffect(t)
<1> USE DEF xorg, threads, socket, agentVars, kernel, property
<1>1. CASE ~ValidAck(t, Head(acks))
  BY <1>1, SMTT(60) DEF Await
<1>2. CASE ValidAck(t, Head(acks))
  <2>1. /\ pc[t] \in Waiting /\ acks # <<>> /\ quiet' = (quiet \/ Head(acks).steady)
        /\ acks' = Tail(acks) /\ Proceed(t) /\ Head(acks).seq = seq[t]
        /\ UNCHANGED <<req, seq, result, next, agentVars, kernel>>
    BY <1>2, Zenon DEF Await, ValidAck
  <2>2. \A phase \in {"DETAIL", "AFTER"}, ok \in BOOLEAN :
          Record(seq[t], phase, req[t], ok) \in AnyRecord
    BY DEF Typed, XorgTyped, Record, AnyRecord
  <2>3. result[t] \in BOOLEAN /\ pc \in [Threads -> Places]
    BY DEF Typed, XorgTyped
  <2>4. ASSUME NEW place, pc' = [pc EXCEPT ![t] = place]
        PROVE  pc'[t] = place /\ pc' = [pc EXCEPT ![t] = pc'[t]]
    BY <2>3, <2>4
  <2>5. ASSUME NEW place \in {"detail", "noted", "after"}, NEW phase \in {"DETAIL", "AFTER"},
               NEW ok \in BOOLEAN,
               Emit(t, Record(seq[t], phase, req[t], ok), place),
               phase = "AFTER" /\ req[t].op = "SETCRTC" /\ ok => seq[t] \in reached
        PROVE  Sends(t) /\ pc'[t] = place /\ pc' = [pc EXCEPT ![t] = pc'[t]]
    BY <2>1, <2>2, <2>4, <2>5, ZenonT(60) DEF Emit, Goto, Sends, Record
  <2>6. ASSUME NEW place \in {"idle", "issue"}, Goto(t, place), records' = records
        PROVE  SendsNothing(t) /\ pc'[t] = place /\ pc' = [pc EXCEPT ![t] = pc'[t]]
    BY <2>1, <2>4, <2>6, ZenonT(60) DEF Goto, SendsNothing
  <2>7. /\ Sends(t) \/ SendsNothing(t)
        /\ pc' = [pc EXCEPT ![t] = pc'[t]] /\ pc'[t] \in {"detail", "noted", "after", "idle", "issue"}
        /\ pc'[t] \in {"detail", "issue"} => pc[t] \in {"before", "detail"}
    <3>1. CASE pc[t] = "before" /\ req[t].op = "SETCRTC" /\ req[t].fb # NoFb
      BY <2>1, <2>5, <3>1, Zenon DEF Proceed, HasConnector
    <3>2. CASE pc[t] = "before" /\ ~(req[t].op = "SETCRTC" /\ req[t].fb # NoFb)
      BY <2>1, <2>6, <3>2, ZenonT(60) DEF Proceed, HasConnector
    <3>3. CASE pc[t] = "detail"
      BY <2>1, <2>6, <3>3, ZenonT(60) DEF Proceed
    <3>4. CASE pc[t] \in {"suppressed", "reported"}
      <4>1. req[t].op = "SETCRTC" /\ result[t] => seq[t] \in reached
        BY <3>4, ZenonT(60) DEF PlacesInv, ShownInv
      <4> QED
        BY <2>1, <2>3, <2>5, <3>4, <4>1, ZenonT(60) DEF Proceed
    <3>5. CASE pc[t] = "after" /\ req[t].op = "OBJ_GETPROPERTIES" /\ result[t]
      BY <2>1, <2>5, <3>5, Zenon DEF Proceed
    <3>6. CASE pc[t] = "after" /\ ~(req[t].op = "OBJ_GETPROPERTIES" /\ result[t])
      BY <2>1, <2>6, <3>6, Zenon DEF Proceed
    <3>7. CASE pc[t] \in {"noted", "loaded"}
      BY <2>1, <2>6, <3>7, Zenon DEF Proceed
    <3> QED
      BY <2>1, <3>1, <3>2, <3>3, <3>4, <3>5, <3>6, <3>7, ZenonT(60) DEF Waiting
  <2>8. req' = [req EXCEPT ![t] = req'[t]] /\ result' = [result EXCEPT ![t] = result'[t]]
    BY <2>1 DEF Typed, XorgTyped
  <2>9. pc[t] # "none"
    BY <2>1 DEF Waiting
  <2> QED
    BY <2>1, <2>7, <2>8, <2>9 DEF ThreadEffect, Acknowledged
<1> QED
  BY <1>1, <1>2

\* It issues the ioctl, or suppresses it.
LEMMA IssueEffect ==
  ASSUME Typed, PlacesInv, NEW t \in Threads, Suppress(t) \/ Syscall(t)
  PROVE  ThreadEffect(t)
<1> USE DEF xorg, threads, socket, agentVars, kernel, property
<1>1. /\ pc[t] = "issue" /\ pc \in [Threads -> Places] /\ req \in [Threads -> AnyRequest]
      /\ result \in [Threads -> BOOLEAN]
      /\ UNCHANGED <<seq, next, quiet, acks, agentVars>>
  BY Zenon DEF Suppress, Syscall, Typed, XorgTyped
<1>2. \A phase \in {"DETAIL", "AFTER"}, ok \in BOOLEAN :
        Record(seq[t], phase, req[t], ok) \in AnyRecord
  BY DEF Typed, XorgTyped, Record, AnyRecord
<1>3. CASE Suppress(t)
  <2>1. /\ UNCHANGED <<req, reached>> /\ result' = [result EXCEPT ![t] = TRUE]
        /\ \/ /\ records' = Append(records, Record(seq[t], "DETAIL", req[t], FALSE))
              /\ pc' = [pc EXCEPT ![t] = "suppressed"]
           \/ pc' = [pc EXCEPT ![t] = "idle"] /\ UNCHANGED records
    BY <1>3, Zenon DEF Suppress, Emit, Goto
  <2>2. Sends(t) \/ SendsNothing(t)
    BY <1>1, <1>2, <2>1, Zenon DEF Sends, SendsNothing, Record
  <2> QED
    BY <1>1, <2>1, <2>2, Zenon DEF ThreadEffect
<1>4. CASE Syscall(t)
  <2>1. req' = [req EXCEPT ![t] = req'[t]] /\ reached \subseteq reached'
    BY <1>1, <1>4, ZenonT(60) DEF Syscall, Show
  <2>2. ASSUME NEW ok \in BOOLEAN, Return(t, ok),
               req[t].op = "SETCRTC" /\ ok => seq[t] \in reached'
        PROVE  ThreadEffect(t)
    <3>1. /\ result' = [result EXCEPT ![t] = ok]
          /\ \/ /\ records' = Append(records, Record(seq[t], "AFTER", req[t], ok))
                /\ pc' = [pc EXCEPT ![t] = "after"]
             \/ pc' = [pc EXCEPT ![t] = "idle"] /\ UNCHANGED records
      BY <2>2, ZenonT(60) DEF Return, Emit, Goto
    <3>2. Sends(t) \/ SendsNothing(t)
      BY <1>1, <1>2, <2>2, <3>1 DEF Sends, SendsNothing, Record
    <3> QED
      BY <1>1, <2>1, <3>1, <3>2, ZenonT(60) DEF ThreadEffect
  <2>3. CASE Goto(t, "fallback") /\ UNCHANGED <<records, result>>
    <3>1. SendsNothing(t)
      BY <1>1, <2>3 DEF SendsNothing, Goto
    <3> QED
      BY <1>1, <2>1, <2>3, <3>1, Zenon DEF ThreadEffect, Goto
  <2>4. CASE Return(t, FALSE)
    BY <2>2, <2>4, Zenon
  <2>5. CASE Return(t, TRUE) /\ (req[t].op = "SETCRTC" => seq[t] \in reached')
    BY <2>2, <2>5, Zenon
  <2> QED
    BY <1>4, <2>3, <2>4, <2>5, Zenon DEF Syscall, Show
<1> QED
  BY <1>3, <1>4

\* It is in the same-mode fallback.
LEMMA FallbackEffect ==
  ASSUME Typed, PlacesInv, NEW t \in Threads, Fallback(t) \/ Flip(t) \/ Verify(t)
  PROVE  ThreadEffect(t)
<1> USE DEF xorg, threads, socket, agentVars, kernel, property
<1>1. /\ pc[t] \in {"fallback", "flip", "verify"} /\ pc \in [Threads -> Places]
      /\ req \in [Threads -> AnyRequest] /\ result \in [Threads -> BOOLEAN]
      /\ UNCHANGED <<req, seq, next, quiet, acks, agentVars>> /\ reached \subseteq reached'
  BY Zenon DEF Fallback, Flip, Verify, Show, Typed, XorgTyped
<1>2. ASSUME NEW ok \in BOOLEAN, Report(t, ok), ok => seq[t] \in reached'
      PROVE  ThreadEffect(t)
  <2>1. Record(seq[t], "NOTE", req[t], ok) \in AnyRecord
    BY DEF Typed, XorgTyped, Record, AnyRecord
  <2>2. /\ result' = [result EXCEPT ![t] = ok] /\ pc' = [pc EXCEPT ![t] = "reported"]
        /\ records' = Append(records, Record(seq[t], "NOTE", req[t], ok))
    BY <1>2, SMTT(60) DEF Report, Emit, Goto
  <2>3. Sends(t)
    BY <1>1, <2>1, <2>2, SMTT(60) DEF Sends, Record
  <2> QED
    BY <1>1, <1>2, <2>2, <2>3, SMTT(60) DEF ThreadEffect
<1>3. ASSUME NEW place \in {"flip", "verify"}, Goto(t, place), UNCHANGED <<records, result>>
      PROVE  ThreadEffect(t)
  <2>1. SendsNothing(t)
    BY <1>1, <1>3 DEF SendsNothing, Goto
  <2> QED
    BY <1>1, <1>3, <2>1 DEF ThreadEffect, Goto
<1>4. CASE Fallback(t)
  BY <1>2, <1>3, <1>4, Zenon DEF Fallback
<1>5. CASE Flip(t)
  BY <1>2, <1>3, <1>5, Zenon DEF Flip
<1>6. CASE Verify(t)
  <2>1. req[t].op = "SETCRTC" /\ req[t].leased
    BY <1>6, ZenonT(60) DEF Verify, PlacesInv, SetCrtc
  <2> QED
    BY <1>2, <1>6, <2>1, ZenonT(60) DEF Verify, Show
<1> QED
  BY <1>4, <1>5, <1>6

\* A step of a thread ends the process or has one of these effects.
LEMMA ThreadShape ==
  ASSUME Typed, PlacesInv, ShownInv, NEW t \in Threads,
         \/ Await(t) \/ Suppress(t) \/ Syscall(t) \/ Fallback(t) \/ Flip(t) \/ Verify(t)
         \/ Spawn(t) \/ HideProperty(t) \/ \E r \in Requests : Call(t, r)
  PROVE  Exit \/ ThreadEffect(t)
<1> USE DEF xorg, threads, socket, agentVars, kernel, property
<1>1. CASE Spawn(t)
  <2>1. /\ pc' = [pc EXCEPT ![t] = "idle"] /\ pc[Main] # "none" /\ pc \in [Threads -> Places]
        /\ UNCHANGED <<req, seq, result, next, quiet, records, acks, agentVars, reached>>
        /\ req \in [Threads -> AnyRequest] /\ result \in [Threads -> BOOLEAN]
    BY <1>1 DEF Spawn, Goto, Typed, XorgTyped
  <2>2. SendsNothing(t)
    BY <2>1, SMTT(60) DEF SendsNothing
  <2> QED
    BY <2>1, <2>2, SMTT(60) DEF ThreadEffect
<1>2. CASE HideProperty(t)
  <2>1. /\ next <= MaxSeq /\ next' = next + 1 /\ seq' = [seq EXCEPT ![t] = next]
        /\ records' = Append(records, Record(next, "DETAIL", Ignored, FALSE))
        /\ pc[t] = "idle" /\ pc' = [pc EXCEPT ![t] = "noted"]
        /\ req' = [req EXCEPT ![t] = Ignored] /\ result' = [result EXCEPT ![t] = FALSE]
        /\ UNCHANGED <<quiet, acks, agentVars, reached>>
    BY <1>2 DEF HideProperty, Trace, Emit, Goto
  <2>2. Record(next, "DETAIL", Ignored, FALSE) \in AnyRecord
    <3>1. next \in 0 .. MaxSeq
      BY <2>1, TraceAssumptions, SMT DEF TraceAssumptions, Typed, XorgTyped
    <3>2. Ignored \in AnyRequest
      BY SMTT(60) DEF AnyRequest
    <3> QED
      BY <3>1, <3>2, SMTT(60) DEF Record, AnyRecord
  <2>3. pc'[t] = "noted"
    BY <2>1, SMTT(60) DEF Typed, XorgTyped
  <2>4. Opens(t)
    BY <2>1, <2>2, <2>3 DEF Opens, Record
  <2> QED
    BY <2>1, <2>3, <2>4, SMTT(60) DEF ThreadEffect, Typed, XorgTyped
<1> QED
  BY <1>1, <1>2, CallEffect, AwaitEffect, IssueEffect, FallbackEffect, SMTT(60)

\* The elements of the two queues after a step of a thread.
LEMMA QueueElements ==
  ASSUME Typed, NEW t \in Threads, ThreadEffect(t)
  PROVE  /\ \A i \in 1 .. Len(acks') : \E j \in 1 .. Len(acks) : acks'[i] = acks[j]
         /\ \A i \in 1 .. Len(records') :
              \/ \E j \in 1 .. Len(records) : records'[i] = records[j]
              \/ /\ records'[i].seq = seq'[t]
                 /\ Opens(t) \/ Sends(t)
                 /\ Opens(t) => records'[i].phase = IF pc'[t] = "before" THEN "BEFORE" ELSE "DETAIL"
                 /\ Sends(t) =>
                      /\ records'[i].phase # "BEFORE"
                      /\ records'[i].phase = "AFTER" /\ records'[i].req.op = "SETCRTC"
                           /\ records'[i].ok => seq[t] \in reached'
<1>1. \A i \in 1 .. Len(acks') : \E j \in 1 .. Len(acks) : acks'[i] = acks[j]
  <2>1. CASE acks' = acks
    BY <2>1
  <2>2. CASE acks # <<>> /\ acks' = Tail(acks)
    <3>1. \A i \in 1 .. Len(acks') : i + 1 \in 1 .. Len(acks) /\ acks'[i] = acks[i + 1]
      BY <2>2 DEF Typed, SocketTyped
    <3> QED
      BY <3>1
  <2> QED
    BY <2>1, <2>2, ZenonT(60) DEF ThreadEffect
<1>2. ~(Opens(t) /\ Sends(t))
  <2>1. next \in Nat
    BY TraceAssumptions DEF TraceAssumptions, Typed, XorgTyped
  <2> QED
    BY <2>1 DEF Opens, Sends
<1>3. ASSUME NEW i \in 1 .. Len(records'), NEW rec \in AnyRecord, records' = Append(records, rec)
      PROVE  records'[i] = rec \/ \E j \in 1 .. Len(records) : records'[i] = records[j]
  BY <1>3, SMTT(60) DEF Typed, SocketTyped
<1>4. CASE Opens(t)
  <2>1. PICK rec \in AnyRecord :
          /\ records' = Append(records, rec) /\ rec.seq = next
          /\ rec.phase = IF pc'[t] = "before" THEN "BEFORE" ELSE "DETAIL"
    BY <1>4 DEF Opens
  <2>2. seq'[t] = next
    BY <1>4 DEF Opens, Typed, XorgTyped
  <2> QED
    BY <1>1, <1>2, <1>3, <1>4, <2>1, <2>2, ZenonT(60)
<1>5. CASE Sends(t)
  <2>1. PICK rec \in AnyRecord :
          /\ records' = Append(records, rec) /\ rec.seq = seq[t] /\ rec.phase # "BEFORE"
          /\ rec.phase = "AFTER" /\ rec.req.op = "SETCRTC" /\ rec.ok => seq[t] \in reached'
    BY <1>5, ZenonT(60) DEF Sends
  <2>2. seq'[t] = seq[t]
    BY <1>5, SMTT(60) DEF Sends
  <2> QED
    BY <1>1, <1>2, <1>3, <1>5, <2>1, <2>2, ZenonT(60)
<1>6. CASE SendsNothing(t)
  BY <1>1, <1>6, ZenonT(60) DEF SendsNothing
<1> QED
  BY <1>4, <1>5, <1>6, ZenonT(60) DEF ThreadEffect

\* What holds of the process, the numbers, the log and the reports survives the
\* step of a thread.
LEMMA ThreadKeeps ==
  ASSUME Typed, PlacesInv, StoppedInv, SteadyInv, NumbersInv, LoggedInv, ShownInv,
         NEW t \in Threads, ThreadEffect(t)
  PROVE  StoppedInv' /\ SteadyInv' /\ NumbersInv' /\ LoggedInv' /\ ShownInv'
<1> DEFINE NewSeq == \/ seq' = seq \/ seq' = [seq EXCEPT ![t] = 0]
                     \/ seq' = [seq EXCEPT ![t] = next] /\ next' = next + 1
<1>a. Opens(t) \/ Sends(t) \/ SendsNothing(t)
  BY ZenonT(60) DEF ThreadEffect
<1>b. NewSeq
  <2>1. CASE Opens(t)
    BY <2>1, SMTT(60) DEF Opens
  <2>2. CASE Sends(t)
    BY <2>2, ZenonT(60) DEF Sends
  <2>3. CASE SendsNothing(t)
    BY <2>3 DEF SendsNothing
  <2> QED
    BY <1>a, <2>1, <2>2, <2>3
<1>c. \A u \in Threads \ {t} :
        pc'[u] = pc[u] /\ req'[u] = req[u] /\ result'[u] = result[u] /\ seq'[u] = seq[u]
  BY <1>b, ZenonT(60) DEF ThreadEffect, Typed, XorgTyped
<1>1. StoppedInv'
  <2>1. Main \in Threads
    BY TraceAssumptions DEF TraceAssumptions
  <2>2. pc[Main] # "none"
    BY <2>1, ZenonT(60) DEF StoppedInv, ThreadEffect
  <2>3. pc'[Main] # "none"
    BY <2>1, <2>2, ZenonT(60) DEF ThreadEffect, Typed, XorgTyped
  <2> QED
    BY <2>3, ZenonT(60) DEF StoppedInv
<1>2. SteadyInv'
  <2>1. acks # <<>> => Head(acks) = acks[1] /\ 1 \in 1 .. Len(acks)
    BY DEF Typed, SocketTyped
  <2>2. ~steady => ~quiet'
    BY <2>1, ZenonT(60) DEF SteadyInv, ThreadEffect
  <2> QED
    BY <2>2, QueueElements, Zenon DEF ThreadEffect, agentVars, SteadyInv
<1>3. NumbersInv'
  <2>1. next \in Nat /\ next' \in Nat /\ next <= next' /\ seq \in [Threads -> 0 .. MaxSeq]
    <3>1. next' = next \/ next' = next + 1
      BY <1>a, ZenonT(60) DEF Opens, Sends, SendsNothing
    <3>2. next \in 1 .. MaxSeq + 1 /\ seq \in [Threads -> 0 .. MaxSeq]
      BY ZenonT(60) DEF Typed, XorgTyped
    <3> QED
      BY <3>1, <3>2, TraceAssumptions DEF TraceAssumptions
  <2>3. \A u \in Threads : seq'[u] < next'
    <3>1. \A u \in Threads : seq[u] < next
      BY ZenonT(60) DEF NumbersInv
    <3>2. \A u \in Threads : seq[u] \in Nat
      BY <2>1, SMTT(60)
    <3> QED
      BY <2>1, <1>b, <3>1, <3>2, SMT
  <2>4. \A u, v \in Threads : u # v /\ seq'[u] = seq'[v] => seq'[u] = 0
    BY <2>1, <1>b, TraceAssumptions DEF TraceAssumptions, NumbersInv
  <2>5. \A i \in 1 .. Len(acks') : acks'[i].seq < next'
    <3>1. \A i \in 1 .. Len(acks) : acks[i].seq \in Nat /\ acks[i].seq < next'
      <4>1. \A i \in 1 .. Len(acks) : acks[i] \in Ack
        BY DEF Typed, SocketTyped
      <4>2. \A a \in Ack : a.seq \in Nat
        BY TraceAssumptions, SMT DEF TraceAssumptions, Ack
      <4> QED
        BY <2>1, <4>1, <4>2, SMT DEF NumbersInv
    <3> QED
      BY <3>1, QueueElements, Zenon
  <2>6. \A i \in 1 .. Len(records') : records'[i].seq < next'
    <3>1. \A i \in 1 .. Len(records) : records[i].seq \in Nat /\ records[i].seq < next'
      <4>1. \A i \in 1 .. Len(records) : records[i] \in AnyRecord
        BY DEF Typed, SocketTyped
      <4>2. \A r \in AnyRecord : r.seq \in Nat
        BY TraceAssumptions, SMT DEF TraceAssumptions, AnyRecord
      <4> QED
        BY <2>1, <4>1, <4>2, SMT DEF NumbersInv
    <3> QED
      BY <2>3, <3>1, QueueElements, ZenonT(60)
  <2> QED
    BY <2>3, <2>4, <2>5, <2>6, ZenonT(60) DEF NumbersInv
<1>4. ShownInv'
  <2>1. \A i \in 1 .. Len(records) : i \in DOMAIN records
    BY DEF Typed, SocketTyped
  <2>2. records' \in Seq(AnyRecord)
    <3>1. CASE Opens(t)
      BY <3>1, SMTT(60) DEF Opens, Typed, SocketTyped
    <3>2. CASE Sends(t)
      BY <3>2 DEF Sends, Typed, SocketTyped
    <3>3. CASE SendsNothing(t)
      BY <3>3, SMTT(60) DEF SendsNothing, Typed, SocketTyped
    <3> QED
      BY <1>a, <3>1, <3>2, <3>3
  <2>3. ReportedWasShown'
    <3> SUFFICES ASSUME NEW i \in 1 .. Len(records'),
                        records'[i].phase = "AFTER" /\ records'[i].req.op = "SETCRTC" /\ records'[i].ok
                 PROVE  records'[i].seq \in reached'
      BY <2>2, SMTT(60) DEF ReportedWasShown
    <3>1. CASE \E j \in 1 .. Len(records) : records'[i] = records[j]
      BY <2>1, <3>1, ZenonT(60) DEF ShownInv, ReportedWasShown, ThreadEffect
    <3>2. CASE records'[i].seq = seq'[t] /\ Sends(t) /\ seq[t] \in reached'
      BY <3>2, ZenonT(60) DEF Sends
    <3>3. \/ \E j \in 1 .. Len(records) : records'[i] = records[j]
          \/ records'[i].seq = seq'[t] /\ Sends(t) /\ seq[t] \in reached'
          \/ records'[i].phase = IF pc'[t] = "before" THEN "BEFORE" ELSE "DETAIL"
      BY QueueElements, Zenon
    <3> QED
      BY <3>1, <3>2, <3>3, ZenonT(60)
  <2>4. \A u \in Threads : pc'[u] = "reported" /\ result'[u] => seq'[u] \in reached'
    BY <1>c, ZenonT(60) DEF ShownInv, ThreadEffect
  <2> QED
    BY <2>3, <2>4 DEF ShownInv
<1>5. LoggedInv'
  <2> DEFINE OldRecord(i) == \E j \in 1 .. Len(records) : records'[i] = records[j]
  <2>1. \A i \in 1 .. Len(records') :
          \/ OldRecord(i)
          \/ /\ records'[i].seq = seq'[t]
             /\ records'[i].phase = "BEFORE" => pc'[t] = "before"
             /\ pc'[t] = "before" => records'[i].phase = "BEFORE"
    <3>1. Sends(t) => pc'[t] # "before"
      BY ZenonT(60) DEF Sends
    <3> SUFFICES ASSUME NEW i \in 1 .. Len(records'), ~OldRecord(i)
                 PROVE  /\ records'[i].seq = seq'[t]
                        /\ records'[i].phase = "BEFORE" <=> pc'[t] = "before"
      OBVIOUS
    <3>2. records'[i].seq = seq'[t] /\ (Opens(t) \/ Sends(t))
      BY QueueElements, ZenonT(60)
    <3>3. CASE Opens(t)
      BY <3>2, <3>3, QueueElements, ZenonT(60)
    <3>4. CASE Sends(t)
      <4>1. records'[i].phase # "BEFORE"
        BY <3>4, QueueElements, Zenon
      <4> QED
        BY <3>1, <3>2, <3>4, <4>1
    <3> QED
      BY <3>2, <3>3, <3>4, ZenonT(60)
  <2>2. pc'[t] = "before" => seq'[t] = next
    <3>1. pc'[t] = "before" => Opens(t)
      BY <1>a, SMTT(60) DEF Sends, SendsNothing
    <3> QED
      BY <3>1, SMTT(60) DEF Opens, Typed, XorgTyped
  <2>3. log' = log
    BY ZenonT(60) DEF ThreadEffect, agentVars
  <2>4. \A i \in 1 .. Len(records') : records'[i].phase = "BEFORE" => records'[i].seq # 0
    <3>1. next # 0
      BY SMTT(60) DEF Typed, XorgTyped
    <3> QED
      BY <2>1, <2>2, <3>1, Zenon DEF LoggedInv
  <2>5. ASSUME NEW u \in Threads \ {t}, pc'[u] = "before"
        PROVE  /\ \A i \in 1 .. Len(records') :
                    records'[i].seq = seq'[u] => records'[i].phase = "BEFORE"
               /\ \A i \in 1 .. Len(acks') : acks'[i].seq = seq'[u] => seq'[u] \in log'
    <3>1. pc[u] = "before" /\ seq'[u] = seq[u] /\ seq[u] # 0
      BY <1>c, <2>5, ZenonT(60) DEF PlacesInv
    <3>2. seq'[t] # seq'[u]
      BY <1>3, <3>1, ZenonT(60) DEF NumbersInv
    <3>3. \A i \in 1 .. Len(records') :
            records'[i].seq = seq'[u] => records'[i].phase = "BEFORE"
      BY <2>1, <3>1, <3>2, ZenonT(60) DEF LoggedInv
    <3>4. \A i \in 1 .. Len(acks) : acks[i].seq = seq[u] => seq[u] \in log
      BY <3>1, Zenon DEF LoggedInv
    <3>5. \A i \in 1 .. Len(acks') : acks'[i].seq = seq[u] => seq[u] \in log
      BY <3>4, QueueElements, ZenonT(60)
    <3> QED
      BY <2>3, <3>1, <3>3, <3>5, ZenonT(60)
  <2>6. ASSUME pc'[t] = "before"
        PROVE  /\ \A i \in 1 .. Len(records') :
                    records'[i].seq = seq'[t] => records'[i].phase = "BEFORE"
               /\ \A i \in 1 .. Len(acks') : acks'[i].seq = seq'[t] => seq'[t] \in log'
    <3>1. ~(next < next)
      BY TraceAssumptions DEF TraceAssumptions, Typed, XorgTyped
    <3>2. \A j \in 1 .. Len(records) : records[j].seq # next
      BY <3>1, ZenonT(60) DEF NumbersInv
    <3>3. \A j \in 1 .. Len(acks) : acks[j].seq # next
      BY <3>1 DEF NumbersInv
    <3>4. \A i \in 1 .. Len(records') : records'[i].seq = next => records'[i].phase = "BEFORE"
      BY <2>1, <2>6, <3>2, SMTT(60)
    <3>5. \A i \in 1 .. Len(acks') : acks'[i].seq # next
      BY <3>3, QueueElements, SMTT(60)
    <3> QED
      BY <2>2, <2>6, <3>4, <3>5, ZenonT(60)
  <2>7. Acknowledged(t) => seq'[t] \in log
    <3>1. acks # <<>> => Head(acks) = acks[1] /\ 1 \in 1 .. Len(acks)
      BY DEF Typed, SocketTyped
    <3> QED
      BY <3>1 DEF Acknowledged, LoggedInv
  <2>8. quiet => quiet'
    BY ZenonT(60) DEF ThreadEffect
  <2>9. ASSUME NEW u \in Threads
        PROVE  /\ pc'[u] = "detail" => seq'[u] \in log'
               /\ pc'[u] = "issue" => seq'[u] \in log' \/ (quiet' /\ req'[u].op # "SETCRTC")
    <3>1. CASE u = t
      BY <2>3, <2>7, <2>8, <3>1, Zenon DEF ThreadEffect
    <3>2. CASE u # t
      <4>1. pc'[u] = pc[u] /\ req'[u] = req[u] /\ seq'[u] = seq[u]
        BY <1>c, <3>2
      <4> QED
        BY <2>3, <2>8, <4>1, ZenonT(60) DEF LoggedInv
    <3> QED
      BY <3>1, <3>2, ZenonT(60)
  <2> QED
    BY <2>4, <2>5, <2>6, <2>9, Zenon DEF LoggedInv
<1> QED
  BY <1>1, <1>2, <1>3, <1>4, <1>5, SMTT(60)

\* So does what the cache holds: it is filled from the kernel, and a property is
\* written in the kernel only by a SETPROPERTY.
LEMMA CacheStep ==
  ASSUME Typed, PlacesInv, CacheInv, NEW t \in Threads,
         \/ Await(t) \/ Suppress(t) \/ Syscall(t) \/ Fallback(t) \/ Flip(t) \/ Verify(t)
         \/ Spawn(t) \/ HideProperty(t) \/ \E r \in Requests : Call(t, r)
  PROVE  CacheInv'
<1> USE DEF xorg, threads, socket, agentVars, kernel, property
<1> DEFINE Returned(u) == pc[u] = "after" /\ req[u].op = "OBJ_GETPROPERTIES" /\ result[u]
           FromKernel(u) == req[u] \in {Filled(v) : v \in Values} /\ (req[u].value = prop \/ written)
<1>1. pc \in [Threads -> Places] /\ req \in [Threads -> AnyRequest] /\ result \in [Threads -> BOOLEAN]
      /\ prop \in Values
  BY DEF Typed, XorgTyped, KernelTyped
<1>2. ASSUME NEW place \in Places \ {"after"}, NEW r, NEW ok, pc' = [pc EXCEPT ![t] = place],
             req' = [req EXCEPT ![t] = r] \/ req' = req,
             result' = [result EXCEPT ![t] = ok] \/ result' = result,
             UNCHANGED <<cache, prop, written>>
      PROVE  CacheInv'
  BY <1>1, <1>2, ZenonT(60) DEF CacheInv
<1>3. CASE \E r \in Requests : Call(t, r)
  BY <1>2, <1>3, Zenon DEF Call, Trace, Emit, Goto, Places, Waiting
<1>4. CASE HideProperty(t) \/ Spawn(t) \/ Suppress(t)
  BY <1>2, <1>4, Zenon DEF HideProperty, Spawn, Suppress, Trace, Emit, Goto, Places, Waiting
<1>5. CASE Fallback(t) \/ Flip(t) \/ Verify(t)
  BY <1>2, <1>5, Zenon DEF Fallback, Flip, Verify, Report, Show, Emit, Goto, Places, Waiting
<1>6. CASE Syscall(t)
  <2>1. ASSUME NEW ok \in BOOLEAN, Return(t, ok), cache' = cache,
               \/ req' = req /\ ~(req[t].op = "OBJ_GETPROPERTIES" /\ ok)
               \/ req' = [req EXCEPT ![t] = Filled(prop)],
               UNCHANGED <<prop, written>> \/ written'
        PROVE  CacheInv'
    <3>1. /\ pc' \in {[pc EXCEPT ![t] = "after"], [pc EXCEPT ![t] = "idle"]}
          /\ result' = [result EXCEPT ![t] = ok]
      BY <2>1, SMTT(60) DEF Return, Emit, Goto
    <3>2. cache' \in {Unknown, prop'} \/ written'
      <4>1. cache \in {Unknown, prop} \/ written
        BY Zenon DEF CacheInv
      <4>2. CASE written'
        BY <4>2, ZenonT(60)
      <4> QED
        BY <2>1, <4>1, <4>2
    <3>3. Filled(prop).value = prop /\ Filled(prop) \in {Filled(v) : v \in Values}
      BY <1>1, ZenonT(60) DEF Filled
    <3>4. ASSUME NEW u \in Threads, Returned(u)' PROVE FromKernel(u)'
      <4>1. CASE u = t
        BY SMTT(60), <1>1, <2>1, <3>1, <3>3, <3>4, <4>1
      <4>2. CASE u # t
        <5>1. pc'[u] = pc[u]
          BY <1>1, <3>1, <4>2, ZenonT(60)
        <5>2. req'[u] = req[u] /\ result'[u] = result[u]
          BY <1>1, <2>1, <3>1, <4>2, ZenonT(60)
        <5>3. FromKernel(u)
          BY <3>4, <5>1, <5>2, ZenonT(60) DEF CacheInv
        <5> QED
          BY <2>1, <5>2, <5>3, ZenonT(60)
      <4> QED
        BY <4>1, <4>2, Zenon
    <3> QED
      BY <3>2, <3>4, ZenonT(60) DEF CacheInv
  <2>2. CASE Goto(t, "fallback") /\ UNCHANGED <<req, result, kernel>> /\ cache' = cache
    BY <1>2, <2>2, Zenon DEF Goto, Places
  <2>3. CASE Return(t, FALSE) /\ UNCHANGED <<req, kernel>> /\ cache' = cache
    BY <2>1, <2>3, Zenon
  <2>4. CASE /\ Return(t, TRUE) /\ cache' = cache
             /\ req' = IF req[t].op = "OBJ_GETPROPERTIES" THEN [req EXCEPT ![t] = Filled(prop)] ELSE req
             /\ UNCHANGED <<prop, written>> \/ written'
    BY <2>1, <2>4, ZenonT(60)
  <2> QED
    BY <1>6, <2>2, <2>3, <2>4, Zenon DEF Syscall
<1>7. CASE Await(t)
  <2>1. CASE Exit
    BY <2>1, ExitInv
  <2>2. CASE Proceed(t) /\ UNCHANGED <<req, result, kernel>>
    <3>1. CASE cache' = cache /\ \E place \in Places \ {"after"} : pc' = [pc EXCEPT ![t] = place]
      BY <1>2, <2>2, <3>1, Zenon
    <3>2. CASE pc[t] \in {"suppressed", "reported"} /\ cache' = cache
                 /\ pc' = [pc EXCEPT ![t] = "after"]
      <4>1. req[t].op # "OBJ_GETPROPERTIES"
        BY <3>2, Zenon DEF PlacesInv, SetCrtc
      <4> QED
        BY <1>1, <2>2, <3>2, <4>1, Zenon DEF CacheInv
    <3>3. CASE /\ pc[t] = "after" /\ req[t].op = "OBJ_GETPROPERTIES" /\ result[t]
               /\ cache' = req[t].value /\ pc' = [pc EXCEPT ![t] = "noted"]
      BY <1>1, <2>2, <3>3, Zenon DEF CacheInv
    <3> QED
      BY <2>2, <3>1, <3>2, <3>3, Zenon DEF Proceed, Emit, Goto, Places, Waiting
  <2> QED
    BY <1>7, <2>1, <2>2 DEF Await
<1> QED
  BY <1>3, <1>4, <1>5, <1>6, <1>7, SMTT(60)

-----------------------------------------------------------------------------
(* The steps of the agent, and the whole invariant. *)

\* The broker's log, then the acknowledgement: what Relay does to the socket.
LEMMA RelayKeeps ==
  ASSUME Typed, StoppedInv, SteadyInv, NumbersInv, LoggedInv, ShownInv,
         Relay
  PROVE  StoppedInv' /\ SteadyInv' /\ NumbersInv' /\ LoggedInv' /\ ShownInv'
<1> USE DEF xorg, threads, socket, agentVars, kernel, property
<1>1. /\ records # <<>> /\ reached' = reached /\ log \subseteq log'
      /\ Head(records).phase = "BEFORE" => Head(records).seq \in log'
      /\ records' = Tail(records)
      /\ acks' = Append(acks, [seq |-> Head(records).seq, steady |-> steady])
      /\ steady' = steady /\ (agent' = agent \/ agent' = "ending")
      /\ pc' = pc /\ req' = req /\ seq' = seq /\ result' = result /\ next' = next
      /\ quiet' = quiet /\ cache' = cache
  BY ZenonT(60) DEF Relay, AfterRelay
<1>2. /\ \A i \in 1 .. Len(records') : i + 1 \in 1 .. Len(records) /\ records'[i] = records[i + 1]
      /\ Head(records) = records[1] /\ 1 \in 1 .. Len(records)
      /\ DOMAIN records = 1 .. Len(records) /\ DOMAIN records' = 1 .. Len(records')
  BY <1>1, SMTT(60) DEF Typed, SocketTyped
<1>3. \A i \in 1 .. Len(acks') :
        \/ \E j \in 1 .. Len(acks) : acks'[i] = acks[j]
        \/ acks'[i] = [seq |-> records[1].seq, steady |-> steady]
  BY <1>1, <1>2, SMTT(60) DEF Typed, SocketTyped
<1>4. StoppedInv'
  BY <1>1, SMTT(60) DEF StoppedInv
<1>5. SteadyInv'
  BY <1>1, <1>3, SMTT(60) DEF SteadyInv
<1>6. NumbersInv'
  <2>1. \A i \in 1 .. Len(records') : records'[i].seq < next
    BY <1>2, ZenonT(60) DEF NumbersInv
  <2>2. \A i \in 1 .. Len(acks') : acks'[i].seq < next
    <3>1. \A a, s : a = [seq |-> s, steady |-> steady] => a.seq = s
      BY SMT
    <3> QED
      BY <1>2, <1>3, <3>1, ZenonT(60) DEF NumbersInv
  <2> QED
    BY <1>1, <2>1, <2>2, ZenonT(60) DEF NumbersInv
<1>7. LoggedInv'
  <2>1. \A i \in 1 .. Len(records') : records'[i].phase = "BEFORE" => records'[i].seq # 0
    BY <1>2, ZenonT(60) DEF LoggedInv
  <2>2. ASSUME NEW t \in Threads, pc[t] = "before"
        PROVE  /\ \A i \in 1 .. Len(records') : records'[i].seq = seq[t] => records'[i].phase = "BEFORE"
               /\ \A i \in 1 .. Len(acks') : acks'[i].seq = seq[t] => seq[t] \in log'
    <3>1. \A i \in 1 .. Len(records) : records[i].seq = seq[t] => records[i].phase = "BEFORE"
      BY <2>2, ZenonT(60) DEF LoggedInv
    <3>2. \A i \in 1 .. Len(acks) : acks[i].seq = seq[t] => seq[t] \in log'
      BY <1>1, <2>2, ZenonT(60) DEF LoggedInv
    <3>3. \A a, n : a = [seq |-> n, steady |-> steady] => a.seq = n
      BY SMT
    <3>4. records[1].seq = seq[t] => seq[t] \in log'
      BY <1>1, <1>2, <3>1, ZenonT(60)
    <3>5. \A i \in 1 .. Len(records') : records'[i].seq = seq[t] => records'[i].phase = "BEFORE"
      BY <1>2, <3>1, ZenonT(60)
    <3>6. ASSUME NEW i \in 1 .. Len(acks'), acks'[i].seq = seq[t] PROVE seq[t] \in log'
      <4>1. CASE \E j \in 1 .. Len(acks) : acks'[i] = acks[j]
        BY <3>2, <3>6, <4>1, ZenonT(60)
      <4>2. CASE acks'[i] = [seq |-> records[1].seq, steady |-> steady]
        <5>1. acks'[i].seq = records[1].seq
          BY <3>3, <4>2, ZenonT(60)
        <5> QED
          BY <3>4, <3>6, <5>1, ZenonT(60)
      <4> QED
        BY <1>3, <3>6, <4>1, <4>2, ZenonT(60)
    <3> QED
      BY <3>5, <3>6, ZenonT(60)
  <2> QED
    BY <1>1, <2>1, <2>2, ZenonT(60) DEF LoggedInv
<1>8. ShownInv'
  <2>1. ReportedWasShown'
    <3> SUFFICES ASSUME NEW i \in 1 .. Len(records'),
                        records'[i].phase = "AFTER" /\ records'[i].req.op = "SETCRTC" /\ records'[i].ok
                 PROVE  records'[i].seq \in reached
      BY <1>1, <1>2, Zenon DEF ReportedWasShown
    <3>1. i + 1 \in DOMAIN records /\ records'[i] = records[i + 1]
      BY <1>2, ZenonT(60)
    <3> QED
      BY <3>1, ZenonT(60) DEF ShownInv, ReportedWasShown
  <2> QED
    BY <1>1, <2>1, Zenon DEF ShownInv
<1> QED
  BY <1>4, <1>5, <1>6, <1>7, <1>8, ZenonT(60)

\* A new session starts from a process that left nothing behind.
LEMMA StartKeeps ==
  ASSUME Typed, TraceInv, Start
  PROVE  StoppedInv' /\ SteadyInv' /\ NumbersInv' /\ LoggedInv' /\ ShownInv' /\ CacheInv'
<1> USE DEF xorg, threads, socket, agentVars, kernel, property
<1>1. /\ \A t \in Threads : pc[t] = "none"
      /\ acks = <<>> /\ next = 1 /\ cache = Unknown /\ ~quiet /\ ~steady
  BY SMTT(60) DEF TraceInv, StoppedInv, SteadyInv, Start
<1>2. /\ pc' = [pc EXCEPT ![Main] = "loaded"] /\ acks' = <<>> /\ next' = 1 /\ cache' = Unknown
      /\ quiet' = quiet /\ steady' = steady /\ seq' = seq
      /\ records' = <<Record(0, "LOADED", Loading, FALSE)>>
  BY <1>1, SMTT(60) DEF Start, SpawnXorg
<1>3. /\ Main \in Threads /\ pc'[Main] = "loaded"
      /\ \A t \in Threads : pc'[t] \in {"none", "loaded"}
  BY <1>1, <1>2, TraceAssumptions, SMTT(60) DEF TraceAssumptions, Typed, XorgTyped
<1>4. /\ \A i \in 1 .. Len(records') : records'[i].seq = 0 /\ records'[i].phase = "LOADED"
      /\ DOMAIN records' = 1 .. Len(records') /\ Len(acks') = 0
  BY <1>2 DEF Record
<1>5. StoppedInv'
  BY <1>3 DEF StoppedInv
<1>6. SteadyInv'
  BY <1>1, <1>2, <1>4, SMTT(60) DEF SteadyInv
<1>7. NumbersInv'
  <2>1. \A t \in Threads : seq'[t] < next'
    <3>1. seq' = seq /\ next' = next
      BY <1>1, <1>2
    <3> QED
      BY <3>1, Zenon DEF TraceInv, NumbersInv
  <2>2. \A t, u \in Threads : t # u /\ seq'[t] = seq'[u] => seq'[t] = 0
    <3>1. seq' = seq
      BY <1>2, SMTT(60)
    <3> QED
      BY <3>1, Zenon DEF TraceInv, NumbersInv
  <2>3. \A i \in 1 .. Len(records') : records'[i].seq < next'
    <3>1. next' = 1 /\ 0 < 1
      BY <1>2
    <3> QED
      BY <1>4, <3>1
  <2>4. \A i \in 1 .. Len(acks') : acks'[i].seq < next'
    BY <1>4, SMTT(60)
  <2> QED
    BY <2>1, <2>2, <2>3, <2>4 DEF NumbersInv
<1>8. LoggedInv'
  BY <1>3, <1>4, SMTT(60) DEF LoggedInv
<1>9. ShownInv'
  BY <1>3, <1>4, SMTT(60) DEF ShownInv, ReportedWasShown
<1>10. CacheInv'
  BY <1>2, <1>3, SMTT(60) DEF CacheInv
<1> QED
  BY <1>5, <1>6, <1>7, <1>8, <1>9, <1>10

\* Every step keeps the invariant.
LEMMA TraceStep ==
  ASSUME Typed, TraceInv, [Next]_vars PROVE TraceInv'
<1> USE DEF xorg, threads, socket, agentVars, kernel, property
<1>1. PlacesInv'
  BY PlacesStep DEF TraceInv
<1>2. ASSUME Exit, UNCHANGED <<agent, steady>> \/ (agent' = "idle" /\ steady' = FALSE)
      PROVE  TraceInv'
  <2>1. SteadyInv'
    <3>1. acks' = <<>> /\ ~quiet'
      BY <1>2 DEF Exit, Stopped
    <3>2. Len(acks') = 0
      BY <3>1
    <3>3. agent' \notin {"running", "ending"} => ~steady'
      BY <1>2 DEF TraceInv, SteadyInv
    <3> QED
      BY <3>1, <3>2, <3>3, SMTT(60) DEF SteadyInv
  <2> QED
    BY <1>2, <2>1, ExitInv DEF TraceInv
<1>3. ASSUME NEW t \in Threads,
             \/ Await(t) \/ Suppress(t) \/ Syscall(t) \/ Fallback(t) \/ Flip(t) \/ Verify(t)
             \/ Spawn(t) \/ HideProperty(t) \/ \E r \in Requests : Call(t, r)
      PROVE  TraceInv'
  <2>1. CacheInv'
    BY <1>3, CacheStep DEF TraceInv
  <2>2. Exit \/ ThreadEffect(t)
    BY <1>3, ThreadShape DEF TraceInv
  <2>3. CASE ThreadEffect(t)
    BY <1>1, <2>1, <2>3, ThreadKeeps DEF TraceInv
  <2>4. CASE Exit
    <3>1. UNCHANGED <<agent, steady>>
      BY <1>3, Zenon DEF Await, Suppress, Syscall, Fallback, Flip, Verify, Spawn, HideProperty, Call
    <3> QED
      BY <1>2, <2>4, <3>1, Zenon
  <2> QED
    BY <2>2, <2>3, <2>4, SMTT(60)
<1>4. CASE Die
  BY <1>2, <1>4, Zenon DEF Die
<1>5. CASE Start
  BY <1>1, <1>5, StartKeeps, SMTT(60) DEF TraceInv
<1>6. CASE Relay
  <2>1. CacheInv'
    BY <1>6, ZenonT(60) DEF TraceInv, CacheInv, Relay
  <2> QED
    BY <1>1, <1>6, <2>1, RelayKeeps, ZenonT(60) DEF TraceInv
<1>7. CASE Cleanup
  BY <1>2, <1>7, Zenon DEF Cleanup
<1>8. CASE EndSession \/ VerifyScanout \/ VerifyXorg \/ UNCHANGED vars
  <2>1. UNCHANGED <<pc, req, seq, result, next, quiet, cache, records, acks, log, kernel>>
    BY <1>8, ZenonT(60) DEF EndSession, VerifyScanout, VerifyXorg, vars
  <2>2. StoppedInv' /\ NumbersInv'
    BY <2>1, Zenon DEF TraceInv, StoppedInv, NumbersInv
  <2>3. SteadyInv'
    <3>a. ~steady => ~quiet' /\ \A i \in 1 .. Len(acks') : ~acks'[i].steady
      BY <2>1, Zenon DEF TraceInv, SteadyInv
    <3>1. CASE EndSession
      BY <3>1, <3>a, Zenon DEF SteadyInv, EndSession
    <3>2. CASE VerifyScanout \/ VerifyXorg
      <4>1. ~steady
        BY <3>2, ZenonT(60) DEF TraceInv, SteadyInv, VerifyScanout, VerifyXorg
      <4>2. agent' = "running" \/ ~steady'
        BY <3>2, <4>1, Zenon DEF VerifyScanout, VerifyXorg
      <4> QED
        BY <3>a, <4>1, <4>2, Zenon DEF SteadyInv
    <3>3. CASE UNCHANGED vars
      BY <3>3, Zenon DEF TraceInv, SteadyInv, vars
    <3> QED
      BY <1>8, <3>1, <3>2, <3>3, Zenon
  <2>4. LoggedInv'
    BY <2>1, Zenon DEF TraceInv, LoggedInv
  <2>5. ShownInv' /\ CacheInv'
    BY <2>1, Zenon DEF TraceInv, ShownInv, ReportedWasShown, CacheInv
  <2> QED
    BY <1>1, <2>2, <2>3, <2>4, <2>5, SMTT(60) DEF TraceInv
<1> QED
  BY <1>3, <1>4, <1>5, <1>6, <1>7, <1>8 DEF Next

\* All of it holds in every reachable state.
THEOREM TraceInvariance == Spec => [](Typed /\ TraceInv)
<1>1. Init => Typed /\ TraceInv
  <2> SUFFICES ASSUME Init PROVE Typed /\ TraceInv
    OBVIOUS
  <2>1. Main \in Threads /\ AndroidMode \in Modes /\ MaxSeq \in Nat
    BY TraceAssumptions DEF TraceAssumptions
  <2>2. Typed
    <3>1. XorgTyped
      <4>1. 0 \in 0 .. MaxSeq /\ 1 \in 1 .. MaxSeq + 1
        BY <2>1
      <4>2. "none" \in Places /\ Loading \in AnyRequest
        BY SMTT(60) DEF Places, AnyRequest
      <4> QED
        BY <4>1, <4>2, Zenon DEF Init, XorgTyped
    <3>2. SocketTyped
      BY DEF Init, SocketTyped
    <3>3. AgentTyped
      <4>1. 0 \in 0 .. MaxSeq
        BY <2>1, SMTT(60)
      <4>2. NoScan \in Scan
        BY <4>1 DEF Scan, NoScan
      <4> QED
        BY <4>2, Zenon DEF Init, AgentTyped
    <3>4. KernelTyped
      BY <2>1, Zenon DEF Init, KernelTyped
    <3> QED
      BY <3>1, <3>2, <3>3, <3>4 DEF Typed
  <2>3. TraceInv
    <3>1. Len(records) = 0 /\ Len(acks) = 0 /\ DOMAIN records = {}
      BY SMTT(60) DEF Init
    <3>2. PlacesInv /\ StoppedInv /\ SteadyInv
      BY <2>1, <3>1, SMTT(60) DEF Init, PlacesInv, StoppedInv, SteadyInv
    <3>3. NumbersInv
      BY <3>1, SMTT(60) DEF Init, NumbersInv
    <3>4. LoggedInv /\ ShownInv
      <4>1. 1 .. Len(records) = {} /\ 1 .. Len(acks) = {}
        BY <3>1, SMT
      <4>2. \A t \in Threads : pc[t] = "none"
        BY ZenonT(60) DEF Init
      <4> QED
        BY <3>1, <4>1, <4>2, ZenonT(60) DEF LoggedInv, ShownInv, ReportedWasShown
    <3>5. CacheInv
      BY DEF Init, CacheInv
    <3> QED
      BY <3>2, <3>3, <3>4, <3>5, SMTT(60) DEF TraceInv
  <2> QED
    BY <2>2, <2>3
<1>2. Typed /\ TraceInv /\ [Next]_vars => (Typed /\ TraceInv)'
  BY TypedStep, TraceStep DEF TraceInv
<1> QED
  BY <1>1, <1>2, PTL DEF Spec

\* The tracer, the agent and the kernel keep their types, and a fallback is only
\* ever about a SETCRTC.
THEOREM TraceTypes == Spec => []TypeOK
<1>1. Typed /\ TraceInv => TypeOK
  BY ZenonT(60) DEF Typed, XorgTyped, AgentTyped, KernelTyped, Scan, AnyRequest, TraceInv, PlacesInv, TypeOK
<1> QED
  BY <1>1, TraceInvariance, PTL

\* No SETCRTC is reported as successful, by the kernel or by the same-mode
\* fallback, unless the leased connector showed its buffer at its timing.
THEOREM ReportsAreTrue == Spec => []ReportedWasShown
<1>1. TraceInv => ReportedWasShown
  BY ZenonT(60) DEF TraceInv, ShownInv
<1> QED
  BY <1>1, TraceInvariance, PTL

\* An ioctl of any thread reaches the kernel only after the broker has logged its
\* record; only others than SETCRTC, and only in a verified session up to the end of
\* its cleanup, go without.
THEOREM IoctlsAreTraced == Spec => TracedFirst
<1> DEFINE Ahead(t) ==
             pc[t] = "issue" =>
               seq[t] \in log \/ (agent \in {"running", "ending"} /\ steady /\ req[t].op # "SETCRTC")
<1>1. TraceInv => \A t \in Threads : Ahead(t)
  BY Zenon DEF TraceInv, LoggedInv, SteadyInv
<1>2. (\A t \in Threads : Ahead(t)) =>
        [\A t \in Threads :
           pc[t] = "issue" /\ pc'[t] \notin {"issue", "none"} =>
             seq[t] \in log \/ (agent \in {"running", "ending"} /\ steady /\ req[t].op # "SETCRTC")]_vars
  OBVIOUS
<1> QED
  BY <1>1, <1>2, TraceInvariance, PTL DEF TracedFirst

\* A SETPROPERTY that succeeds leaves its value in the property, whether the kernel
\* or the cache answered it, until Xorg has written the property once.
THEOREM ChangesReachTheKernel == Spec => ChangeReachesKernel
<1> DEFINE Kept == \A t \in Threads :
                     pc[t] = "issue" /\ req[t].op = "SETPROPERTY" /\ result'[t]
                       => prop' = req[t].value \/ written
<1>1. Typed /\ TraceInv /\ [Next]_vars => [Kept]_vars
  <2> SUFFICES ASSUME Typed, TraceInv, Next, NEW t \in Threads,
                      pc[t] = "issue", req[t].op = "SETPROPERTY", result'[t], ~written
               PROVE  prop' = req[t].value
    OBVIOUS
  <2> USE DEF xorg, threads, socket, agentVars, kernel, property
  <2>1. ~result[t] /\ result \in [Threads -> BOOLEAN]
    BY DEF TraceInv, PlacesInv, Typed, XorgTyped
  <2>2. result'[t] # result[t]
    BY <2>1, Zenon
  <2>3. req[t].value # Unknown
    <3>1. \A r \in AnyRequest : r.op = "SETPROPERTY" => r.value \in Values
      BY DEF AnyRequest, Requests, SetCrtc, PageFlip, SetProperty, GetProperties,
          Loading, Ignored, Filled
    <3> QED
      BY <3>1, TraceAssumptions, SMTT(60) DEF TraceAssumptions, Typed, XorgTyped
  <2>4. CASE Suppress(t)
    BY <2>3, <2>4, Zenon DEF Suppress, Suppressible, TraceInv, CacheInv
  <2>5. CASE Syscall(t)
    <3>1. ~Return(t, FALSE)
      BY <2>1, Zenon DEF Return
    <3>2. ~MayFallBack(req[t])
      BY DEF MayFallBack
    <3> QED
      BY <2>5, <3>1, <3>2, Zenon DEF Syscall
  <2>6. ASSUME NEW u \in Threads, u # t,
               \/ Suppress(u) \/ Syscall(u) \/ Fallback(u) \/ Flip(u)
               \/ Verify(u) \/ HideProperty(u) \/ \E r \in Requests : Call(u, r)
        PROVE  FALSE
    <3>1. ASSUME NEW ok, result' = [result EXCEPT ![u] = ok] PROVE FALSE
      BY <2>1, <2>2, <2>6, <3>1, ZenonT(60)
    <3> QED
      BY <2>2, <2>6, <3>1, ZenonT(60)
         DEF Suppress, Syscall, Fallback, Flip, Verify, HideProperty, Call, Return, Report
  <2>7. ~Exit
    BY <2>1 DEF Exit, Stopped
  <2> QED
    BY <2>2, <2>4, <2>5, <2>6, <2>7, ZenonT(60)
       DEF Next, Await, Spawn, Die, Start, Relay, EndSession, Cleanup, VerifyScanout, VerifyXorg,
           Fallback, Flip, Verify, HideProperty, Call
<1> QED
  BY <1>1, TraceInvariance, PTL DEF Spec, ChangeReachesKernel

=============================================================================
