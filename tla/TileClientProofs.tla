-------------------------- MODULE TileClientProofs --------------------------
(***************************************************************************)
(* Proofs about TileClient, for any backlog of the broker and any number   *)
(* of requests of the tile: a resumed screen always has a request or a     *)
(* poll under way, and a button does what its label said.                  *)
(***************************************************************************)
EXTENDS TileClient, TLAPS

Wants == {"none", "arm", "disarm"}
JobSet == [st : {"idle", "queued", "waiting", "posted"}, op : Jobs \cup {"none"},
           want : Wants, reply : Shown \cup {"none"}]
Requests == [by : {"app", "tile", "nobody"}, op : Jobs, want : Wants]
TileJobs == [st : {"queued", "waiting"}, op : {"status", "toggle"}]

\* The operation is the one that the label named.
Meant(r) == (r.want = "arm" => r.op = "arm") /\ (r.want = "disarm" => r.op = "disarm")

ActivityTyped ==
  /\ life \in {"resumed", "paused", "gone"} /\ inFlight \in BOOLEAN /\ dialog \in BOOLEAN
  /\ polls \in 0 .. 1 /\ screen \in Shown \cup {"none"}

JobTyped ==
  /\ job \in JobSet /\ Meant(job)
  /\ job.st = "idle" \/ job.op \in Jobs

IsLine(l) == l \in Seq(Requests) /\ Len(l) <= MaxLine /\ \A i \in 1 .. Len(l) : Meant(l[i])

QueuesTyped ==
  /\ jobs \in Seq(TileJobs) /\ Len(jobs) <= MaxTile /\ tile \in Shown
  /\ IsLine(line) /\ session \in Session

Typed == ActivityTyped /\ JobTyped /\ QueuesTyped

\* Each executor waits for at most one reply, and nobody else's connection is
\* taken for its own.
By(l, who) == \E i \in 1 .. Len(l) : l[i].by = who
Single(l) == \A i, j \in 1 .. Len(l) : l[i].by # "nobody" /\ l[i].by = l[j].by => i = j

WaitingInv ==
  /\ Single(line)
  /\ By(line, "app") => job.st = "waiting"
  /\ By(line, "tile") => jobs # <<>> /\ jobs[1].st = "waiting"

\* A request is in flight while the executor has it; no poll is queued meanwhile.
FlightInv ==
  /\ job.st # "idle" => inFlight /\ life # "gone"
  /\ inFlight => polls = 0

TileInv == WaitingInv /\ FlightInv /\ PollingFollowsScreen

-----------------------------------------------------------------------------
(* The broker's queue of connections. *)

\* A connection joins the queue, is served, or is no longer waited for: the
\* queue stays one.
LEMMA LineAppended ==
  ASSUME NEW l, IsLine(l), Len(l) < MaxLine, NEW r \in Requests, Meant(r)
  PROVE  /\ IsLine(Append(l, r)) /\ Len(Append(l, r)) = Len(l) + 1 /\ Len(l) \in Nat
         /\ Append(l, r)[Len(l) + 1] = r /\ \A i \in 1 .. Len(l) : Append(l, r)[i] = l[i]
<1>1. /\ Append(l, r) \in Seq(Requests) /\ Len(Append(l, r)) = Len(l) + 1 /\ Len(l) \in Nat
      /\ Append(l, r)[Len(l) + 1] = r /\ \A i \in 1 .. Len(l) : Append(l, r)[i] = l[i]
  BY DEF IsLine
<1>2. \A i \in 1 .. Len(Append(l, r)) : i = Len(l) + 1 \/ i \in 1 .. Len(l)
  BY <1>1
<1>3. \A i \in 1 .. Len(Append(l, r)) : Meant(Append(l, r)[i])
  BY <1>1, <1>2, Zenon DEF IsLine
<1>4. Len(l) + 1 <= MaxLine
  BY <1>1, TileAssumption DEF TileAssumption
<1> QED
  BY <1>1, <1>3, <1>4, Zenon DEF IsLine

\* Taking the first request off a line leaves a line.
LEMMA LineServed ==
  ASSUME NEW l, IsLine(l), l # <<>>
  PROVE  /\ IsLine(Tail(l)) /\ Len(Tail(l)) = Len(l) - 1 /\ Len(l) \in Nat
         /\ \A i \in 1 .. Len(Tail(l)) : i + 1 \in 1 .. Len(l) /\ Tail(l)[i] = l[i + 1]
         /\ 1 \in 1 .. Len(l) /\ Head(l) = l[1] /\ l[1] \in Requests /\ Meant(l[1])
<1>1. /\ Tail(l) \in Seq(Requests) /\ Len(Tail(l)) = Len(l) - 1 /\ Len(l) \in Nat
      /\ \A i \in 1 .. Len(Tail(l)) : i + 1 \in 1 .. Len(l) /\ Tail(l)[i] = l[i + 1]
      /\ 1 \in 1 .. Len(l) /\ Head(l) = l[1] /\ l[1] \in Requests
  BY DEF IsLine
<1>2. Len(Tail(l)) <= MaxLine
  BY <1>1, TileAssumption DEF TileAssumption, IsLine
<1>3. \A i \in 1 .. Len(Tail(l)) : Meant(Tail(l)[i])
  BY <1>1, Zenon DEF IsLine
<1> QED
  BY <1>1, <1>2, <1>3, Zenon DEF IsLine

\* A client that goes away stays in line as nobody.
LEMMA LineAbandoned ==
  ASSUME IsLine(line), NEW who
  PROVE  /\ IsLine(Abandoned(who)) /\ Len(Abandoned(who)) = Len(line)
         /\ \A i \in 1 .. Len(line) :
              Abandoned(who)[i].by = IF line[i].by = who THEN "nobody" ELSE line[i].by
<1> DEFINE l == Abandoned(who)
<1>1. line \in Seq(Requests) /\ Len(line) \in Nat /\ \A i \in 1 .. Len(line) : line[i] \in Requests
  BY DEF IsLine
<1>2. \A i \in 1 .. Len(line) :
        /\ l[i] = IF line[i].by = who THEN [line[i] EXCEPT !.by = "nobody"] ELSE line[i]
        /\ l[i] \in Requests
  BY <1>1 DEF Abandoned, Requests
<1>3. l \in Seq(Requests) /\ Len(l) = Len(line)
  BY <1>1, <1>2 DEF Abandoned
<1>4. \A i \in 1 .. Len(line) : /\ l[i].by = (IF line[i].by = who THEN "nobody" ELSE line[i].by)
                                /\ l[i].op = line[i].op /\ l[i].want = line[i].want
  BY <1>1, <1>2, ZenonT(60) DEF Requests
<1> HIDE DEF l
<1>5. IsLine(l)
  BY <1>3, <1>4 DEF IsLine, Meant
<1> QED
  BY <1>3, <1>4, <1>5, Zenon DEF l

-----------------------------------------------------------------------------
(* The activity. *)

\* What the callbacks of the main thread may ask for.
Asked == {<<"status", "none">>, <<"mode", "none">>, <<"arm", "arm">>, <<"disarm", "disarm">>}

\* The body of request keeps the label with the operation.
LEMMA IssueJob ==
  ASSUME NEW a \in Asked, Issue(a[1], a[2])
  PROVE  JobTyped' /\ job'.st = "queued" /\ inFlight' /\ polls' = 0
<1> DEFINE j == [st |-> "queued", op |-> a[1], want |-> a[2], reply |-> "none"]
<1>1. job' = j /\ polls' = 0
  BY DEF Issue
<1>2. inFlight'
  BY Zenon DEF Issue
<1>3. j \in JobSet /\ Meant(j) /\ j.st = "queued" /\ j.op \in Jobs
  BY DEF Asked, JobSet, Meant, Jobs, Wants
<1> QED
  BY <1>1, <1>2, <1>3, Zenon DEF JobTyped

\* A callback that may ask asks, or leaves everything as it is.
AsksOrNot ==
  \/ UNCHANGED <<inFlight, polls, job>>
  \/ ~inFlight /\ life' = "resumed" /\ \E a \in Asked : Issue(a[1], a[2])

\* A callback of the screen asks at most one thing, and only while resumed.
LEMMA CallbacksAsk ==
  ASSUME Typed, TileInv, Resume \/ Poll \/ Refresh \/ Press \/ Answer \/ SetMode
  PROVE  /\ AsksOrNot /\ life' = "resumed"
         /\ Resume /\ UNCHANGED <<inFlight, polls, job>> => inFlight
         /\ ~Resume => life = "resumed"
         /\ UNCHANGED <<jobs, tile, line, session, screen>> /\ dialog' \in BOOLEAN
<1> DEFINE st == <<"status", "none">>
           md == <<"mode", "none">>
           ar == <<"arm", "arm">>
           di == <<"disarm", "disarm">>
<1>1. st \in Asked /\ md \in Asked /\ ar \in Asked /\ di \in Asked
  BY DEF Asked
<1>2. /\ st[1] = "status" /\ st[2] = "none" /\ md[1] = "mode" /\ md[2] = "none"
      /\ ar[1] = "arm" /\ ar[2] = "arm" /\ di[1] = "disarm" /\ di[2] = "disarm"
  OBVIOUS
<1> HIDE DEF st, md, ar, di
<1>3. dialog \in BOOLEAN
  BY Zenon DEF Typed, ActivityTyped
<1>4. ASSUME NEW op, NEW want, Request(op, want), life = "resumed", UNCHANGED life,
             \E a \in Asked : a[1] = op /\ a[2] = want
      PROVE  AsksOrNot /\ life' = "resumed"
  BY <1>4, Zenon DEF Request, AsksOrNot
<1>5. CASE Resume
  <2>1. AsksOrNot
    BY <1>1, <1>2, <1>5, Zenon DEF Resume, AsksOrNot
  <2>2. UNCHANGED <<inFlight, polls, job>> => inFlight
    BY <1>5 DEF Resume, Issue
  <2>3. life' = "resumed" /\ UNCHANGED <<jobs, tile, line, session, screen, dialog>>
    BY <1>5 DEF Resume
  <2> QED
    BY <1>3, <1>5, <2>1, <2>2, <2>3, Zenon
<1>6. ASSUME Poll PROVE AsksOrNot /\ life' = "resumed"
  <2>1. ~inFlight
    BY <1>6 DEF Poll, TileInv, FlightInv
  <2>2. Request("status", "none") /\ life = "resumed" /\ UNCHANGED life
    BY <1>6, <2>1, Zenon DEF Poll
  <2> QED
    BY <1>1, <1>2, <1>4, <2>2, Zenon
<1>7. ASSUME Refresh PROVE AsksOrNot /\ life' = "resumed"
  BY <1>1, <1>2, <1>4, <1>7, Zenon DEF Refresh
<1>8. ASSUME SetMode PROVE AsksOrNot /\ life' = "resumed"
  BY <1>1, <1>2, <1>4, <1>8, Zenon DEF SetMode
<1>9. ASSUME Press PROVE AsksOrNot /\ life' = "resumed"
  <2>1. life = "resumed" /\ UNCHANGED life
    BY <1>9 DEF Press
  <2>2. \/ UNCHANGED <<inFlight, polls, job>>
        \/ Request("disarm", "disarm") \/ Request("arm", "arm")
    BY <1>9, Zenon DEF Press, Operation
  <2> QED
    BY <1>1, <1>2, <1>4, <2>1, <2>2, Zenon DEF AsksOrNot
<1>10. ASSUME Answer PROVE AsksOrNot /\ life' = "resumed"
  <2>1. life = "resumed" /\ UNCHANGED life
    BY <1>10 DEF Answer
  <2>2. UNCHANGED <<inFlight, polls, job>> \/ Request("disarm", "disarm")
    BY <1>10, Zenon DEF Answer, Operation
  <2> QED
    BY <1>1, <1>2, <1>4, <2>1, <2>2, Zenon DEF AsksOrNot
<1>11. ASSUME ~Resume
       PROVE  life = "resumed" /\ UNCHANGED <<jobs, tile, line, session, screen>> /\ dialog' \in BOOLEAN
  <2>1. CASE Poll \/ Refresh \/ SetMode
    BY <1>3, <2>1, Zenon DEF Poll, Refresh, SetMode
  <2>2. CASE Press \/ Answer
    BY <1>3, <2>2, Zenon DEF Press, Answer
  <2> QED
    BY <1>11, <2>1, <2>2
<1> QED
  BY <1>5, <1>6, <1>7, <1>8, <1>9, <1>10, <1>11, Zenon

\* Every step keeps the types of the activity, and a request or a poll under way.
LEMMA ActivityStep ==
  ASSUME Typed, TileInv, [Next]_vars
  PROVE  ActivityTyped' /\ PollingFollowsScreen' /\ (inFlight => polls = 0)'
<1> USE DEF ActivityTyped, PollingFollowsScreen, TileInv, FlightInv
<1>1. CASE Resume \/ Poll \/ Refresh \/ Press \/ Answer \/ SetMode
  <2>1. /\ AsksOrNot /\ life' = "resumed" /\ screen' = screen /\ dialog' \in BOOLEAN
        /\ Resume /\ UNCHANGED <<inFlight, polls, job>> => inFlight
        /\ ~Resume => life = "resumed"
    BY <1>1, CallbacksAsk
  <2>2. CASE UNCHANGED <<inFlight, polls, job>>
    <3>1. inFlight \/ polls = 1
      BY <2>1, <2>2
    <3>2. (inFlight' <=> inFlight) /\ polls' = polls /\ inFlight' \in BOOLEAN
      BY <2>2, Zenon DEF Typed
    <3> QED
      BY <2>1, <3>1, <3>2 DEF Typed
  <2>3. ASSUME NEW a \in Asked, Issue(a[1], a[2])
        PROVE  ActivityTyped' /\ PollingFollowsScreen' /\ (inFlight => polls = 0)'
    <3>1. inFlight' /\ polls' = 0
      BY <2>3, IssueJob
    <3>2. inFlight' \in BOOLEAN
      BY <2>3, Zenon DEF Issue
    <3> QED
      BY <2>1, <3>1, <3>2 DEF Typed
  <2> QED
    BY <2>1, <2>2, <2>3, Zenon DEF AsksOrNot
<1>2. CASE Pause
  <2>1. life' = "paused" /\ polls' = 0 /\ screen' = screen
    BY <1>2 DEF Pause
  <2>2. inFlight' \in BOOLEAN /\ dialog' \in BOOLEAN
    BY <1>2, Zenon DEF Pause, Typed
  <2> QED
    BY <2>1, <2>2 DEF Typed
<1>3. CASE Destroy
  <2>1. life' = "gone" /\ polls' = 0 /\ screen' = screen
    BY <1>3 DEF Destroy
  <2>2. inFlight' \in BOOLEAN /\ dialog' \in BOOLEAN
    BY <1>3, Zenon DEF Destroy, Typed
  <2> QED
    BY <2>1, <2>2 DEF Typed
<1>4. CASE Create
  <2>1. life' = "paused" /\ polls' = 0 /\ screen' = "none"
    BY <1>4 DEF Create
  <2>2. inFlight' \in BOOLEAN /\ dialog' \in BOOLEAN
    BY <1>4, Zenon DEF Create, Typed
  <2> QED
    BY <2>1, <2>2 DEF Typed
<1>5. CASE Deliver
  <2>1. job.st = "posted" /\ life' = life /\ screen' = job.reply
    BY <1>5 DEF Deliver
  <2>2. inFlight /\ polls = 0
    BY <2>1
  <2>3. polls' = IF life = "resumed" THEN 1 ELSE 0
    BY <1>5, <2>2 DEF Deliver, NextPoll
  <2>4. inFlight' \in BOOLEAN /\ dialog' \in BOOLEAN /\ ~inFlight'
    BY <1>5, Zenon DEF Deliver, Typed
  <2>5. screen' \in Shown \cup {"none"}
    BY <2>1 DEF Typed, JobTyped, JobSet
  <2> QED
    BY <2>1, <2>3, <2>4, <2>5 DEF Typed
<1>6. CASE Connect \/ GiveUp \/ TileAsks \/ TileConnect \/ TileDestroy \/ TileGivesUp \/ Serve \/ Advance
           \/ UNCHANGED vars
  <2>1. UNCHANGED <<life, inFlight, polls, screen, dialog>>
    BY <1>6, Zenon DEF Connect, GiveUp, TileAsks, TileConnect, TileDestroy, TileGivesUp, Serve, Advance,
                       vars, activity
  <2> QED
    BY <2>1, Zenon DEF Typed
<1> QED
  BY <1>1, <1>2, <1>3, <1>4, <1>5, <1>6, Zenon DEF Next

-----------------------------------------------------------------------------
(* The executors and the broker. *)

\* The replies are what the screen and the tile can show.
LEMMA OutcomeShown ==
  ASSUME session \in Session, NEW op \in Jobs, NEW o \in Outcome(op)
  PROVE  o[1] \in Session /\ o[2] \in Shown
<1>1. ASSUME o \in Arming PROVE o[1] \in Session /\ o[2] \in Shown
  BY <1>1 DEF Arming, Session, Shown
<1>2. CASE op = "arm"
  BY <1>1, <1>2 DEF Outcome, Session, Shown
<1>3. CASE op = "disarm"
  BY <1>3 DEF Outcome, Session, Shown
<1>4. CASE op = "toggle"
  BY <1>1, <1>4 DEF Outcome, Session, Shown
<1>5. CASE op = "mode"
  BY <1>5 DEF Outcome, Session, Shown
<1>6. CASE op = "status"
  BY <1>6 DEF Outcome, Session, Shown
<1> QED
  BY <1>2, <1>3, <1>4, <1>5, <1>6 DEF Jobs

\* Every step keeps the type of the activity's job, its label, and inFlight while
\* the executor has it: a reply finds the activity that asked.
LEMMA JobStep ==
  ASSUME Typed, TileInv, [Next]_vars
  PROVE  JobTyped' /\ (job.st # "idle" => inFlight /\ life # "gone")'
<1> DEFINE Flies == job.st # "idle" => inFlight /\ life # "gone"
<1> USE DEF TileInv, FlightInv
<1>1. NoJob \in JobSet /\ Meant(NoJob) /\ NoJob.st = "idle"
  BY DEF NoJob, JobSet, Wants, Meant
<1>2. ASSUME job' = NoJob PROVE JobTyped' /\ Flies'
  BY <1>1, <1>2, Zenon DEF JobTyped
<1>3. ASSUME UNCHANGED job, inFlight => inFlight', life # "gone" => life' # "gone"
      PROVE  JobTyped' /\ Flies'
  <2>1. JobTyped'
    BY <1>3, Zenon DEF JobTyped, Typed
  <2>2. Flies'
    BY <1>3, Zenon
  <2> QED
    BY <2>1, <2>2
<1>4. CASE Resume \/ Poll \/ Refresh \/ Press \/ Answer \/ SetMode
  <2>1. AsksOrNot /\ life' = "resumed"
    BY <1>4, CallbacksAsk, Zenon
  <2>2. CASE UNCHANGED <<inFlight, polls, job>>
    BY <1>3, <2>1, <2>2
  <2>3. ASSUME NEW a \in Asked, Issue(a[1], a[2]) PROVE JobTyped' /\ Flies'
    BY <2>1, <2>3, IssueJob
  <2> QED
    BY <2>1, <2>2, <2>3, Zenon DEF AsksOrNot
<1>5. CASE Destroy \/ Deliver
  BY <1>2, <1>5, Zenon DEF Destroy, Deliver
<1>6. CASE Pause
  <2>1. UNCHANGED job /\ (inFlight => inFlight') /\ life' = "paused"
    BY <1>6, Zenon DEF Pause
  <2> QED
    BY <1>3, <2>1
<1>7. CASE Create
  <2>1. job.st = "idle" /\ job' = job
    BY <1>7, Zenon DEF Create
  <2> QED
    BY <2>1, Zenon DEF JobTyped, Typed
<1>8. ASSUME NEW j \in JobSet, job' = j, j.op = job.op, j.want = job.want, job.st # "idle",
             UNCHANGED activity
      PROVE  JobTyped' /\ Flies'
  <2>1. UNCHANGED <<inFlight, life>>
    BY <1>8 DEF activity
  <2>2. JobTyped'
    BY <1>8 DEF JobTyped, Typed, Meant
  <2>3. Flies'
    BY <1>8, <2>1, Zenon
  <2> QED
    BY <2>2, <2>3
<1>9. job \in JobSet
  BY DEF Typed, JobTyped
<1>10. CASE Connect
  <2> DEFINE j == [job EXCEPT !.st = "waiting"]
  <2>1. j \in JobSet /\ j.op = job.op /\ j.want = job.want
    BY <1>9 DEF JobSet
  <2>2. job' = j /\ job.st # "idle" /\ UNCHANGED activity
    BY <1>10 DEF Connect
  <2> QED
    BY <1>8, <2>1, <2>2, Zenon
<1>11. CASE GiveUp
  <2> DEFINE j == [job EXCEPT !.st = "posted", !.reply = "error"]
  <2>1. j \in JobSet /\ j.op = job.op /\ j.want = job.want
    BY <1>9, ZenonT(60) DEF JobSet, Shown
  <2>2. job' = j /\ job.st # "idle" /\ UNCHANGED activity
    BY <1>11 DEF GiveUp
  <2> QED
    BY <1>8, <2>1, <2>2, Zenon
<1>12. CASE Serve
  <2>1. line # <<>> /\ IsLine(line) /\ UNCHANGED activity /\ session \in Session
    BY <1>12 DEF Serve, Typed, QueuesTyped
  <2>2. Head(line) = line[1] /\ line[1] \in Requests /\ 1 \in 1 .. Len(line)
    BY <2>1, LineServed, Zenon
  <2>3. line[1].op \in Jobs
    BY <2>2 DEF Requests
  <2>4. PICK o \in Outcome(line[1].op) :
          job' = IF line[1].by = "app" THEN [job EXCEPT !.st = "posted", !.reply = o[2]] ELSE job
    BY <1>12, <2>2, Zenon DEF Serve
  <2>5. CASE line[1].by # "app"
    BY <1>3, <2>1, <2>4, <2>5, Zenon DEF activity
  <2>6. CASE line[1].by = "app"
    <3> DEFINE j == [job EXCEPT !.st = "posted", !.reply = o[2]]
    <3>1. o[2] \in Shown
      BY <2>1, <2>3, OutcomeShown, Zenon
    <3>2. j \in JobSet /\ j.op = job.op /\ j.want = job.want
      BY <1>9, <3>1, ZenonT(60) DEF JobSet
    <3>3. job.st # "idle"
      BY <2>2, <2>6 DEF WaitingInv, By
    <3> QED
      BY <1>8, <2>1, <2>4, <2>6, <3>2, <3>3, Zenon
  <2> QED
    BY <2>5, <2>6
<1>13. CASE TileAsks \/ TileConnect \/ TileDestroy \/ TileGivesUp \/ Advance \/ UNCHANGED vars
  <2>1. UNCHANGED <<job, inFlight, life>>
    BY <1>13, Zenon DEF TileAsks, TileConnect, TileDestroy, TileGivesUp, Advance, vars, activity
  <2> QED
    BY <1>3, <2>1, Zenon
<1> QED
  BY <1>4, <1>5, <1>6, <1>7, <1>10, <1>11, <1>12, <1>13, Zenon DEF Next

\* The queue of connections after a step.
LEMMA LineStep ==
  ASSUME Typed, TileInv, [Next]_vars PROVE IsLine(line')
<1>1. IsLine(line) /\ Len(line) \in Nat
  BY DEF Typed, QueuesTyped, IsLine
<1>2. \A who : IsLine(Abandoned(who))
  BY <1>1, LineAbandoned, Zenon
<1>3. ASSUME NEW r \in Requests, Meant(r), Len(line) < MaxLine PROVE IsLine(Append(line, r))
  BY <1>1, <1>3, LineAppended, Zenon
<1>4. job \in JobSet /\ Meant(job) /\ (job.st = "idle" \/ job.op \in Jobs)
  BY DEF Typed, JobTyped
<1>5. ASSUME NEW by \in {"app", "nobody"}, job.st = "queued"
      PROVE  LET r == [by |-> by, op |-> job.op, want |-> job.want] IN r \in Requests /\ Meant(r)
  BY <1>4, <1>5 DEF Requests, Meant, JobSet
<1>6. ASSUME NEW by \in {"tile", "nobody"}, jobs # <<>>
      PROVE  LET r == [by |-> by, op |-> Head(jobs).op, want |-> "none"] IN r \in Requests /\ Meant(r)
  <2>1. Head(jobs) \in TileJobs
    BY <1>6 DEF Typed, QueuesTyped
  <2> QED
    BY <2>1 DEF Requests, Meant, TileJobs, Jobs, Wants
<1>7. CASE Destroy
  BY <1>2, <1>3, <1>5, <1>7, Zenon DEF Destroy
<1>8. CASE Connect
  BY <1>3, <1>5, <1>8, Zenon DEF Connect
<1>9. CASE TileConnect \/ TileDestroy
  BY <1>2, <1>3, <1>6, <1>9, Zenon DEF TileConnect, TileDestroy
<1>10. CASE GiveUp \/ TileGivesUp
  BY <1>2, <1>10, Zenon DEF GiveUp, TileGivesUp
<1>11. CASE Serve
  BY <1>1, <1>11, LineServed, Zenon DEF Serve
<1>12. CASE Resume \/ Poll \/ Refresh \/ Press \/ Answer \/ SetMode
  BY <1>1, <1>12, CallbacksAsk, Zenon
<1>13. CASE Pause \/ Create \/ Deliver \/ TileAsks \/ Advance \/ UNCHANGED vars
  BY <1>1, <1>13, Zenon DEF Pause, Create, Deliver, TileAsks, Advance, vars
<1> QED
  BY <1>7, <1>8, <1>9, <1>10, <1>11, <1>12, <1>13, Zenon DEF Next

\* Who waits in the queue after a connection joined, was served or was given up.
LEMMA WaitersAppended ==
  ASSUME NEW l, IsLine(l), Len(l) < MaxLine, NEW r \in Requests, Meant(r), Single(l),
         r.by = "nobody" \/ ~By(l, r.by)
  PROVE  Single(Append(l, r)) /\ \A w : By(Append(l, r), w) => By(l, w) \/ w = r.by
<1> DEFINE a == Append(l, r)
           n == Len(l)
<1>1. Len(a) = n + 1 /\ n \in Nat /\ a[n + 1] = r /\ \A i \in 1 .. n : a[i] = l[i]
  BY LineAppended, Zenon
<1> HIDE DEF a, n
<1>2. \A i \in 1 .. Len(a) : i = n + 1 \/ i \in 1 .. n
  BY <1>1
<1>3. \A i \in 1 .. n : l[i].by = r.by => r.by = "nobody"
  BY Zenon DEF By, n
<1>4. Single(a)
  BY <1>1, <1>2, <1>3, ZenonT(60) DEF Single, n
<1>5. \A w : By(a, w) => By(l, w) \/ w = r.by
  BY <1>1, <1>2, Zenon DEF By, n
<1> QED
  BY <1>4, <1>5, Zenon DEF a

\* Serving a line takes its first waiter out of it and adds none.
LEMMA WaitersServed ==
  ASSUME NEW l, IsLine(l), l # <<>>, Single(l)
  PROVE  /\ Single(Tail(l)) /\ \A w : By(Tail(l), w) => By(l, w) /\ (w = l[1].by => w = "nobody")
         /\ By(l, l[1].by)
<1> DEFINE t == Tail(l)
<1>1. /\ \A i \in 1 .. Len(t) : i + 1 \in 1 .. Len(l) /\ t[i] = l[i + 1]
      /\ 1 \in 1 .. Len(l)
  BY LineServed, Zenon
<1> HIDE DEF t
<1>2. Single(t)
  <2> SUFFICES ASSUME NEW i \in 1 .. Len(t), NEW j \in 1 .. Len(t), t[i].by # "nobody", t[i].by = t[j].by
               PROVE  i = j
    BY DEF Single
  <2>1. /\ i + 1 \in 1 .. Len(l) /\ j + 1 \in 1 .. Len(l)
        /\ l[i + 1].by # "nobody" /\ l[i + 1].by = l[j + 1].by
    BY <1>1
  <2>2. i + 1 = j + 1
    BY <2>1, Zenon DEF Single
  <2> QED
    BY <2>2
<1>3. ASSUME NEW w, By(t, w) PROVE By(l, w) /\ (w = l[1].by => w = "nobody")
  <2>1. PICK i \in 1 .. Len(t) : t[i].by = w
    BY <1>3 DEF By
  <2>2. i + 1 \in 1 .. Len(l) /\ l[i + 1].by = w /\ i + 1 # 1
    BY <1>1, <2>1
  <2> QED
    BY <1>1, <2>2, Zenon DEF By, Single
<1> QED
  BY <1>1, <1>2, <1>3, Zenon DEF t, By

\* A client that goes away no longer waits, and nobody else is disturbed.
LEMMA WaitersAbandoned ==
  ASSUME IsLine(line), Single(line), NEW who
  PROVE  /\ Single(Abandoned(who))
         /\ \A w : By(Abandoned(who), w) => w = "nobody" \/ (w # who /\ By(line, w))
<1> DEFINE a == Abandoned(who)
<1>1. /\ Len(a) = Len(line)
      /\ \A i \in 1 .. Len(line) : a[i].by = IF line[i].by = who THEN "nobody" ELSE line[i].by
  BY LineAbandoned, Zenon
<1> HIDE DEF a
<1>2. Single(a)
  BY <1>1, Zenon DEF Single
<1>3. \A w : By(a, w) => w = "nobody" \/ (w # who /\ By(line, w))
  BY <1>1, Zenon DEF By
<1> QED
  BY <1>2, <1>3, Zenon DEF a

\* Every step keeps the types of the tile and of the broker.
LEMMA QueuesStep ==
  ASSUME Typed, TileInv, [Next]_vars PROVE QueuesTyped'
<1> DEFINE Rest == jobs \in Seq(TileJobs) /\ Len(jobs) <= MaxTile /\ tile \in Shown /\ session \in Session
<1>1. SUFFICES Rest'
  BY <1>1, LineStep, Zenon DEF QueuesTyped
<1>2. Rest
  BY DEF Typed, QueuesTyped
<1>3. ASSUME UNCHANGED <<jobs, tile, session>> PROVE Rest'
  BY <1>2, <1>3
<1>4. ASSUME jobs # <<>>
      PROVE  Tail(jobs) \in Seq(TileJobs) /\ Len(Tail(jobs)) <= MaxTile
  BY <1>2, <1>4, TileAssumption DEF TileAssumption
<1>5. "error" \in Shown
  BY DEF Shown
<1>6. CASE TileAsks
  <2>1. PICK j \in TileJobs : jobs' = Append(jobs, j)
    BY <1>6 DEF TileAsks, TileJobs
  <2>2. Len(jobs) < MaxTile /\ UNCHANGED <<tile, session>>
    BY <1>6 DEF TileAsks
  <2>3. jobs' \in Seq(TileJobs) /\ Len(jobs') <= MaxTile
    BY <1>2, <2>1, <2>2, TileAssumption DEF TileAssumption
  <2> QED
    BY <1>2, <2>2, <2>3
<1>7. CASE TileConnect
  <2>1. jobs # <<>> /\ jobs' = [jobs EXCEPT ![1].st = "waiting"] /\ UNCHANGED <<tile, session>>
    BY <1>7 DEF TileConnect
  <2>2. 1 \in 1 .. Len(jobs) /\ [jobs[1] EXCEPT !.st = "waiting"] \in TileJobs
    <3>1. 1 \in 1 .. Len(jobs) /\ jobs[1] \in TileJobs
      BY <1>2, <2>1
    <3> QED
      BY <3>1 DEF TileJobs
  <2>3. jobs' \in Seq(TileJobs) /\ Len(jobs') = Len(jobs)
    BY <1>2, <2>1, <2>2
  <2> QED
    BY <1>2, <2>1, <2>3
<1>8. CASE TileDestroy
  <2>1. jobs' = <<>> /\ UNCHANGED <<tile, session>>
    BY <1>8 DEF TileDestroy
  <2> QED
    BY <1>2, <2>1, TileAssumption DEF TileAssumption
<1>9. CASE TileGivesUp
  BY <1>2, <1>4, <1>5, <1>9, Zenon DEF TileGivesUp
<1>10. CASE Serve
  <2>1. line # <<>> /\ IsLine(line)
    BY <1>10 DEF Serve, Typed, QueuesTyped
  <2>2. Head(line) = line[1] /\ line[1] \in Requests /\ 1 \in 1 .. Len(line)
    BY <2>1, LineServed, Zenon
  <2>3. line[1].op \in Jobs
    BY <2>2 DEF Requests
  <2>4. PICK o \in Outcome(line[1].op) :
          /\ session' = o[1]
          /\ IF line[1].by = "tile" THEN jobs' = Tail(jobs) /\ tile' = o[1] ELSE UNCHANGED <<jobs, tile>>
    BY <1>10, <2>2, Zenon DEF Serve
  <2>5. o[1] \in Session
    BY <1>2, <2>3, OutcomeShown, Zenon
  <2>6. line[1].by = "tile" => jobs # <<>>
    BY <2>2, Zenon DEF TileInv, WaitingInv, By
  <2>7. o[1] \in Shown
    BY <2>5 DEF Shown
  <2> QED
    BY <1>2, <1>4, <2>4, <2>5, <2>6, <2>7, Zenon
<1>11. CASE Advance
  BY <1>2, <1>11 DEF Advance
<1>12. CASE Resume \/ Poll \/ Refresh \/ Press \/ Answer \/ SetMode
  BY <1>3, <1>12, CallbacksAsk, Zenon
<1>13. CASE Pause \/ Create \/ Deliver \/ Destroy \/ Connect \/ GiveUp \/ UNCHANGED vars
  BY <1>3, <1>13, Zenon DEF Pause, Create, Deliver, Destroy, Connect, GiveUp, vars
<1> QED
  BY <1>6, <1>7, <1>8, <1>9, <1>10, <1>11, <1>12, <1>13, Zenon DEF Next

\* Every step keeps each executor's one connection, whoever gives up, is destroyed
\* or is served.
LEMMA WaitingStep ==
  ASSUME Typed, TileInv, [Next]_vars PROVE WaitingInv'
<1>1. /\ IsLine(line) /\ WaitingInv /\ Single(line) /\ FlightInv
  BY DEF Typed, QueuesTyped, TileInv, WaitingInv
<1>2. \A who : /\ Single(Abandoned(who))
               /\ \A w : By(Abandoned(who), w) => w = "nobody" \/ (w # who /\ By(line, w))
  BY <1>1, WaitersAbandoned, Zenon
<1>3. ASSUME NEW r \in Requests, Meant(r), Len(line) < MaxLine, r.by = "nobody" \/ ~By(line, r.by)
      PROVE  Single(Append(line, r)) /\ \A w : By(Append(line, r), w) => By(line, w) \/ w = r.by
  BY <1>1, <1>3, WaitersAppended, Zenon
<1>4. ASSUME UNCHANGED <<line, jobs>>, job.st = "waiting" => job'.st = "waiting" PROVE WaitingInv'
  BY <1>1, <1>4, Zenon DEF WaitingInv
<1>5. CASE Resume \/ Poll \/ Refresh \/ Press \/ Answer \/ SetMode
  <2>1. AsksOrNot /\ UNCHANGED <<line, jobs>>
    BY <1>5, CallbacksAsk, Zenon
  <2>2. job.st = "waiting" => inFlight
    BY <1>1 DEF FlightInv
  <2>3. job.st = "waiting" => job' = job
    BY <2>1, <2>2, Zenon DEF AsksOrNot
  <2> QED
    BY <1>4, <2>1, <2>3, Zenon
<1>6. CASE Deliver
  BY <1>4, <1>6 DEF Deliver
<1>7. CASE Pause \/ Create \/ Advance \/ UNCHANGED vars
  BY <1>4, <1>7, Zenon DEF Pause, Create, Advance, vars
<1>8. job \in JobSet /\ Meant(job) /\ (job.st = "idle" \/ job.op \in Jobs)
  BY DEF Typed, JobTyped
<1>9. ASSUME NEW by \in {"app", "nobody"}, job.st = "queued"
      PROVE  LET r == [by |-> by, op |-> job.op, want |-> job.want] IN
             r \in Requests /\ Meant(r) /\ r.by = by
  BY <1>8, <1>9 DEF Requests, Meant, JobSet
<1>10. ASSUME NEW by \in {"tile", "nobody"}, jobs # <<>>
       PROVE  LET r == [by |-> by, op |-> Head(jobs).op, want |-> "none"] IN
              r \in Requests /\ Meant(r) /\ r.by = by
  <2>1. Head(jobs) \in TileJobs
    BY <1>10 DEF Typed, QueuesTyped
  <2> QED
    BY <2>1 DEF Requests, Meant, TileJobs, Jobs, Wants
<1>11. jobs \in Seq(TileJobs) /\ (jobs # <<>> => Head(jobs) = jobs[1] /\ 1 \in 1 .. Len(jobs))
  BY DEF Typed, QueuesTyped
<1>12. CASE Destroy
  <2>1. UNCHANGED jobs
    BY <1>12 DEF Destroy
  <2>2. CASE line' = Abandoned("app")
    BY <1>1, <1>2, <2>1, <2>2, Zenon DEF WaitingInv
  <2>3. CASE job.st = "queued" /\ Len(line) < MaxLine
             /\ line' = Append(line, [by |-> "nobody", op |-> job.op, want |-> job.want])
    <3>1. ~By(line, "app")
      BY <1>1, <2>3 DEF WaitingInv
    <3>2. Single(line') /\ \A w : By(line', w) => By(line, w) \/ w = "nobody"
      BY <1>3, <1>9, <2>3, Zenon
    <3> QED
      BY <1>1, <2>1, <3>1, <3>2, Zenon DEF WaitingInv
  <2> QED
    BY <1>12, <2>2, <2>3, Zenon DEF Destroy
<1>13. CASE Connect
  <2>1. /\ job.st = "queued" /\ Len(line) < MaxLine /\ UNCHANGED jobs
        /\ line' = Append(line, [by |-> "app", op |-> job.op, want |-> job.want])
    BY <1>13 DEF Connect
  <2>2. job'.st = "waiting"
    BY <1>8, <1>13 DEF Connect, JobSet
  <2>3. ~By(line, "app")
    BY <1>1, <2>1 DEF WaitingInv
  <2>4. Single(line') /\ \A w : By(line', w) => By(line, w) \/ w = "app"
    BY <1>3, <1>9, <2>1, <2>3, Zenon
  <2> QED
    BY <1>1, <2>1, <2>2, <2>4, Zenon DEF WaitingInv
<1>14. CASE GiveUp
  <2>1. UNCHANGED jobs /\ line' = Abandoned("app")
    BY <1>14 DEF GiveUp
  <2> QED
    BY <1>1, <1>2, <2>1, Zenon DEF WaitingInv
<1>15. CASE TileAsks
  <2>1. PICK j : jobs' = Append(jobs, j)
    BY <1>15 DEF TileAsks
  <2>2. UNCHANGED <<line, job>>
    BY <1>15 DEF TileAsks
  <2>3. jobs # <<>> => jobs' # <<>> /\ jobs'[1] = jobs[1]
    BY <1>11, <2>1
  <2> QED
    BY <1>1, <2>2, <2>3, Zenon DEF WaitingInv
<1>16. CASE TileConnect
  <2>1. /\ jobs # <<>> /\ Head(jobs).st = "queued" /\ Len(line) < MaxLine /\ UNCHANGED job
        /\ jobs' = [jobs EXCEPT ![1].st = "waiting"]
        /\ line' = Append(line, [by |-> "tile", op |-> Head(jobs).op, want |-> "none"])
    BY <1>16 DEF TileConnect
  <2>2. jobs' # <<>> /\ jobs'[1].st = "waiting"
    BY <1>11, <2>1 DEF TileJobs
  <2>3. ~By(line, "tile")
    BY <1>1, <1>11, <2>1 DEF WaitingInv
  <2>4. Single(line') /\ \A w : By(line', w) => By(line, w) \/ w = "tile"
    BY <1>3, <1>10, <2>1, <2>3, Zenon
  <2> QED
    BY <1>1, <2>1, <2>2, <2>4, Zenon DEF WaitingInv
<1>17. CASE TileDestroy
  <2>1. UNCHANGED job /\ jobs # <<>>
    BY <1>17 DEF TileDestroy
  <2>2. CASE line' = Abandoned("tile")
    BY <1>1, <1>2, <2>1, <2>2, Zenon DEF WaitingInv
  <2>3. CASE Head(jobs).st = "queued" /\ Len(line) < MaxLine
             /\ line' = Append(line, [by |-> "nobody", op |-> Head(jobs).op, want |-> "none"])
    <3>1. ~By(line, "tile")
      BY <1>1, <1>11, <2>1, <2>3 DEF WaitingInv
    <3>2. Single(line') /\ \A w : By(line', w) => By(line, w) \/ w = "nobody"
      BY <1>3, <1>10, <2>1, <2>3, Zenon
    <3> QED
      BY <1>1, <2>1, <3>1, <3>2, Zenon DEF WaitingInv
  <2> QED
    BY <1>17, <2>2, <2>3, Zenon DEF TileDestroy
<1>18. CASE TileGivesUp
  <2>1. UNCHANGED job /\ line' = Abandoned("tile")
    BY <1>18 DEF TileGivesUp
  <2> QED
    BY <1>1, <1>2, <2>1, Zenon DEF WaitingInv
<1>19. CASE Serve
  <2>1. line # <<>> /\ line' = Tail(line)
    BY <1>19 DEF Serve
  <2>2. Head(line) = line[1]
    BY <1>1, <2>1, LineServed, Zenon
  <2>3. /\ Single(line')
        /\ \A w : By(line', w) => By(line, w) /\ (w = line[1].by => w = "nobody")
    BY <1>1, <2>1, WaitersServed, Zenon
  <2>4. /\ line[1].by # "app" => UNCHANGED job
        /\ line[1].by # "tile" => UNCHANGED jobs
    BY <1>19, <2>2, Zenon DEF Serve
  <2> QED
    BY <1>1, <2>3, <2>4, Zenon DEF WaitingInv
<1> QED
  BY <1>5, <1>6, <1>7, <1>12, <1>13, <1>14, <1>15, <1>16, <1>17, <1>18, <1>19, Zenon DEF Next

-----------------------------------------------------------------------------
(* The theorems. *)

\* The inductive invariant: each executor waits for one reply at most, a job is
\* one of the activity that asked, and a request or a poll is under way.
THEOREM TileInvariance == Spec => [](Typed /\ TileInv)
<1>1. ASSUME Init PROVE Typed /\ TileInv
  <2> USE DEF Init
  <2>1. ActivityTyped
    <3>1. inFlight \in BOOLEAN /\ dialog \in BOOLEAN
      BY <1>1, Zenon
    <3> QED
      BY <1>1, <3>1 DEF ActivityTyped
  <2>2. JobTyped
    BY <1>1 DEF JobTyped, JobSet, NoJob, Wants, Meant
  <2>3. QueuesTyped
    BY <1>1, TileAssumption DEF TileAssumption, QueuesTyped, IsLine, Shown, Session
  <2>4. WaitingInv /\ FlightInv /\ PollingFollowsScreen
    BY <1>1 DEF WaitingInv, Single, By, FlightInv, PollingFollowsScreen, NoJob
  <2> QED
    BY <2>1, <2>2, <2>3, <2>4, Zenon DEF Typed, TileInv
<1>2. ASSUME Typed, TileInv, [Next]_vars PROVE (Typed /\ TileInv)'
  BY <1>2, ActivityStep, JobStep, QueuesStep, WaitingStep, Zenon DEF Typed, TileInv, FlightInv
<1> QED
  BY <1>1, <1>2, PTL DEF Spec

\* Type correctness of the app and the broker's backlog: at most one poll callback
\* is ever queued on the main thread.
THEOREM TileTypes == Spec => []TypeOK
<1>1. Typed => TypeOK
  <2> SUFFICES ASSUME Typed PROVE TypeOK
    OBVIOUS
  <2>1. inFlight \in BOOLEAN /\ dialog \in BOOLEAN
    BY Zenon DEF Typed, ActivityTyped
  <2> QED
    BY <2>1 DEF Typed, ActivityTyped, JobTyped, QueuesTyped, IsLine, JobSet, Wants, TypeOK
<1> QED
  BY <1>1, TileInvariance, PTL

\* A resumed DiagnosticsActivity always has a request or a poll under way, and one
\* that is not resumed has no poll, for any interleaving of its lifecycle, the
\* executors' replies and the tile.
THEOREM PollingIsAlive == Spec => []PollingFollowsScreen
<1>1. TileInv => PollingFollowsScreen
  BY DEF TileInv
<1> QED
  BY <1>1, TileInvariance, PTL

\* A button does what its label said, however late the broker serves it and
\* whatever the session has become meanwhile.
THEOREM ButtonsKeepTheirWord == Spec => LabelsMeanWhatTheySay
<1>1. ASSUME Typed, Serve
      PROVE  /\ Head(line).want = "arm" => session' = session \/ session' = "armed"
             /\ Head(line).want = "disarm" => session' = "android"
  <2>1. IsLine(line) /\ line # <<>> /\ session \in Session
    BY <1>1 DEF Typed, QueuesTyped, Serve
  <2>2. Head(line) = line[1] /\ Meant(line[1])
    BY <2>1, LineServed, Zenon
  <2>3. PICK o \in Outcome(line[1].op) : session' = o[1]
    BY <1>1, <2>2, Zenon DEF Serve
  <2>4. ASSUME line[1].want = "arm" PROVE session' = session \/ session' = "armed"
    <3>1. line[1].op = "arm"
      BY <2>2, <2>4 DEF Meant
    <3> QED
      BY <2>1, <2>3, <3>1 DEF Outcome, Arming, Session
  <2>5. ASSUME line[1].want = "disarm" PROVE session' = "android"
    <3>1. line[1].op = "disarm"
      BY <2>2, <2>5 DEF Meant
    <3> QED
      BY <2>3, <3>1 DEF Outcome
  <2> QED
    BY <2>2, <2>4, <2>5
<1>2. Typed /\ [Next]_vars
        => [Serve => /\ Head(line).want = "arm" => session' = session \/ session' = "armed"
                     /\ Head(line).want = "disarm" => session' = "android"]_vars
  BY <1>1, Zenon
<1> QED
  BY <1>2, TileInvariance, PTL DEF Spec, LabelsMeanWhatTheySay
=============================================================================
