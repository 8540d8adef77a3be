----------------------------- MODULE TileClient -----------------------------
(***************************************************************************)
(* The control app: DiagnosticsActivity with its poll, the Quick Settings  *)
(* tile, and the broker's queue of connections between them.               *)
(*                                                                         *)
(* Each of the two has an executor of one thread that makes the blocking   *)
(* requests of BrokerClient; the activity's replies are posted to the main *)
(* thread.  A request that timed out stays in the broker's queue.  What a  *)
(* Status says is abstracted to the session, or to "error" for a result    *)
(* other than 0; "none" is the screen before the first reply.  The build   *)
(* and dump gates of the broker are open.                                  *)
(***************************************************************************)
EXTENDS Naturals, Sequences

CONSTANTS MaxTile,   \* bound on the jobs of the tile's executor
          MaxLine    \* bound on the connections in the broker's backlog

ASSUME TileAssumption == MaxTile \in Nat \ {0} /\ MaxLine \in Nat \ {0}

VARIABLES
  life,       \* of the activity; "gone" after onDestroy
  inFlight,
  polls,      \* poll callbacks on the main thread's queue
  screen,     \* status
  dialog,     \* "Return HDMI to Android?" is open
  job,        \* what the activity's executor does
  jobs,       \* the tile's executor
  tile,       \* what the tile shows
  line,       \* the connections that the broker has not served
  session     \* the broker: active_ and armed_

activity == <<life, inFlight, polls, screen, dialog>>
vars == <<activity, job, jobs, tile, line, session>>

Session == {"android", "armed", "leased"}
Shown == Session \cup {"error"}
\* The queue once `who' no longer waits for its reply.
Abandoned(who) ==
  [i \in 1 .. Len(line) |-> IF line[i].by = who THEN [line[i] EXCEPT !.by = "nobody"] ELSE line[i]]

NoJob == [st |-> "idle", op |-> "none", want |-> "none", reply |-> "none"]

Init ==
  /\ life = "paused" /\ inFlight = FALSE /\ polls = 0 /\ screen = "none" /\ dialog = FALSE
  /\ job = NoJob /\ jobs = <<>> /\ tile = "error" /\ line = <<>> /\ session = "android"

----------------------------------------------------------------------------
(* DiagnosticsActivity, on the main thread.                                *)

\* Mutant: the poll stays on the queue.
IssueKeepsPoll(op, want) ==
  /\ inFlight' = TRUE /\ UNCHANGED polls
  /\ job' = [st |-> "queued", op |-> op, want |-> want, reply |-> "none"]

\* The body of request; `want' is what the user was told that the button does.
Issue(op, want) ==
  /\ inFlight' = TRUE /\ polls' = 0
  /\ job' = [st |-> "queued", op |-> op, want |-> want, reply |-> "none"]

Request(op, want) ==
  IF inFlight \/ life # "resumed" THEN UNCHANGED <<inFlight, polls, job>> ELSE Issue(op, want)

\* Mutant: onResume leaves it to the poll.
ResumeWaits ==
  /\ life = "paused" /\ life' = "resumed"
  /\ UNCHANGED <<inFlight, polls, job, screen, dialog, jobs, tile, line, session>>

\* onResume: `resumed' is set before the request.
Resume ==
  /\ life = "paused" /\ life' = "resumed"
  /\ IF inFlight THEN UNCHANGED <<inFlight, polls, job>> ELSE Issue("status", "none")
  /\ UNCHANGED <<screen, dialog, jobs, tile, line, session>>

Pause ==
  /\ life = "resumed" /\ life' = "paused" /\ polls' = 0
  /\ UNCHANGED <<inFlight, screen, dialog, job, jobs, tile, line, session>>

\* onDestroy: shutdownNow does not take back a request that is being made, and
\* nobody reads its reply.
Destroy ==
  /\ life = "paused" /\ life' = "gone" /\ polls' = 0 /\ dialog' = FALSE
  /\ \E sent \in BOOLEAN :
       line' = IF sent /\ job.st = "queued" /\ Len(line) < MaxLine
               THEN Append(line, [by |-> "nobody", op |-> job.op, want |-> job.want])
               ELSE Abandoned("app")
  /\ job' = NoJob
  /\ UNCHANGED <<inFlight, screen, jobs, tile, session>>

\* onCreate of the next instance.
Create ==
  /\ life = "gone" /\ life' = "paused" /\ inFlight' = FALSE /\ screen' = "none"
  /\ UNCHANGED <<polls, dialog, job, jobs, tile, line, session>>

\* The poll callback, and the Refresh button.
Poll ==
  /\ polls > 0 /\ life = "resumed"
  /\ IF inFlight
     THEN polls' = polls - 1 /\ UNCHANGED <<inFlight, job>>
     ELSE Request("status", "none")
  /\ UNCHANGED <<life, screen, dialog, jobs, tile, line, session>>

Refresh ==
  /\ life = "resumed" /\ ~inFlight /\ Request("status", "none")
  /\ UNCHANGED <<life, screen, dialog, jobs, tile, line, session>>

\* ControlState.from.  Its "PLEASE WAIT" screen needs a state that no reply holds:
\* the broker serves no client while probing_ is set, and sets no other of these.
CanAct == screen \in Session
Stop == screen \in {"armed", "leased"}
CanSetMode == screen = "android"

\* Mutant: one operation for both labels of the button.
OperationToggles(want) == "toggle"

\* "Explicit operations prevent a stale screen from toggling a session".
Operation(want) == want

\* act.
Press ==
  /\ life = "resumed" /\ ~dialog /\ ~inFlight /\ CanAct
  /\ IF screen = "leased"
     THEN dialog' = TRUE /\ UNCHANGED <<inFlight, polls, job>>
     ELSE /\ UNCHANGED dialog
          /\ LET want == IF Stop THEN "disarm" ELSE "arm"
             IN  Request(Operation(want), want)
  /\ UNCHANGED <<life, screen, jobs, tile, line, session>>

\* The two buttons of the dialog; request drops a disarm that meets a poll.
Answer ==
  /\ life = "resumed" /\ dialog /\ dialog' = FALSE
  /\ \/ Request(Operation("disarm"), "disarm")
     \/ UNCHANGED <<inFlight, polls, job>>
  /\ UNCHANGED <<life, screen, jobs, tile, line, session>>

SetMode ==
  /\ life = "resumed" /\ ~dialog /\ ~inFlight /\ CanSetMode /\ Request("mode", "none")
  /\ UNCHANGED <<life, screen, dialog, jobs, tile, line, session>>

\* Mutant: the chain of polls ends with the first reply.
NextPollNever == UNCHANGED polls

\* postDelayed at the end of the reply's callback.
NextPoll == polls' = IF life = "resumed" THEN polls + 1 ELSE polls

\* The callback that request posts.
Deliver ==
  /\ life # "gone" /\ job.st = "posted"
  /\ inFlight' = FALSE /\ screen' = job.reply /\ job' = NoJob
  /\ NextPoll
  /\ UNCHANGED <<life, dialog, jobs, tile, line, session>>

----------------------------------------------------------------------------
(* BrokerClient.request on the executors, and HdmiTileService.             *)

Connect ==
  /\ job.st = "queued" /\ Len(line) < MaxLine
  /\ job' = [job EXCEPT !.st = "waiting"]
  /\ line' = Append(line, [by |-> "app", op |-> job.op, want |-> job.want])
  /\ UNCHANGED <<activity, jobs, tile, session>>

\* The socket's timeout of 40 seconds, or no broker to connect to.  The broker
\* still serves what it has.
GiveUp ==
  /\ job.st \in {"queued", "waiting"}
  /\ job' = [job EXCEPT !.st = "posted", !.reply = "error"]
  /\ line' = Abandoned("app")
  /\ UNCHANGED <<activity, jobs, tile, session>>

\* onClick and onStartListening queue their requests without a limit.
TileAsks ==
  /\ Len(jobs) < MaxTile
  /\ \E op \in {"status", "toggle"} : jobs' = Append(jobs, [st |-> "queued", op |-> op])
  /\ UNCHANGED <<activity, job, tile, line, session>>

TileConnect ==
  /\ jobs # <<>> /\ Head(jobs).st = "queued" /\ Len(line) < MaxLine
  /\ jobs' = [jobs EXCEPT ![1].st = "waiting"]
  /\ line' = Append(line, [by |-> "tile", op |-> Head(jobs).op, want |-> "none"])
  /\ UNCHANGED <<activity, job, tile, session>>

\* onDestroy: the requests that wait are dropped, the one being made is not.
TileDestroy ==
  /\ jobs # <<>> /\ jobs' = <<>>
  /\ \E sent \in BOOLEAN :
       line' = IF sent /\ Head(jobs).st = "queued" /\ Len(line) < MaxLine
               THEN Append(line, [by |-> "nobody", op |-> Head(jobs).op, want |-> "none"])
               ELSE Abandoned("tile")
  /\ UNCHANGED <<activity, job, tile, session>>

TileGivesUp ==
  /\ jobs # <<>> /\ jobs' = Tail(jobs) /\ tile' = "error" /\ line' = Abandoned("tile")
  /\ UNCHANGED <<activity, job, session>>

----------------------------------------------------------------------------
(* The broker.                                                             *)

Arming == {<<"armed", "armed">>, <<"android", "error">>}

\* AcceptClient, Arm and the two ways to end: the next session and the reply.
Outcome(op) ==
  CASE op = "arm" /\ session = "android" -> Arming
    [] op = "arm" /\ session = "armed" -> {<<"armed", "armed">>}
    [] op = "arm" /\ session = "leased" -> {<<"leased", "error">>}
    [] op = "disarm" -> {<<"android", "android">>}
    [] op = "toggle" -> IF session = "android" THEN Arming ELSE {<<"android", "android">>}
    [] op = "mode" -> {<<session, "error">>}
                        \cup (IF session = "android" THEN {<<session, session>>} ELSE {})
    [] op = "status" -> {<<session, session>>}

Serve ==
  /\ line # <<>> /\ line' = Tail(line)
  /\ \E o \in Outcome(Head(line).op) :
       /\ session' = o[1]
       /\ job' = IF Head(line).by = "app"
                 THEN [job EXCEPT !.st = "posted", !.reply = o[2]] ELSE job
       /\ IF Head(line).by = "tile"
          THEN jobs' = Tail(jobs) /\ tile' = o[1] ELSE UNCHANGED <<jobs, tile>>
  /\ UNCHANGED activity

\* What changes the session besides: AdvanceArmed, Release, and root's client.
\* Release leaves nothing armed.
Advance ==
  /\ session' \in Session \ {session}
  /\ session = "leased" => session' = "android"
  /\ UNCHANGED <<activity, job, jobs, tile, line>>

Next ==
  \/ Resume \/ Pause \/ Destroy \/ Create \/ Poll \/ Refresh \/ Press \/ Answer \/ SetMode
  \/ Deliver \/ Connect \/ GiveUp \/ TileAsks \/ TileConnect \/ TileDestroy \/ TileGivesUp
  \/ Serve \/ Advance

Spec == Init /\ [][Next]_vars

\* The main thread's queue, its timer, the executor and the broker's loop.
FairSpec ==
  /\ Spec
  /\ WF_vars(Poll) /\ WF_vars(Deliver) /\ WF_vars(Connect) /\ WF_vars(Serve)

----------------------------------------------------------------------------
(* Properties.                                                             *)

Jobs == {"status", "mode", "arm", "disarm", "toggle"}

TypeOK ==
  /\ life \in {"resumed", "paused", "gone"} /\ inFlight \in BOOLEAN /\ dialog \in BOOLEAN
  /\ polls \in 0 .. 1 /\ screen \in Shown \cup {"none"} /\ tile \in Shown
  /\ job \in [st : {"idle", "queued", "waiting", "posted"}, op : Jobs \cup {"none"},
              want : {"none", "arm", "disarm"}, reply : Shown \cup {"none"}]
  /\ Len(jobs) <= MaxTile /\ Len(line) <= MaxLine /\ session \in Session

\* The screen never stops being refreshed, and never refreshes in the
\* background: while the activity is resumed a request or a poll is under way,
\* in whatever order replies, pauses and resumes come, and while it is not no
\* poll is queued ("Background polling stops when the activity is paused").
PollingFollowsScreen ==
  /\ life = "resumed" => inFlight \/ polls = 1
  /\ life # "resumed" => polls = 0

\* A button does what its label said when it was pressed, also when the tile or
\* the broker changed the session meanwhile and when the app gave up on the
\* request: Arm never ends a session, and Disarm and Return to Android never
\* start one ("a stale screen cannot invert the user's intended operation").
LabelsMeanWhatTheySay ==
  [][Serve => /\ Head(line).want = "arm" => session' = session \/ session' = "armed"
              /\ Head(line).want = "disarm" => session' = "android"]_vars

\* A resumed screen catches up with a session that rests, whoever changed it,
\* unless requests fail for ever or the broker's backlog is full again and again
\* ("the foreground app should catch up on its next refresh").
ScreenCatchesUp ==
  \A s \in Session :
    /\ <>[](life = "resumed" /\ session = s)
    /\ ~[]<><<GiveUp>>_vars /\ ~[]<>(Len(line) = MaxLine)
    => []<>(screen = s)

=============================================================================
