-------------------------- MODULE ParticipantRunner --------------------------
(***************************************************************************)
(* The participant's session as the runner page drives it: the stages of   *)
(* ParticipantRunnerClient, the lifecycle object that emits raw events,    *)
(* the asynchronous flows that deliver them, read the session state back   *)
(* and move the page on, and the database projection of recorded events on *)
(* the session and its task sessions, with post-task feedback.             *)
(*                                                                         *)
(* Delivery is the abstract EvidenceLog: events are recorded one by one in *)
(* the order of emission, deliver() succeeds only when all are, and may    *)
(* fail at any time.  Several flows are under way at once; each keeps the  *)
(* task its closure was made for.  Reading the state and acting on the     *)
(* reply are separate steps.                                               *)
(***************************************************************************)
EXTENDS Integers, Sequences, FiniteSets, FiniteSetsExt

CONSTANTS
  NumTasks,     \* tasks of the published version, in their order
  Feedback,     \* tasks with post-task questions
  Timed,        \* tasks with a time limit
  Targets,      \* the kinds of target the version may have
  MaxEvents,    \* bound on the events of the session
  MaxFlows,     \* bound on the flows under way at once
  MaxReloads    \* bound on the reloads of the page

Tasks == 1..NumTasks
None == 0

\* A prototype embedded in the runner, one that cannot be embedded, or a site
\* in a window of its own.
TargetKinds == {"embedded", "unavailable", "window"}

ASSUME RunnerAssumption ==
  /\ NumTasks \in Nat \ {0}
  /\ Feedback \subseteq Tasks
  /\ Timed \subseteq Tasks
  /\ Targets \subseteq TargetKinds
  /\ MaxEvents \in Nat \ {0}
  /\ MaxFlows \in Nat \ {0}
  /\ MaxReloads \in Nat

VARIABLES
  target,     \* the kind of target of the version
  log,        \* every raw event emitted, in order
  recorded,   \* how many of them the database has
  status,     \* sessions.status
  outcome,    \* task_sessions: no row, a row without outcome, or its outcome
  derived,    \* derived[i]: derived terminal events of task i
  submitted,  \* tasks with feedback_submitted_at
  stage,      \* what the page shows
  index,      \* its taskIndex
  life,       \* the lifecycle object: activeTask, activeTaskTerminal, sessionTerminal
  flows,      \* asynchronous flows of the page
  reloads     \* times the page was reloaded

serverVars == <<recorded, status, outcome, derived, submitted>>
pageVars == <<stage, index, life, flows, reloads>>
vars == <<target, log, serverVars, pageVars>>

-----------------------------------------------------------------------------

\* An interaction matches the success rule of the task, its failure rule, or neither.
Interactions == {"hit", "miss", "view"}
TaskEnds == {"task_give_up", "task_timeout", "task_technical_blocked"}
SessionEnds == {"session_completed", "session_technical_blocked"}
Event == [type : {"session_started", "task_started"} \cup Interactions \cup TaskEnds \cup SessionEnds,
          task : Tasks \cup {None}]

Outcomes == {"success", "failed", "give_up", "timeout", "technical_blocked"}
Statuses == {"active", "completed", "technical_blocked"}
Stages == {"invalid", "consent", "task-intro", "runner", "give-up-confirm", "feedback",
           "transition", "complete", "technical", "timeout", "recovery"}

\* What GET /api/public/sessions/state answers.
View == [status : Statuses, outcome : [Tasks -> {"none", "open"} \cup Outcomes],
         submitted : SUBSET Tasks]
NoView == [status |-> "active", outcome |-> [i \in Tasks |-> "none"], submitted |-> {}]
CurrentView == [status |-> status, outcome |-> outcome, submitted |-> submitted]

FlowKinds == {"consent", "start", "giveup", "timeout", "continue", "feedback", "finish",
              "check", "bootstrap", "retry", "sync", "poll"}
Flow == [kind : FlowKinds, task : Tasks, at : {"deliver", "post", "fetch", "reply"},
         busy : BOOLEAN, view : View]

\* A flow that starts at await point "at" for the task shown.
Started(kind, at, busy) ==
  [kind |-> kind, task |-> index, at |-> at, busy |-> busy, view |-> NoView]
Room == Cardinality(flows) < MaxFlows
Launch(f) == flows' = flows \cup {f}

\* The page disables its buttons while a participant's own flow is under way.
Working == \E f \in flows : f.busy

Terminal(o) == o \in Outcomes
TaskEvent(type, i) == [type |-> type, task |-> i]
SessionEvent(type) == [type |-> type, task |-> None]

\* Positions of the task_started events of task i.
Starts(i) == {e \in 1..Len(log) : log[e] = TaskEvent("task_started", i)}

-----------------------------------------------------------------------------
(* The database: a raw row and its triggers, one transaction *)

\* The outcome a task's terminal evidence stands for.
OutcomeOf(type) ==
  CASE type = "hit" -> "success"
    [] type = "miss" -> "failed"
    [] type = "task_give_up" -> "give_up"
    [] type = "task_timeout" -> "timeout"
    [] OTHER -> "technical_blocked"

\* (faulty variant) ProjectTask: the last terminal event wins.
ProjectTaskLastWins(e) ==
  outcome' = [i \in Tasks |->
    IF i # e.task THEN outcome[i]
    ELSE IF e.type = "task_started" /\ outcome[i] = "none" THEN "open"
    ELSE IF e.type \in TaskEnds \cup {"hit", "miss"} /\ outcome[i] # "none" THEN OutcomeOf(e.type)
    ELSE outcome[i]]

\* task_started opens the task session, if it has none; the explicit ends and
\* the events derived from a rule match set its outcome, if it has none.
ProjectTask(e) ==
  outcome' = [i \in Tasks |->
    IF i # e.task THEN outcome[i]
    ELSE IF e.type = "task_started" /\ outcome[i] = "none" THEN "open"
    ELSE IF e.type \in TaskEnds \cup {"hit", "miss"} /\ outcome[i] = "open" THEN OutcomeOf(e.type)
    ELSE outcome[i]]

\* A rule match derives a terminal event unless the task has its outcome.
Derive(e) ==
  derived' = [i \in Tasks |->
    IF i = e.task /\ e.type \in {"hit", "miss"} /\ ~Terminal(outcome[i])
    THEN derived[i] + 1 ELSE derived[i]]

ProjectSession(e) ==
  status' = IF status # "active" THEN status
            ELSE IF e.type = "session_completed" THEN "completed"
            ELSE IF e.type = "session_technical_blocked" THEN "technical_blocked"
            ELSE status

\* A session that has ended gets no ingestion token: what the page emits after
\* that (it only can once the end is on record) stays in its outbox.
Record ==
  /\ recorded < Len(log)
  /\ status = "active"
  /\ recorded' = recorded + 1
  /\ LET e == log[recorded + 1] IN ProjectTask(e) /\ Derive(e) /\ ProjectSession(e)
  /\ UNCHANGED <<target, log, submitted, pageVars>>

\* save_post_task_feedback
FeedbackAllowed(i) == status = "active" /\ Terminal(outcome[i])

-----------------------------------------------------------------------------
(* The lifecycle object.  The session is started in every state modelled. *)

\* (faulty variant) Accepts: the task is not looked at.
AcceptsAnyTask(l, i) == ~l.ended

CanStart(l) == ~l.ended /\ (l.active = None \/ l.done)
CanComplete(l) == ~l.ended /\ (l.active = None \/ l.done)
Accepts(l, i) == ~l.ended /\ l.active \in {None, i}
CanEndTask(l) == l.active # None /\ ~l.done /\ ~l.ended

\* rawTaskTerminal: nothing happens unless a task is active.
EndTask(type) ==
  IF CanEndTask(life)
  THEN /\ log' = Append(log, TaskEvent(type, life.active))
       /\ life' = [life EXCEPT !.done = TRUE]
  ELSE UNCHANGED <<log, life>>

\* (faulty variant) Block: the active task is left open.
BlockSessionOnly ==
  IF life.ended THEN UNCHANGED <<log, life>>
  ELSE /\ log' = Append(log, SessionEvent("session_technical_blocked"))
       /\ life' = [life EXCEPT !.ended = TRUE]

\* technicalBlock: the active task ends first.
Block ==
  IF life.ended THEN UNCHANGED <<log, life>>
  ELSE /\ log' = log \o (IF CanEndTask(life)
                         THEN <<TaskEvent("task_technical_blocked", life.active)>> ELSE <<>>)
                     \o <<SessionEvent("session_technical_blocked")>>
       /\ life' = [life EXCEPT !.done = @ \/ CanEndTask(life), !.ended = TRUE]

-----------------------------------------------------------------------------
(* Moving the page on.  rest: the other flows; l: the lifecycle so far. *)

\* finishSession
Finish(f, l, rest) ==
  IF CanComplete(l)
  THEN /\ log' = Append(log, SessionEvent("session_completed"))
       /\ life' = [l EXCEPT !.ended = TRUE]
       /\ flows' = rest \cup {[f EXCEPT !.kind = "finish", !.at = "deliver", !.view = NoView]}
  ELSE /\ flows' = rest \cup {[f EXCEPT !.kind = "check", !.at = "fetch", !.view = NoView]}
       /\ life' = l
       /\ UNCHANGED log

\* moveAfterTerminal for task i
MoveOn(f, i, l, rest) ==
  IF i \in Feedback \ f.view.submitted
  THEN stage' = "feedback" /\ flows' = rest /\ life' = l /\ UNCHANGED log
  ELSE IF i < NumTasks
  THEN stage' = "transition" /\ flows' = rest /\ life' = l /\ UNCHANGED log
  ELSE Finish(f, l, rest) /\ UNCHANGED stage

\* inferStageFromState: the open task started first, or the last of the leading
\* tasks that have an outcome, or the first task.
Infer(f, rest) ==
  LET open == {i \in Tasks : f.view.outcome[i] = "open"}
      first == CHOOSE i \in open : \A j \in open : Min(Starts(i)) <= Min(Starts(j))
      leading == {i \in Tasks : \A j \in 1..i : Terminal(f.view.outcome[j])}
  IN
  CASE f.view.status # "active" ->
         /\ stage' = IF f.view.status = "completed" THEN "complete" ELSE "technical"
         /\ flows' = rest
         /\ UNCHANGED <<log, index, life>>
    [] f.view.status = "active" /\ open # {} ->
         /\ stage' = "runner" /\ index' = first /\ flows' = rest
         /\ UNCHANGED <<log, life>>
    [] f.view.status = "active" /\ open = {} /\ leading # {} ->
         /\ index' = Max(leading)
         /\ MoveOn(f, Max(leading), life, rest)
    [] OTHER ->
         /\ stage' = "task-intro" /\ index' = 1 /\ flows' = rest
         /\ UNCHANGED <<log, life>>

\* syncTerminalState: markTaskTerminal throws for another task than the active.
Sync(f, rest) ==
  LET i == f.task
      marks == ~life.done
  IN
  /\ UNCHANGED index
  /\ IF Terminal(f.view.outcome[i]) /\ (marks => life.active = i)
     THEN MoveOn(f, i, [life EXCEPT !.done = TRUE], rest)
     ELSE flows' = rest /\ UNCHANGED <<log, stage, life>>

-----------------------------------------------------------------------------
(* What the participant, the target and the clock do *)

StartTask ==
  /\ stage = "task-intro" /\ ~Working /\ Room
  /\ IF CanStart(life)
     THEN /\ Len(log) < MaxEvents
          /\ log' = Append(log, TaskEvent("task_started", index))
          /\ life' = [life EXCEPT !.active = index, !.done = FALSE]
     ELSE UNCHANGED <<log, life>>
  /\ Launch(Started("start", "deliver", TRUE))
  /\ UNCHANGED <<target, serverVars, stage, index, reloads>>

\* A bridge hands over an interaction with the target while the runner shows;
\* acceptExternalRaw throws, and nothing is emitted, if the task is another.
Interact(k) ==
  /\ stage = "runner" /\ target # "unavailable" /\ Room
  /\ Accepts(life, index)
  /\ Len(log) < MaxEvents
  /\ log' = Append(log, TaskEvent(k, index))
  /\ Launch(Started("sync", "deliver", FALSE))
  /\ UNCHANGED <<target, serverVars, stage, index, life, reloads>>

\* The embedded target asks for a login or a password.
TargetBlocked ==
  /\ stage = "runner" /\ target = "embedded"
  /\ Len(log) + 1 < MaxEvents
  /\ Block
  /\ stage' = "technical"
  /\ UNCHANGED <<target, serverVars, index, flows, reloads>>

\* The interval that watches for a terminal outcome.
Poll ==
  /\ stage = "runner" /\ target = "window" /\ Room
  /\ Launch(Started("poll", "fetch", FALSE))
  /\ UNCHANGED <<target, log, serverVars, stage, index, life, reloads>>

Online ==
  /\ stage # "invalid" /\ Room
  /\ Launch(Started("sync", "deliver", FALSE))
  /\ UNCHANGED <<target, log, serverVars, stage, index, life, reloads>>

AskGiveUp ==
  /\ stage = "runner"
  /\ stage' = "give-up-confirm"
  /\ UNCHANGED <<target, log, serverVars, index, life, flows, reloads>>

CancelGiveUp ==
  /\ stage = "give-up-confirm"
  /\ stage' = "runner"
  /\ UNCHANGED <<target, log, serverVars, index, life, flows, reloads>>

ConfirmGiveUp ==
  /\ stage = "give-up-confirm" /\ ~Working /\ Room
  /\ Len(log) < MaxEvents
  /\ EndTask("task_give_up")
  /\ Launch(Started("giveup", "deliver", TRUE))
  /\ UNCHANGED <<target, serverVars, stage, index, reloads>>

TimeLimit ==
  /\ stage \in {"runner", "give-up-confirm"} /\ index \in Timed /\ ~life.done /\ Room
  /\ Len(log) < MaxEvents
  /\ EndTask("task_timeout")
  /\ stage' = "timeout"
  /\ Launch(Started("timeout", "deliver", FALSE))
  /\ UNCHANGED <<target, serverVars, index, reloads>>

ContinueFromTimeout ==
  /\ stage = "timeout" /\ Room
  /\ Launch(Started("continue", "deliver", FALSE))
  /\ UNCHANGED <<target, log, serverVars, stage, index, life, reloads>>

SubmitFeedback ==
  /\ stage = "feedback" /\ ~Working /\ Room
  /\ Launch(Started("feedback", "post", TRUE))
  /\ UNCHANGED <<target, log, serverVars, stage, index, life, reloads>>

NextTask ==
  /\ stage = "transition"
  /\ index' = Min({index + 1, NumTasks})
  /\ stage' = "task-intro"
  /\ UNCHANGED <<target, log, serverVars, life, flows, reloads>>

RetryRecovery ==
  /\ stage = "recovery" /\ ~Working /\ Room
  /\ Launch(Started("retry", "deliver", TRUE))
  /\ UNCHANGED <<target, log, serverVars, stage, index, life, reloads>>

\* The page is loaded again: its flows are gone, a feedback request may still
\* arrive, and configureRuntime rebuilds the lifecycle from the session state:
\* the task started last is the active one.
Reload ==
  LET rows == {i \in Tasks : outcome[i] # "none"}
      last == CHOOSE i \in rows : \A j \in rows : Min(Starts(j)) <= Min(Starts(i))
  IN
  /\ reloads < MaxReloads
  /\ reloads' = reloads + 1
  /\ \E late \in SUBSET {f.task : f \in {g \in flows : g.at = "post"}} :
       /\ \A i \in late : FeedbackAllowed(i)
       /\ submitted' = submitted \cup late
  /\ stage' = "recovery"
  /\ index' = 1
  /\ life' = [active |-> IF rows = {} THEN None ELSE last,
              done |-> rows # {} /\ Terminal(outcome[last]),
              ended |-> status # "active"]
  /\ flows' = {[kind |-> "bootstrap", task |-> 1, at |-> "deliver", busy |-> FALSE, view |-> NoView]}
  /\ UNCHANGED <<target, log, recorded, status, outcome, derived>>

-----------------------------------------------------------------------------
(* The awaited replies *)

Recovering == {"consent", "start", "giveup", "timeout", "continue", "finish"}

\* The outbox is empty.
Delivered(f) ==
  LET rest == flows \ {f} IN
  /\ f.at = "deliver" /\ recorded = Len(log)
  /\ CASE f.kind = "consent" ->
            /\ stage' = "task-intro" /\ index' = 1 /\ flows' = rest
            /\ UNCHANGED <<log, life>>
       [] f.kind = "start" ->
            /\ flows' = rest
            /\ IF target # "unavailable" THEN stage' = "runner" /\ UNCHANGED <<log, life>>
               ELSE stage' = "technical" /\ Block
            /\ UNCHANGED index
       [] f.kind = "finish" ->
            /\ stage' = "complete" /\ flows' = rest
            /\ UNCHANGED <<log, index, life>>
       [] OTHER ->
            /\ flows' = rest \cup {[f EXCEPT !.at = "fetch"]}
            /\ UNCHANGED <<log, stage, index, life>>
  /\ UNCHANGED <<target, serverVars, reloads>>

\* (faulty variant) DeliveryFails: a completion that cannot be delivered is ignored.
DeliveryFailsIgnored(f) ==
  /\ f.at = "deliver"
  /\ flows' = flows \ {f}
  /\ stage' = IF f.kind = "finish" THEN "complete"
              ELSE IF f.kind \in Recovering THEN "recovery" ELSE stage
  /\ UNCHANGED <<target, log, serverVars, index, life, reloads>>

\* Offline, or the delivery failed.
DeliveryFails(f) ==
  /\ f.at = "deliver"
  /\ flows' = flows \ {f}
  /\ stage' = IF f.kind \in Recovering THEN "recovery" ELSE stage
  /\ UNCHANGED <<target, log, serverVars, index, life, reloads>>

\* The feedback request reaches the database; the answer may be lost.
SaveFeedback(f) ==
  /\ f.at = "post" /\ FeedbackAllowed(f.task)
  /\ submitted' = submitted \cup {f.task}
  /\ \E next \in {{}, {[f EXCEPT !.at = "fetch"]}} : flows' = (flows \ {f}) \cup next
  /\ UNCHANGED <<target, log, recorded, status, outcome, derived, stage, index, life, reloads>>

\* It is refused, or does not arrive: the questions stay.
FeedbackFails(f) ==
  /\ f.at = "post"
  /\ flows' = flows \ {f}
  /\ UNCHANGED <<target, log, serverVars, stage, index, life, reloads>>

ReadState(f) ==
  /\ f.at = "fetch"
  /\ flows' = (flows \ {f}) \cup {[f EXCEPT !.at = "reply", !.view = CurrentView]}
  /\ UNCHANGED <<target, log, serverVars, stage, index, life, reloads>>

FetchFails(f) ==
  /\ f.at \in {"fetch", "reply"}
  /\ flows' = flows \ {f}
  /\ stage' = IF f.kind = "bootstrap" THEN "invalid"
              ELSE IF f.kind \in Recovering THEN "recovery" ELSE stage
  /\ UNCHANGED <<target, log, serverVars, index, life, reloads>>

\* The page acts on the state it has read.
Act(f) ==
  LET rest == flows \ {f} IN
  /\ f.at = "reply"
  /\ Len(log) < MaxEvents
  /\ CASE f.kind \in {"bootstrap", "retry"} -> Infer(f, rest)
       [] f.kind \in {"giveup", "continue"} ->
            MoveOn(f, f.task, life, rest) /\ UNCHANGED index
       [] f.kind = "feedback" /\ f.task < NumTasks ->
            stage' = "transition" /\ flows' = rest /\ UNCHANGED <<log, index, life>>
       [] f.kind = "feedback" /\ f.task = NumTasks ->
            Finish(f, life, rest) /\ UNCHANGED <<stage, index>>
       [] f.kind \in {"sync", "poll"} -> Sync(f, rest)
       [] f.kind = "check" ->
            /\ stage' = IF f.view.status = "completed" THEN "complete" ELSE stage
            /\ flows' = rest /\ UNCHANGED <<log, index, life>>
       [] f.kind = "timeout" ->
            flows' = rest /\ UNCHANGED <<log, stage, index, life>>
  /\ UNCHANGED <<target, serverVars, reloads>>

-----------------------------------------------------------------------------

\* Consent was accepted: session_started is in the outbox.
Init ==
  /\ target \in Targets
  /\ log = <<SessionEvent("session_started")>>
  /\ recorded = 0
  /\ status = "active"
  /\ outcome = [i \in Tasks |-> "none"]
  /\ derived = [i \in Tasks |-> 0]
  /\ submitted = {}
  /\ stage = "consent"
  /\ index = 1
  /\ life = [active |-> None, done |-> FALSE, ended |-> FALSE]
  /\ flows = {[kind |-> "consent", task |-> 1, at |-> "deliver", busy |-> TRUE, view |-> NoView]}
  /\ reloads = 0

Participant ==
  \/ StartTask
  \/ AskGiveUp
  \/ CancelGiveUp
  \/ ConfirmGiveUp
  \/ ContinueFromTimeout
  \/ SubmitFeedback
  \/ NextTask
  \/ RetryRecovery
  \/ Reload

Environment ==
  \/ \E k \in Interactions : Interact(k)
  \/ TargetBlocked
  \/ Poll
  \/ Online
  \/ TimeLimit

Page(f) ==
  \/ Delivered(f)
  \/ DeliveryFails(f)
  \/ SaveFeedback(f)
  \/ FeedbackFails(f)
  \/ ReadState(f)
  \/ FetchFails(f)
  \/ Act(f)

Next == Participant \/ Environment \/ Record \/ \E f \in flows : Page(f)

Spec == Init /\ [][Next]_vars

-----------------------------------------------------------------------------
(* Properties *)

TypeOK ==
  /\ target \in Targets
  /\ log \in Seq(Event) /\ log # <<>>
  /\ recorded \in 0..Len(log)
  /\ status \in Statuses
  /\ outcome \in [Tasks -> {"none", "open"} \cup Outcomes]
  /\ derived \in [Tasks -> 0..MaxEvents]
  /\ submitted \subseteq Tasks
  /\ stage \in Stages
  /\ index \in Tasks
  /\ life \in [active : Tasks \cup {None}, done : BOOLEAN, ended : BOOLEAN]
  /\ flows \subseteq Flow
  /\ reloads \in 0..MaxReloads

\* Task evidence never precedes the start of its task, whatever the page had
\* to reconstruct after a reload.
NoEvidenceBeforeStart ==
  \A e \in 1..Len(log) :
    log[e].task # None /\ log[e].type # "task_started"
      => \E d \in Starts(log[e].task) : d < e

\* The terminal evidence of task i among the recorded events.
TerminalEvidence(i) ==
  {e \in 1..recorded : log[e].task = i /\ log[e].type \in TaskEnds \cup {"hit", "miss"}}

\* "First valid terminal wins" and "reproducible from accepted raw evidence":
\* the outcome of a task is that of the first terminal event on record.
OutcomesReproducible ==
  \A i \in Tasks :
    outcome[i] = IF \A e \in Starts(i) : e > recorded THEN "none"
                 ELSE IF TerminalEvidence(i) = {} THEN "open"
                 ELSE OutcomeOf(log[Min(TerminalEvidence(i))].type)

\* The thank-you page means that the session is completed: it is not shown on
\* the strength of a completion that is still in the outbox or was refused.
ThankYouMeansCompleted == stage = "complete" => status = "completed"

\* Within one load of the page, a session never ends with a task left open: a
\* block ends the active task first, and completion waits for its end.
EndLeavesNoOpenTask ==
  reloads = 0 /\ status # "active" => \A i \in Tasks : outcome[i] # "open"

\* Within one load of the page, nothing is emitted once the session has ended,
\* whichever flows were still under way.
EndIsLast ==
  reloads = 0 => \A e \in 1..Len(log) : log[e].type \in SessionEnds => e = Len(log)

\* Within one load of the page a session ends with all of its tasks, and for
\* good.
EndIsClean == EndLeavesNoOpenTask /\ EndIsLast

\* What makes these inductive.  A state reply tells of starts that were emitted,
\* and of outcomes and an end that are final.
ViewsArePast ==
  \A f \in flows :
    /\ f.view.status # "active" => f.view.status = status
    /\ \A i \in Tasks :
         /\ f.view.outcome[i] # "none" => Starts(i) # {}
         /\ Terminal(f.view.outcome[i]) => outcome[i] = f.view.outcome[i]

\* A flow only reads the state if it acts on it, and a completion is in the log
\* while it is being delivered.
FlowsOrderly ==
  \A f \in flows :
    /\ f.at = "post" => f.kind = "feedback"
    /\ f.at \in {"fetch", "reply"} => f.kind \notin {"consent", "start", "finish"}
    /\ f.kind = "finish" => \E e \in 1..Len(log) : log[e].type = "session_completed"

\* The session ends with the event recorded last, which says how.
StatusOf == [session_completed |-> "completed", session_technical_blocked |-> "technical_blocked"]
EndIsRecorded ==
  /\ status # "active" => recorded # 0 /\ log[recorded].type \in SessionEnds
  /\ \A e \in 1..recorded : log[e].type \in SessionEnds =>
       e = recorded /\ status = StatusOf[log[e].type]

DerivedOnce == \A i \in Tasks : derived[i] = 0 \/ (derived[i] = 1 /\ Terminal(outcome[i]))

\* The active task was started.  Where there is none on a page that shows the
\* runner, the task shown was, or nothing more is emitted.
Begun == life.ended \/ life.active # None
ActiveHasStarted ==
  /\ life.active # None => Starts(life.active) # {}
  /\ \A f \in flows : f.kind = "start" => Begun
  /\ stage \in {"runner", "give-up-confirm"} => Begun \/ Starts(index) # {}

\* Within one load of the page, a started task other than the open one has its
\* terminal evidence in the log, and the lifecycle has ended iff the log has.
Ends(i) == {e \in 1..Len(log) : log[e].task = i /\ log[e].type \in TaskEnds \cup {"hit", "miss"}}
FirstLoad ==
  /\ life.ended <=> log[Len(log)].type \in SessionEnds
  /\ life.ended => life.active = None \/ life.done
  /\ \A i \in Tasks : Starts(i) # {} => Ends(i) # {} \/ (life.active = i /\ ~life.done)

RunnerInv ==
  /\ NoEvidenceBeforeStart /\ OutcomesReproducible /\ ThankYouMeansCompleted
  /\ ViewsArePast /\ FlowsOrderly /\ EndIsRecorded /\ DerivedOnce /\ ActiveHasStarted
  /\ EndIsLast /\ (reloads = 0 => FirstLoad)

(* Expectations of the documentation that the code does not meet *)

\* docs/user-flows.md, "Runner - start task, ... collect supported canonical
\* evidence": the runner shows a task only when its start is evidence.
RunnerHasStarted == stage = "runner" => Starts(index) # {}

\* docs/use-cases.md UC-03, giving up gives the task the outcome give_up: a task
\* the page has moved on from has its outcome.
FeedbackFollowsOutcome == stage \in {"feedback", "transition"} => Terminal(outcome[index])

\* docs/user-flows.md, "Next task - repeat intro/runner for additional tasks": no
\* task is left out.
NoTaskSkipped == \A i \in Tasks : Starts(i) # {} => \A j \in 1..i : Starts(j) # {}
=============================================================================
