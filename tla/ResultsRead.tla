----------------------------- MODULE ResultsRead -----------------------------
(***************************************************************************)
(* The results page reading a published version while participants are     *)
(* recorded: results-store.ts asks for events and sessions side by side,   *)
(* pages the events by offset in the order of occurred_at and received_at, *)
(* then asks for the answers of the sessions it got.  Every request sees   *)
(* the tables of its own moment.                                           *)
(*                                                                         *)
(* The writer stores one raw event at a time, with what the triggers       *)
(* derive (TaskProjection has the transactions); a session delivers in     *)
(* order, but two sessions deliver late or early with respect to each      *)
(* other, so rows are inserted anywhere in the order of pages.             *)
(***************************************************************************)
EXTENDS Results

CONSTANTS
  PageSize,
  Scenarios     \* what may happen to a version:
                \* people      - bound on its participants
                \* signals     - what they may do in a task: [type, screen, point, handled]
                \* maxRaw      - bound on the raw events of all sessions
                \* maxAt       - bound on the participants' clocks
                \* clocksStep  - whether a participant's clock may be set back
                \* purging     - whether expired sessions may be purged
                \* reading     - whether the page is opened

(* What the target and its bridge tell of a participant in a task.         *)
Interactions == {"screen_view", "pointer_interaction", "completion_signal"}

ASSUME ReadAssumption ==
  /\ PageSize \in Nat \ {0}
  /\ \A x \in Scenarios : /\ {x.people, x.maxRaw, x.maxAt} \subseteq Nat
                          /\ {x.clocksStep, x.purging, x.reading} \subseteq BOOLEAN
                          /\ \A g \in x.signals : g.type \in Interactions
  /\ None \notin Nat /\ None \notin Tasks /\ None \notin TaskOutcomes
  /\ ScreenFunnel \in Seq(Screens)
  /\ \A i, j \in DOMAIN ScreenFunnel : ScreenFunnel[i] = ScreenFunnel[j] => i = j

VARIABLES
  scenario,   \* fixed
  rows,       \* the events table, in the order of insertion
  task,       \* task_sessions
  session,    \* sessions: "none" before there is one, "purged" after
  answers,
  place,      \* of each session, the task its participant is in, or None
  toDo,       \* of each session, the tasks to come
  clock,      \* of each session, the time of its last event
  count,      \* of each session, its raw events
  nextId,
  reader      \* the request under way

tables == <<rows, task, session, answers>>
writer == <<place, toDo, clock, count, nextId>>
readVars == <<scenario, tables, writer, reader>>

Closed == [step |-> "closed", offset |-> 0, got |-> <<>>, sessions |-> None,
           answers |-> {}, rowsBefore |-> {}, answersBefore |-> {}]

ReadInit ==
  /\ scenario \in Scenarios
  /\ rows = <<>> /\ answers = {}
  /\ task = [a \in Sessions \X Tasks |-> NoRow]
  /\ session = [s \in Sessions |-> "none"]
  /\ place = [s \in Sessions |-> None]
  /\ toDo = [s \in Sessions |-> Tasks]
  /\ clock = [s \in Sessions |-> 0]
  /\ count = [s \in Sessions |-> 0]
  /\ nextId = 1
  /\ reader = Closed
-----------------------------------------------------------------------------
(* A table without that constraint (faulty variant).                       *)
BreaksNothing(row) == FALSE

(* check (ended_at is null or ended_at >= started_at) on task_sessions.    *)
BreaksCheck(row) == row.ended # None /\ row.ended < row.startedAt

(* task_sessions after the derived rows: at most one of them is a terminal.*)
ProjectDerived(row, derived) ==
  IF \E d \in Elements(derived) : OutcomeOf(d) # None
  THEN ProjectTask(row, CHOOSE d \in Elements(derived) : OutcomeOf(d) # None)
  ELSE row

Commit(s, e, derived, row) ==
  /\ e.task # None => ~BreaksCheck(row)
  /\ rows' = rows \o <<e>> \o derived
  /\ nextId' = nextId + 1 + Len(derived)
  /\ task' = IF e.task = None THEN task ELSE [task EXCEPT ![<<s, e.task>>] = row]
  /\ session' = IF EndsSession(session[s], e)
                THEN [session EXCEPT ![s] = SessionEnd[e.type]] ELSE session
  /\ clock' = [clock EXCEPT ![s] = e.at]
  /\ count' = [count EXCEPT ![s] = @ + 1]

CommitDerived(s, e, derived, first) == Commit(s, e, derived, ProjectDerived(first, derived))

StoreRow(s, e, first) ==
  CommitDerived(s, e, Derived(rows \o <<e>>, e, first.outcome # None, nextId + 1), first)

(* One raw event of session s is stored with all that follows from it.     *)
Store(s, t, signal, at) ==
  LET e == RawRow(nextId, signal.type, s, t, signal.screen,
                  IF signal.type \in {"screen_view", "pointer_interaction"}
                  THEN "prototype_adapter" ELSE "runner",
                  count[s] + 1, at, signal.point, signal.handled)
  IN  /\ SumOver(Sessions, LAMBDA p : count[p]) < scenario.maxRaw
      /\ StoreRow(s, e, IF t = None THEN NoRow ELSE ProjectTask(task[<<s, t>>], e))

Times(s) == (IF scenario.clocksStep THEN 0 ELSE clock[s]) .. scenario.maxAt

Plain(type) == [type |-> type, screen |-> None, point |-> None, handled |-> None]

Enter(s) ==
  /\ session[s] = "none"
  /\ Cardinality({p \in Sessions : session[p] # "none"}) < scenario.people
  /\ session' = [session EXCEPT ![s] = "active"]
  /\ UNCHANGED <<scenario, rows, task, answers, writer, reader>>

StartSession(s) ==
  /\ session[s] = "active" /\ count[s] = 0
  /\ \E at \in Times(s) : Store(s, None, Plain("session_started"), at)
  /\ UNCHANGED <<scenario, answers, place, toDo, reader>>

StartTask(s) ==
  /\ session[s] = "active" /\ count[s] > 0 /\ place[s] = None
  /\ \E t \in toDo[s], at \in Times(s) :
       /\ Store(s, t, Plain("task_started"), at)
       /\ place' = [place EXCEPT ![s] = t]
       /\ toDo' = [toDo EXCEPT ![s] = @ \ {t}]
  /\ UNCHANGED <<scenario, answers, reader>>

(* Interaction goes on after the task is decided, until the page is left.  *)
Act(s) ==
  /\ place[s] # None
  /\ \E signal \in scenario.signals, at \in Times(s) : Store(s, place[s], signal, at)
  /\ UNCHANGED <<scenario, answers, place, toDo, reader>>

EndTask(s) ==
  /\ place[s] # None
  /\ \E type \in DOMAIN RawTerminal, at \in Times(s) : Store(s, place[s], Plain(type), at)
  /\ place' = [place EXCEPT ![s] = None]
  /\ UNCHANGED <<scenario, answers, toDo, reader>>

(* The page shows the outcome; the participant goes on, with the answer to *)
(* the SEQ question or without.  save_post_task_feedback stores the answer *)
(* under the field `response'.                                             *)
Continue(s) ==
  /\ place[s] # None /\ task[<<s, place[s]>>].outcome # None
  /\ place' = [place EXCEPT ![s] = None]
  /\ UNCHANGED <<scenario, tables, toDo, clock, count, nextId, reader>>

Answer(s) ==
  /\ session[s] = "active" /\ place[s] = None
  /\ \E t \in Tasks :
       /\ task[<<s, t>>].outcome # None
       /\ answers' = answers \cup {[session |-> s, task |-> t, key |-> "seq",
                                    field |-> "response", score |-> 5]}
  /\ answers' # answers
  /\ UNCHANGED <<scenario, rows, task, session, writer, reader>>

EndSession(s) ==
  /\ session[s] = "active" /\ count[s] > 0 /\ place[s] = None
  /\ \E at \in Times(s) : Store(s, None, Plain("session_completed"), at)
  /\ UNCHANGED <<scenario, answers, place, toDo, reader>>

(* purge_expired_sessions: the session and, by cascade, all that is its.   *)
Purge(s) ==
  /\ scenario.purging /\ session[s] = "completed"
  /\ session' = [session EXCEPT ![s] = "purged"]
  /\ rows' = KeepAt(rows, {i \in DOMAIN rows : rows[i].session # s})
  /\ task' = [a \in DOMAIN task |-> IF a[1] = s THEN NoRow ELSE task[a]]
  /\ answers' = {x \in answers : x.session # s}
  /\ UNCHANGED <<scenario, writer, reader>>
-----------------------------------------------------------------------------
(* The order of the pages; received_at is the order of the ids.            *)
Earlier(d, e) == d.at < e.at \/ (d.at = e.at /\ d.id < e.id)

PlaceOf(e, table) == Cardinality({d \in Elements(table) : d = e \/ Earlier(d, e)})

InPageOrder(table) ==
  [k \in DOMAIN table |-> CHOOSE e \in Elements(table) : PlaceOf(e, table) = k]

(* The second page on starts a row too late (faulty variant).              *)
PageAfterGap(offset) ==
  LET table == InPageOrder(rows)
      start == IF offset = 0 THEN 1 ELSE offset + 2
  IN  SubSeq(table, start, IF offset + PageSize < Len(table)
                           THEN offset + PageSize ELSE Len(table))

Page(offset) ==
  LET table == InPageOrder(rows)
  IN  SubSeq(table, offset + 1, IF offset + PageSize < Len(table)
                                THEN offset + PageSize ELSE Len(table))

Open ==
  /\ scenario.reading /\ reader.step = "closed"
  /\ reader' = [Closed EXCEPT !.step = "events", !.rowsBefore = Elements(rows),
                              !.answersBefore = answers]
  /\ UNCHANGED <<scenario, tables, writer>>

ReadEvents ==
  /\ reader.step = "events"
  /\ LET page == Page(reader.offset)
     IN  reader' = [reader EXCEPT
           !.got = @ \o page, !.offset = @ + PageSize,
           !.step = IF Len(page) < PageSize THEN "answers" ELSE "events"]
  /\ UNCHANGED <<scenario, tables, writer>>

(* The list of sessions, read in one page while the events are read.       *)
ReadSessions ==
  /\ reader.step \in {"events", "answers"} /\ reader.sessions = None
  /\ reader' = [reader EXCEPT !.sessions = {s \in Sessions : session[s] \notin {"none", "purged"}}]
  /\ UNCHANGED <<scenario, tables, writer>>

ReadAnswers ==
  /\ reader.step = "answers" /\ reader.sessions # None
  /\ reader' = [reader EXCEPT !.step = "done",
                  !.answers = {x \in answers : x.session \in reader.sessions}]
  /\ UNCHANGED <<scenario, tables, writer>>

Write(s) == Enter(s) \/ StartSession(s) \/ StartTask(s) \/ Act(s) \/ EndTask(s)
            \/ Continue(s) \/ Answer(s) \/ EndSession(s) \/ Purge(s)

Read == Open \/ ReadEvents \/ ReadSessions \/ ReadAnswers

ReadNext == (\E s \in Sessions : Write(s)) \/ Read

ReadSpec == ReadInit /\ [][ReadNext]_readVars
-----------------------------------------------------------------------------
Steps == {"closed", "events", "answers", "done"}

ReadTypeOK ==
  /\ \A i \in DOMAIN rows : rows[i].id \in 1 .. (nextId - 1) /\ rows[i].session \in Sessions
  /\ \A i, j \in DOMAIN rows : rows[i].id = rows[j].id => i = j
  /\ session \in [Sessions -> {"none", "active", "purged"} \cup {SessionEnd[x] : x \in DOMAIN SessionEnd}]
  /\ place \in [Sessions -> Tasks \cup {None}]
  /\ count \in [Sessions -> Nat] /\ clock \in [Sessions -> 0 .. scenario.maxAt]
  /\ reader.step \in Steps /\ reader.offset \in Nat

Table == InPageOrder(rows)

(* The reader writes nothing: what is said of the tables alone is said     *)
(* before the page is opened.                                              *)
Unread == reader.step = "closed"

Decided == {a \in Attempts(rows) : OutcomeForTask(AttemptRows(rows, a[1], a[2])) # None}

(* What the triggers store can be aggregated: no derived row lacks its     *)
(* evidence and, even if a clock is set back, no task of the table ends    *)
(* before it starts - one such row would take the results of the whole     *)
(* version down.                                                           *)
ResultsComputed == Unread => CanAggregate(Table)

(* The outcome of an attempt is worked out four times: by the projection,  *)
(* the aggregation, the paths and session details, and the heatmap.  They  *)
(* agree.                                                                  *)
OutcomesAgree ==
  \A a \in Attempts(rows) :
    LET o == Instance(rows, a[1], a[2]).outcome
    IN  /\ OutcomeForTask(AttemptRows(rows, a[1], a[2])) = o
        /\ HeatmapOutcome(rows, a[1], a[2]) = o
        /\ task[a].outcome = o

(* As long as clocks go forward, the timeline of a session puts what was   *)
(* derived right with what it was derived from, and its detail ends the    *)
(* way the sessions table says.                                            *)
TimelineTellsStory ==
  \A s \in SessionsOf(rows) :
    LET detail == SessionDetail(Table, answers, s)
        line == detail.timeline
    IN  /\ \A i, j \in DOMAIN line : i < j => Anchor(line, line[i]) <= Anchor(line, line[j])
        /\ detail.terminal = (IF session[s] = "active" THEN None ELSE session[s])

(* Results from the evidence a metric is traced to are the same: nothing   *)
(* else went into it.                                                      *)
TraceReproducesMetric ==
  \A m \in Analytics(Table).tasks :
    LET only(ids) == KeepAt(Table, {k \in DOMAIN Table : Table[k].id \in ids})
        again(ids) == TaskMetric(only(ids), m.task)
    IN  /\ again(m.trace.completion).outcomes = m.outcomes
        /\ again(m.trace.completion).eligible = m.eligible
        /\ again(m.trace.timeOnTask).durations = m.durations

(* What is shown as available has evidence behind it, so that the page     *)
(* never has to take an available number back.                             *)
AvailableHasEvidence ==
  \A m \in Analytics(Table).tasks :
    LET o == TaskObservations(m)
    IN  \A k \in DOMAIN o :
          /\ Presented(o[k]) = o[k].availability
          /\ o[k].availability = "Available" => o[k].refs \subseteq Ids(rows)

(* Counted by task, by session and over all, the attempts are the same.    *)
AddUp(a, all) ==
  LET bySession(f(_)) == SumOver(a.sessions, f)
  IN  /\ SumOver(a.tasks, LAMBDA m : m.started) = bySession(LAMBDA x : x.taskStarted)
      /\ all.eligible = bySession(LAMBDA x : x.eligible)
      /\ all.technicalBlocked = bySession(LAMBDA x : x.technicalBlocked)
      /\ all.duration.sample = bySession(LAMBDA x : x.successful)
      /\ all.duration.sample > 0 => /\ all.duration.median <= all.duration.p75
                                    /\ all.duration.p75 <= all.duration.p90

TotalsAddUp(a) == AddUp(a, Totals(a))

CountsAgree == TotalsAddUp(Analytics(Table))

(* The time a task took is the same in the task metrics and in the time    *)
(* metrics, which end it by other rules, as long as clocks go forward.     *)
DurationsAgree ==
  \A a \in Attempts(rows) :
    TimeMetrics(rows, a[1], a[2]).timeOnTask = Instance(rows, a[1], a[2]).duration

(* Screen times can be worked out as long as clocks go forward.  Refuted: a*)
(* screen viewed after the task is decided is left before it is entered.   *)
ScreensTimed ==
  \A a \in Attempts(rows) : ~TimeMetrics(rows, a[1], a[2]).fails

(* Misclicks are among the pointer events they are a share of, and the     *)
(* heatmap, filtered by outcome, shows every point of a task exactly once. *)
PointersAddUp ==
  /\ \A m \in Analytics(Table).tasks : m.misclicks <= m.pointers
  /\ LET heatmap == Heatmap(Table)
         shown(o) == Len(Filtered(heatmap, None, None, o))
         decided == SumOver(TaskOutcomes, shown)
         open == Count(heatmap.points, LAMBDA p : p.outcome = None)
     IN  Len(heatmap.points) = decided + open

(* Every view of the tables tells the same story; where times go into it,  *)
(* unless a clock was set back.                                            *)
ViewsAgree ==
  Unread => /\ OutcomesAgree /\ CountsAgree /\ PointersAddUp
            /\ scenario.clocksStep \/ (TimelineTellsStory /\ DurationsAgree)

(* Outcomes, eligible attempts and times can be traced to evidence that    *)
(* reproduces them, and no number is shown as available without evidence.  *)
(* Misclicks and bursts are only counted: their traces are not aggregated. *)
NumbersTraced == Unread => TraceReproducesMetric /\ AvailableHasEvidence

(* The greedy progress through the funnel is the longest prefix of its     *)
(* screens the path visits in this order.                                  *)
Visits(path, screens) ==
  \E at \in [DOMAIN screens -> DOMAIN path] :
    /\ \A n \in DOMAIN screens : path[at[n]] = screens[n]
    /\ \A m, n \in DOMAIN screens : m < n => at[m] < at[n]

FunnelIsLongestPrefix ==
  Unread => \A s \in SessionsOf(rows) :
    LET path == SessionPath(rows, s)
    IN  Progress(path, ScreenFunnel) =
          Max({n \in 0 .. Len(ScreenFunnel) : Visits(path, SubSeq(ScreenFunnel, 1, n))})
-----------------------------------------------------------------------------
Result == reader.got

(* Paging loses nothing: an event or an answer stored when the page was    *)
(* opened, and stored still, is in what was read - unless a session is     *)
(* purged between two pages: the rows behind move up, one is skipped.      *)
NothingMissed ==
  reader.step = "done" /\ ~scenario.purging =>
    /\ (reader.rowsBefore \cap Elements(rows)) \subseteq Elements(Result)
    /\ (reader.answersBefore \cap answers) \subseteq reader.answers

NumbersOf(a, funnel) == <<a, Totals(a), funnel>>
Numbers(read) == NumbersOf(Analytics(read), Funnel(read))

(* A row that two pages returned counts once in every metric and in the    *)
(* funnel, if what was read can be aggregated.                             *)
RepeatsDoNotCount ==
  reader.step = "done" /\ ~scenario.purging /\ CanAggregate(Result) =>
    Numbers(Result) = Numbers(KeepAt(Table, {k \in DOMAIN Table : Table[k] \in Elements(Result)}))

(* A row that two pages returned is shown once on the path of its task.    *)
(* Refuted: only the aggregation removes repeated rows.                    *)
PathHasNoRepeats ==
  reader.step = "done" =>
    \A a \in Attempts(Result) :
      Path(Result, a[1], a[2]) = Path(Accepted(Result), a[1], a[2])

(* What was read can be aggregated.  Refuted: a late event whose page was  *)
(* read before it was stored leaves the rows derived from it, on the next  *)
(* page, without their evidence.                                           *)
ReadIsConsistent == reader.step = "done" => CanAggregate(Result)

(* The backtracks the database derives are the ones the overview counts.   *)
(* Refuted: they refer to one screen view, and the overview wants two.     *)
BacktracksCounted ==
  Overview(Table).backtracks = Count(Table, LAMBDA e : e.type = "backtrack")

(* Detours are visits off the expected path before the task is decided.    *)
(* Refuted: every visit off the path counts, those after it too.           *)
DetoursBeforeTerminal ==
  \A a \in Decided :
    LET attempt == AttemptRows(rows, a[1], a[2])
        end == IfAny(Terminal(attempt, attempt), LAMBDA e : Anchor(attempt, e))
        before == SelectSeq(attempt, LAMBDA e : IsRaw(e) /\ e.seq <= end)
    IN  Path(rows, a[1], a[2]).detours = Path(before, a[1], a[2]).detours

(* Every answer to the SEQ question is among the responses of its task.    *)
(* Refuted: it is stored as `response' and looked for as `score'.          *)
SeqShown ==
  \A x \in answers : x \in SeqResponses(answers, x.task)
=============================================================================
