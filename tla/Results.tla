------------------------------- MODULE Results -------------------------------
(***************************************************************************)
(* What the results page shows of the rows read for a published version:   *)
(* overview and task detail over the aggregation, paths, session details   *)
(* with answers, the funnel, the heatmap, time metrics and the metric      *)
(* observations with their availability (results.ts, funnel.ts,            *)
(* heatmap.ts, time-metrics.ts, observations.ts, presentation.ts).         *)
(***************************************************************************)
EXTENDS Aggregation

CONSTANTS
  ScreenFunnel,   \* the funnel definition: screens, each once
  Capability      \* of the target: "pointer" -> its availability, or None

Last == 10000     \* Number.MAX_SAFE_INTEGER, above every sequence

(* A derived row of which nothing is found is put last.                    *)
LooseAnchor(rows, e) ==
  IF IsRaw(e) THEN e.seq
  ELSE IF Sources(rows, e) = {} THEN Last
  ELSE Max({r.seq : r \in Sources(rows, e)})

(* heatmap.ts decides an attempt with that anchor, results.ts only by      *)
(* evidence it can resolve.                                                *)
DecidedBy(rows, terminal) ==
  IfAny(Foremost(terminal, LAMBDA e : <<LooseAnchor(rows, e), e.at, e.id>>), OutcomeOf)

(* The latest terminal evidence decides (faulty variant).                  *)
HeatmapOutcomeByTime(rows, s, t) ==
  IfAny(Foremost(TerminalRows(AttemptRows(rows, s, t)), LAMBDA e : <<Last - e.at, e.id>>),
        OutcomeOf)

OutcomeForTask(attempt) ==
  DecidedBy(attempt, {e \in TerminalRows(attempt) : IsRaw(e) \/ Resolves(attempt, e)})

HeatmapOutcome(rows, s, t) ==
  DecidedBy(rows, TerminalRows(AttemptRows(rows, s, t)))
-----------------------------------------------------------------------------
(* Backtracks that count: at least two screen views of the target itself.  *)
TrustedBacktrack(rows, e) ==
  /\ e.type = "backtrack"
  /\ Cardinality(e.from) >= 2 /\ Resolves(rows, e)
  /\ \A r \in Sources(rows, e) : /\ r.type = "screen_view" /\ r.screen # None
                                 /\ r.source = "prototype_adapter"

Path(rows, s, t) ==
  LET attempt == AttemptRows(rows, s, t)
      expected == TaskRule[t].expected
      actual == ScreenPath(attempt)
  IN  [session |-> s, task |-> t, actual |-> actual,
       matches |-> expected # <<>> /\ actual = expected,
       detours |-> IF expected = <<>> THEN 0
                   ELSE Count(actual, LAMBDA n : n \notin Elements(expected)),
       repeated |-> Cardinality({k \in DOMAIN actual :
                                   \E j \in 1 .. (k - 1) : actual[j] = actual[k]}),
       backtracks |-> Count(attempt, LAMBDA e : TrustedBacktrack(attempt, e)),
       outcome |-> OutcomeForTask(attempt)]

(* Everything read of a session, by time, sequence and id.                 *)
Timeline(own) ==
  LET key == [i \in DOMAIN own |-> <<own[i].at, LooseAnchor(own, own[i]), own[i].id, i>>]
      order == InPlaces(DOMAIN own, key)
  IN  [k \in DOMAIN order |-> own[order[k]]]

(* Session detail: the outcomes of its tasks, its timeline and answers.    *)
SessionDetail(rows, answers, s) ==
  LET own == SessionRows(rows, s)
  IN  [session |-> s,
       terminal |-> SessionTerminal(Accepted(own)),
       outcomes |-> [t \in TasksOf(own) |-> OutcomeForTask(AttemptRows(own, s, t))],
       timeline |-> Timeline(own),
       answers |-> {x \in answers : x.session = s}]

(* seqValue accepts a number, or an object with its score under one of two *)
(* names; a stored answer is [key, field, score].                          *)
SeqScore(answer) ==
  IF answer.field \in {"score", "value"} /\ answer.score \in 1 .. 7 THEN answer.score ELSE None

SeqResponses(answers, t) ==
  {x \in answers : x.task = t /\ x.key = "seq" /\ SeqScore(x) # None}
-----------------------------------------------------------------------------
(* The screens of a session by sequence, time and id; the sort is stable.  *)
SessionPath(rows, s) ==
  LET views == {i \in DOMAIN rows : /\ rows[i].session = s /\ IsRaw(rows[i])
                                    /\ rows[i].type = "screen_view" /\ rows[i].screen # None}
      order == InPlaces(views, [i \in views |-> Append(BySequence(rows[i]), i)])
  IN  [k \in DOMAIN order |-> rows[order[k]].screen]

(* Each screen looked for from the start of the path (faulty variant).     *)
ProgressAnyOrder(path, screens) ==
  Max({n \in 0 .. Len(screens) : \A k \in 1 .. n : screens[k] \in Elements(path)})

(* Greedy progress of a path through the screens of a funnel: how far it   *)
(* gets, each screen looked for after the one before it; past the end of   *)
(* the path nothing is found.                                              *)
Progress(path, screens) ==
  LET cursor[n \in 0 .. Len(screens)] ==
        IF n = 0 THEN 0
        ELSE LET later == {k \in DOMAIN path : k > cursor[n - 1] /\ path[k] = screens[n]}
             IN  IF later = {} THEN Len(path) + 1 ELSE Min(later)
  IN  Max({n \in 0 .. Len(screens) : cursor[n] <= Len(path)})

IsBlocked(rows) ==
  \E e \in Elements(rows) : e.type \in {"session_technical_blocked", "task_technical_blocked"}

(* The steps of the funnel, from how far each counted session got.         *)
FunnelOf(counted, blocked, progress) ==
  LET got(n) == Cardinality({s \in counted : progress[s] >= n})
      steps == [n \in 1 .. (Len(ScreenFunnel) - 1) |->
                  [entered |-> got(n), reached |-> got(n + 1), dropped |-> got(n) - got(n + 1),
                   dropOff |-> Rate(got(n) - got(n + 1), got(n))]]
      ranked == {n \in DOMAIN steps : steps[n].dropOff # None}
      worse(m, n) == \* by rate, then by the number lost, then the earlier step
        LET x == steps[m].dropped * steps[n].entered
            y == steps[n].dropped * steps[m].entered
        IN  x > y \/ (x = y /\ (steps[m].dropped > steps[n].dropped
                                \/ (steps[m].dropped = steps[n].dropped /\ m <= n)))
  IN  [eligible |-> Cardinality(counted),
       technicalBlocked |-> Cardinality(blocked),
       steps |-> steps,
       largestDrop |-> IF ranked = {} THEN None
                       ELSE CHOOSE m \in ranked : \A n \in ranked : worse(m, n)]

Funnel(rows) ==
  LET blocked == {s \in SessionsOf(rows) : IsBlocked(SessionRows(rows, s))}
      counted == SessionsOf(rows) \ blocked
  IN  FunnelOf(counted, blocked,
               [s \in counted |-> Progress(SessionPath(rows, s), ScreenFunnel)])
-----------------------------------------------------------------------------
(* A pointer row is a heatmap point when the collector gave it a canonical *)
(* point on the screen it names.                                           *)
Heatmap(rows) ==
  LET pointers == {i \in DOMAIN rows : rows[i].type = "pointer_interaction"}
      points == KeepAt(rows, {i \in pointers : rows[i].point # None /\ rows[i].screen # None})
  IN  [status |-> IF pointers = {} THEN "no_data"
                  ELSE IF points = <<>> THEN "unsupported" ELSE "available",
       raw |-> Cardinality(pointers),
       points |-> [i \in DOMAIN points |->
                     [id |-> points[i].id, task |-> points[i].task, screen |-> points[i].screen,
                      outcome |-> IF points[i].task = None THEN None
                                  ELSE HeatmapOutcome(rows, points[i].session, points[i].task)]]]

(* filterScreenHeatmap; None is a filter that is not set.                  *)
Filtered(heatmap, task, screen, outcome) ==
  LET shown(p) == task \in {None, p.task} /\ screen \in {None, p.screen}
                  /\ outcome \in {None, p.outcome}
  IN  KeepAt(heatmap.points, {k \in DOMAIN heatmap.points : shown(heatmap.points[k])})

(* time-metrics.ts: the earliest terminal evidence ends the task, a screen *)
(* lasts until the next one, the last until the terminal.                  *)
TimeMetrics(rows, s, t) ==
  LET attempt == AttemptRows(rows, s, t)
      started == FirstOf(attempt, {"task_started"})
      end == Foremost(TerminalRows(attempt), LAMBDA e : <<e.at, e.id>>)
      views == Sorted(SelectSeq(RawRows(attempt), LAMBDA e : e.type = "screen_view"
                                                            /\ e.screen # None), BySequence)
      left(k) == IF k < Len(views) THEN views[k + 1].at
                 ELSE IfAny(end, LAMBDA e : e.at)
      timed == {k \in DOMAIN views : left(k) # None}
  IN  [timeOnTask |-> Lasted(started, end),
       screens |-> [k \in timed |-> left(k) - views[k].at],
       fails |-> \/ DurationFails(started, end)
                 \/ \E k \in timed : left(k) < views[k].at]
-----------------------------------------------------------------------------
(* The numbers of the overview that are summed over the tasks.             *)
Totals(a) ==
  LET sum(f(_)) == SumOver(a.tasks, f)
      eligible == sum(LAMBDA m : m.eligible)
      durations == Ordered(UNION {{m} \X DOMAIN m.durations : m \in a.tasks},
                           LAMBDA p : p[1].durations[p[2]])
      misclicks == sum(LAMBDA m : m.misclicks)
      pointers == sum(LAMBDA m : m.pointers)
      giveUps == sum(LAMBDA m : m.outcomes["give_up"])
  IN  [sessions |-> Cardinality(a.sessions),
       eligible |-> eligible,
       technicalBlocked |-> sum(LAMBDA m : m.outcomes["technical_blocked"]),
       completionRate |-> Rate(sum(LAMBDA m : m.outcomes["success_direct"]
                                              + m.outcomes["success_indirect"]), eligible),
       giveUpRate |-> Rate(giveUps, eligible),
       misclickRate |-> Rate(misclicks, pointers),
       duration |-> DurationSummary(durations)]

Overview(read) ==
  [totals |-> Totals(Analytics(read)),
   rageClicks |-> Count(read, LAMBDA e : e.type = "rage_click"),
   backtracks |-> Count(read, LAMBDA e : TrustedBacktrack(read, e))]

(* Whether a metric may be shown, from what the target can record and what *)
(* there is.                                                               *)
Availability(needs, value, evidence) ==
  LET states == {Capability[c] : c \in needs}
  IN  IF "Unsupported" \in states THEN "Unsupported"
      ELSE IF "Partial" \in states \/ None \in states THEN "Partial"
      ELSE IF "No Data" \in states \/ value = None \/ evidence = 0 THEN "No Data"
      ELSE "Available"

(* The observations of a task: value, how many it was taken from, and the  *)
(* evidence it refers to.                                                  *)
Observation(needs, value, evidence, refs) ==
  [value |-> value, evidence |-> evidence, refs |-> refs,
   availability |-> Availability(needs, value, evidence)]

TaskObservations(m) ==
  [completionRate |-> Observation({}, m.completionRate, m.eligible, m.trace.completion),
   median |-> Observation({}, m.duration.median, m.duration.sample, m.trace.timeOnTask),
   p75 |-> Observation({}, m.duration.p75, m.duration.sample, m.trace.timeOnTask),
   p90 |-> Observation({}, m.duration.p90, m.duration.sample, m.trace.timeOnTask),
   giveUpRate |-> Observation({}, m.giveUpRate, m.eligible, m.trace.completion),
   misclickRate |-> Observation({"pointer"}, m.misclickRate, m.pointers, m.trace.misclick)]

(* presentMetric: an observation without evidence to point at is partial.  *)
Presented(o) ==
  IF o.availability = "Available" /\ (o.refs = {} \/ o.evidence = 0) THEN "Partial"
  ELSE o.availability
=============================================================================
