----------------------------- MODULE EventStore -----------------------------
(***************************************************************************)
(* The events table and what its insert triggers do: project the row onto  *)
(* task_sessions and sessions, and derive task_success, task_failed,       *)
(* backtrack, misclick and rage_click rows from a raw one.  The operators  *)
(* are pure; TaskProjection runs them as concurrent transactions,          *)
(* ResultsRead as the serial writer beside a reader.                       *)
(*                                                                         *)
(* A row's `screen' is its screen_id or, for completion_signal, the name   *)
(* of the signal.  A rule is the set of signals it matches (OutcomeRules   *)
(* models the matching).  Row ids are numbered in the order of insertion,  *)
(* which is also the order of received_at; `at' is the participant's       *)
(* clock.  A point stands for a disc of the rage-click radius.             *)
(***************************************************************************)
EXTENDS Integers, Sequences, FiniteSets, TLC

CONSTANTS
  Sessions, Tasks, Screens, Points,
  None,          \* a null column
  TaskRule,      \* of a task: [version, success, failure, expected]
  Window         \* the rage-click window, 1000 ms

RawTerminal == [task_give_up |-> "give_up", task_timeout |-> "timeout",
                task_abandoned |-> "abandoned",
                task_technical_blocked |-> "technical_blocked"]

SessionEnd == [session_completed |-> "completed", session_abandoned |-> "abandoned",
               session_technical_blocked |-> "technical_blocked"]

TaskOutcomes == {"success_direct", "success_indirect", "failed", "give_up", "timeout",
                 "abandoned", "technical_blocked"}

(* Of a raw event without a task or a screen the collector stores null.    *)
RawRow(id, type, s, t, screen, source, seq, at, point, handled) ==
  [id |-> id, layer |-> "raw", type |-> type, session |-> s, task |-> t, screen |-> screen,
   source |-> source, seq |-> seq, at |-> at, point |-> point, handled |-> handled,
   outcome |-> None, from |-> {}, rule |-> None]

(* A derived row copies the context and the time of the raw one.           *)
DerivedRow(id, type, e, source, outcome, rule) ==
  [id |-> id, layer |-> "derived", type |-> type, session |-> e.session, task |-> e.task,
   screen |-> e.screen, source |-> source, seq |-> None, at |-> e.at, point |-> None,
   handled |-> None, outcome |-> outcome, from |-> {e.id}, rule |-> rule]

IsRaw(e) == e.layer = "raw"

(* Lexicographic order of tuples of numbers, and a sequence put in the     *)
(* order of a key; rows that share a key are interchangeable.              *)
Precedes(x, y) == \E k \in DOMAIN x : x[k] < y[k] /\ \A j \in 1 .. (k - 1) : x[j] = y[j]

Sorted(rows, Key(_)) == SortSeq(rows, LAMBDA d, e : Precedes(Key(d), Key(e)))

OfTask(rows, s, t) == SelectSeq(rows, LAMBDA e : e.session = s /\ e.task = t)

BySequence(e) == <<e.seq, e.at, e.id>>

(* The screens a task visited among the rows, in canonical order.          *)
ScreenPath(rows) ==
  LET views == Sorted(SelectSeq(rows, LAMBDA e : /\ IsRaw(e)
                                                 /\ e.type = "screen_view"
                                                 /\ e.screen # None), BySequence)
  IN  [i \in DOMAIN views |-> views[i].screen]
-----------------------------------------------------------------------------
(* task_sessions: a row per started task, with its outcome once it has one.*)
NoRow == [startedAt |-> None, outcome |-> None, ended |-> None]

Started(row) == row.startedAt # None

OutcomeOf(e) ==
  CASE IsRaw(e) /\ e.type \in DOMAIN RawTerminal -> RawTerminal[e.type]
    [] ~IsRaw(e) /\ e.type = "task_failed" -> "failed"
    [] ~IsRaw(e) /\ e.type = "task_success" -> e.outcome
    [] OTHER -> None

(* The update without "and outcome is null" (faulty variant).              *)
ProjectTaskAgain(row, e) ==
  IF IsRaw(e) /\ e.type = "task_started" THEN [row EXCEPT !.startedAt = e.at]
  ELSE IF OutcomeOf(e) # None /\ Started(row)
  THEN [row EXCEPT !.outcome = OutcomeOf(e), !.ended = e.at]
  ELSE row

(* One row of task_sessions after the projection of e: the insert does     *)
(* nothing on conflict, the update requires that outcome is null.          *)
ProjectTask(row, e) ==
  IF IsRaw(e) /\ e.type = "task_started"
  THEN IF Started(row) THEN row ELSE [row EXCEPT !.startedAt = e.at]
  ELSE IF OutcomeOf(e) # None /\ Started(row) /\ row.outcome = None
  THEN [row EXCEPT !.outcome = OutcomeOf(e), !.ended = e.at]
  ELSE row

EndsSession(status, e) ==
  IsRaw(e) /\ e.type \in DOMAIN SessionEnd /\ status = "active"

(* The terminal the rules derive from e, if any: failure wins, and success *)
(* is direct when the path up to e is the expected one or none is set.     *)
Verdict(rows, e) ==
  LET rule == TaskRule[e.task]
      signal == [type |-> e.type, screen |-> e.screen]
      path == ScreenPath(SelectSeq(OfTask(rows, e.session, e.task),
                                   LAMBDA d : IsRaw(d) /\ d.seq <= e.seq))
  IN  IF signal \in rule.failure THEN "failed"
      ELSE IF signal \notin rule.success THEN None
      ELSE IF rule.expected = <<>> \/ path = rule.expected THEN "success_direct"
      ELSE "success_indirect"

(* A screen visited again right after one other screen.                    *)
TurnsBack(path, screen) ==
  LET n == Len(path) IN n >= 2 /\ path[n - 1] = screen /\ path[n] # screen

IsBacktrack(rows, e) ==
  /\ e.type = "screen_view" /\ e.screen # None
  /\ TurnsBack(ScreenPath(SelectSeq(OfTask(rows, e.session, e.task),
                                    LAMBDA d : IsRaw(d) /\ d.seq < e.seq)),
               e.screen)

IsMisclick(e) == e.type = "pointer_interaction" /\ e.handled = FALSE

(* Two earlier clicks near e within the window, and no rage click yet.     *)
IsRage(rows, e) ==
  LET task == OfTask(rows, e.session, e.task)
      near == SelectSeq(task, LAMBDA d : /\ IsRaw(d) /\ d.type = "pointer_interaction"
                                         /\ d.seq < e.seq /\ d.at + Window >= e.at
                                         /\ d.point = e.point)
      recent == SelectSeq(task, LAMBDA d : d.type = "rage_click" /\ d.at + Window >= e.at)
  IN  e.type = "pointer_interaction" /\ e.point # None /\ Len(near) >= 2 /\ Len(recent) = 0

(* The kinds of rows derived; a verdict makes a terminal of its kind.      *)
Kind(type, source, outcome, rule) ==
  [type |-> type, source |-> source, outcome |-> outcome, rule |-> rule]

TerminalKind(verdict, label) ==
  CASE verdict = None -> <<>>
    [] verdict = "failed" -> <<Kind("task_failed", "rules_engine", None, label)>>
    [] OTHER -> <<Kind("task_success", "rules_engine", verdict, label)>>

AnalyticsKind(holds, type, rule) ==
  IF holds THEN <<Kind(type, "analytics", None, rule)>> ELSE <<>>

Numbered(e, kinds, next) ==
  [i \in DOMAIN kinds |->
     DerivedRow(next + i - 1, kinds[i].type, e, kinds[i].source, kinds[i].outcome,
                kinds[i].rule)]

(* What the triggers insert after the raw row e, ids from `next' on;       *)
(* `ended' tells whether they saw an outcome of the task.                  *)
Derived(rows, e, ended, next) ==
  IF e.task = None THEN <<>>
  ELSE Numbered(e,
         TerminalKind(IF ended THEN None ELSE Verdict(rows, e),
                      "task-outcome-v" \o TaskRule[e.task].version)
           \o AnalyticsKind(IsBacktrack(rows, e), "backtrack", "immediate-aba-backtrack-v1")
           \o AnalyticsKind(IsMisclick(e), "misclick", "figma-handled-misclick-v1")
           \o AnalyticsKind(IsRage(rows, e), "rage_click", "rage-click-v1"),
         next)
=============================================================================
