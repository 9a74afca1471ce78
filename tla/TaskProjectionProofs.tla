------------------------ MODULE TaskProjectionProofs ------------------------
(***************************************************************************)
(* For any number of tabs, events, failures and rules: that an outcome is  *)
(* final and has its evidence, from TaskProjection!ProjectionInv; and that *)
(* with one tab there is one outcome, in the row and in the report, from   *)
(* TaskProjection!SoloInv.                                                 *)
(***************************************************************************)
EXTENDS TaskProjection, FiniteSetTheorems, SequenceTheorems, TLAPS

USE ProjectionAssumption, NoRowAssumption

LEMMA OutcomeTyped ==
  ASSUME NEW e \in Event
  PROVE  OutcomeOf(e) \in TaskOutcomes \cup {None}
<1>1. e.type \in RawTypes \cup DerivedTypes /\ e.outcome \in TaskOutcomes \cup {None}
  BY DEF Event
<1>2. RawTerminal["task_give_up"] = "give_up"
  BY DEF RawTerminal
<1>3. e.type \in DOMAIN RawTerminal => e.type = "task_give_up"
  BY <1>1 DEF RawTerminal, RawTypes, DerivedTypes
<1> QED
  BY <1>1, <1>2, <1>3 DEF OutcomeOf, TaskOutcomes

LEMMA EventAt ==
  ASSUME NEW e \in Event
  PROVE  e.at \in Moments /\ e.at # None /\ e # NoEvent
BY DEF Event, NoEvent

(* What the projection of an event makes of the row of its task.           *)
LEMMA Projected ==
  ASSUME NEW row \in Row, NEW e \in Event
  PROVE  LET next == ProjectTask(row, e)
         IN  /\ next \in Row
             /\ Started(row) => Started(next)
             /\ next # row =>
                  /\ row.outcome # None => ~Started(row)
                  /\ next.outcome \in {row.outcome, OutcomeOf(e)}
                  /\ next.outcome # row.outcome =>
                       /\ row.outcome = None /\ next.ended = e.at
                       /\ Started(next) /\ next.outcome = OutcomeOf(e)
                  /\ Started(next)
             /\ Started(row) /\ row.outcome = None /\ OutcomeOf(e) # None
                  /\ ~(IsRaw(e) /\ e.type = "task_started") =>
                  next.outcome = OutcomeOf(e)
             /\ IsRaw(e) /\ e.type = "task_started" => Started(next) /\ next.outcome = row.outcome
<1>1. OutcomeOf(e) \in TaskOutcomes \cup {None} /\ e.at \in Moments /\ e.at # None
  BY OutcomeTyped, EventAt
<1> DEFINE opened == [row EXCEPT !.startedAt = e.at]
           first == [row EXCEPT !.outcome = OutcomeOf(e)]
           decided == [first EXCEPT !.ended = e.at]
<1>2. opened \in Row /\ opened.startedAt = e.at /\ opened.outcome = row.outcome
  BY <1>1 DEF Row
<1>3. /\ decided \in Row /\ decided.startedAt = row.startedAt
      /\ decided.outcome = OutcomeOf(e) /\ decided.ended = e.at
  BY <1>1 DEF Row
<1>4. decided = [row EXCEPT !.outcome = OutcomeOf(e), !.ended = e.at]
  BY DEF Row
<1> HIDE DEF opened, decided, first
<1>5. ProjectTask(row, e) = IF IsRaw(e) /\ e.type = "task_started"
                            THEN IF Started(row) THEN row ELSE opened
                            ELSE IF OutcomeOf(e) # None /\ Started(row) /\ row.outcome = None
                            THEN decided ELSE row
  BY <1>4 DEF ProjectTask, opened
<1>6. CASE IsRaw(e) /\ e.type = "task_started"
  BY <1>1, <1>2, <1>5, <1>6 DEF Started
<1>7. CASE ~(IsRaw(e) /\ e.type = "task_started")
  BY <1>1, <1>3, <1>5, <1>7 DEF Started
<1> QED
  BY <1>6, <1>7
-----------------------------------------------------------------------------
KindSet ==
  [type : DerivedTypes, source : {"rules_engine", "analytics"},
   outcome : TaskOutcomes \cup {None}, rule : Labels]

Analytics == {"backtrack", "misclick", "rage_click"}

LEMMA Single ==
  ASSUME NEW S, NEW x \in S
  PROVE  /\ <<x>> \in Seq(S) /\ Len(<<x>>) = 1 /\ <<x>>[1] = x
         /\ \A i \in 1 .. Len(<<x>>) : <<x>>[i] = x
OBVIOUS

LEMMA TerminalKinds ==
  ASSUME NEW verdict \in {None, "failed", "success_direct", "success_indirect"}, NEW label \in Labels
  PROVE  LET kinds == TerminalKind(verdict, label)
         IN  /\ kinds \in Seq(KindSet) /\ Len(kinds) <= 1
             /\ verdict = None => kinds = <<>>
<1>0. verdict # None => verdict \in TaskOutcomes
  BY DEF TaskOutcomes
<1>1. CASE verdict = None
  <2>1. TerminalKind(verdict, label) = <<>>
    BY <1>1 DEF TerminalKind, TaskOutcomes
  <2>2. <<>> \in Seq(KindSet) /\ Len(<<>>) = 0
    OBVIOUS
  <2> QED
    BY <2>1, <2>2
<1>2. CASE verdict = "failed"
  <2> DEFINE kind == Kind("task_failed", "rules_engine", None, label)
  <2>1. kind \in KindSet
    BY DEF Kind, KindSet, DerivedTypes
  <2>2. TerminalKind(verdict, label) = <<kind>> /\ verdict # None
    BY <1>2 DEF TerminalKind, TaskOutcomes
  <2> HIDE DEF kind
  <2>3. <<kind>> \in Seq(KindSet) /\ Len(<<kind>>) = 1
    BY <2>1, Single
  <2> QED
    BY <2>2, <2>3
<1>3. CASE verdict # None /\ verdict # "failed"
  <2> DEFINE kind == Kind("task_success", "rules_engine", verdict, label)
  <2>1. kind \in KindSet
    BY <1>0, <1>3 DEF Kind, KindSet, DerivedTypes
  <2>2. TerminalKind(verdict, label) = <<kind>>
    BY <1>3 DEF TerminalKind
  <2> HIDE DEF kind
  <2>3. <<kind>> \in Seq(KindSet) /\ Len(<<kind>>) = 1
    BY <2>1, Single
  <2> QED
    BY <1>3, <2>2, <2>3
<1> QED
  BY <1>1, <1>2, <1>3

LEMMA AnalyticsKinds ==
  ASSUME NEW holds, NEW type \in Analytics, NEW rule \in Labels
  PROVE  LET kinds == AnalyticsKind(holds, type, rule)
         IN  /\ kinds \in Seq(KindSet)
             /\ \A i \in 1 .. Len(kinds) : kinds[i].type \in Analytics
<1> DEFINE kind == Kind(type, "analytics", None, rule)
<1>1. kind \in KindSet /\ kind.type = type
  BY DEF Kind, KindSet, DerivedTypes, Analytics
<1>2. AnalyticsKind(holds, type, rule) = IF holds THEN <<kind>> ELSE <<>>
  BY DEF AnalyticsKind
<1> HIDE DEF kind
<1>3. /\ <<kind>> \in Seq(KindSet) /\ \A i \in 1 .. Len(<<kind>>) : <<kind>>[i] = kind
      /\ <<>> \in Seq(KindSet) /\ Len(<<>>) = 0
  BY <1>1, Single
<1>4. CASE holds
  BY <1>1, <1>2, <1>3, <1>4
<1>5. CASE ~holds
  BY <1>2, <1>3, <1>5
<1> QED
  BY <1>4, <1>5

(* What a list and kinds that are not terminal have in common.             *)
LEMMA KindsConcat ==
  ASSUME NEW front \in Seq(KindSet), NEW back \in Seq(KindSet),
         \A i \in 1 .. Len(front) : front[i].type \notin Analytics => i = 1,
         \A i \in 1 .. Len(back) : back[i].type \in Analytics
  PROVE  /\ front \o back \in Seq(KindSet)
         /\ \A i \in 1 .. Len(front \o back) :
              (front \o back)[i].type \notin Analytics => i = 1 /\ front # <<>> /\ front[1].type \notin Analytics
<1>1. /\ front \o back \in Seq(KindSet) /\ Len(front \o back) = Len(front) + Len(back)
      /\ \A i \in 1 .. Len(front) + Len(back) :
           (front \o back)[i] = IF i <= Len(front) THEN front[i] ELSE back[i - Len(front)]
  BY ConcatProperties
<1>2. ASSUME NEW i \in 1 .. Len(front \o back), (front \o back)[i].type \notin Analytics
      PROVE  i = 1 /\ front # <<>> /\ front[1].type \notin Analytics
  <2>1. CASE i <= Len(front)
    <3>1. i \in 1 .. Len(front) /\ front[i].type \notin Analytics
      BY <1>1, <1>2, <2>1
    <3> QED
      BY <3>1
  <2>2. CASE ~(i <= Len(front))
    <3>1. i - Len(front) \in 1 .. Len(back) /\ (front \o back)[i] = back[i - Len(front)]
      BY <1>1, <2>2
    <3> QED
      BY <1>2, <3>1
  <2> QED
    BY <2>1, <2>2
<1> QED
  BY <1>1, <1>2

DerivedWell(d, id, type, e) ==
  /\ d \in Event /\ ~IsRaw(d) /\ d.id = id /\ d.from = {e.id} /\ d.at = e.at
  /\ type \in Analytics => OutcomeOf(d) = None

LEMMA DerivedEvent ==
  ASSUME NEW e \in Event, NEW id \in Nat \ {0}, NEW type \in DerivedTypes,
         NEW source \in {"rules_engine", "analytics"}, NEW outcome \in TaskOutcomes \cup {None},
         NEW rule \in Labels
  PROVE  DerivedWell(DerivedRow(id, type, e, source, outcome, rule), id, type, e)
<1> DEFINE d == DerivedRow(id, type, e, source, outcome, rule)
<1>1. d \in Event
  BY DEF DerivedRow, Event
<1>2. ~IsRaw(d) /\ d.id = id /\ d.from = {e.id} /\ d.at = e.at /\ d.type = type
  BY DEF DerivedRow, IsRaw
<1> HIDE DEF d
<1>3. type \in Analytics => OutcomeOf(d) = None
  BY <1>2 DEF Analytics, OutcomeOf
<1> QED
  BY <1>1, <1>2, <1>3 DEF d, DerivedWell

(* What the triggers derive is of the event, newer than all there is, and  *)
(* only the first row may be terminal: unless an outcome was seen.         *)
DerivedFrom(derived, e, ended, next) ==
  /\ derived \in Seq(Event)
  /\ \A i \in 1 .. Len(derived) :
       /\ ~IsRaw(derived[i]) /\ derived[i].id = next + i - 1
       /\ derived[i].from = {e.id} /\ derived[i].at = e.at
       /\ OutcomeOf(derived[i]) # None => i = 1 /\ ~ended

LEMMA DerivedOfTask ==
  ASSUME NEW list, NEW e \in Event, e.task # None, NEW ended \in BOOLEAN, NEW next \in Nat \ {0}
  PROVE  DerivedFrom(Derived(list, e, ended, next), e, ended, next)
<1> DEFINE label == "task-outcome-v" \o TaskRule[e.task].version
           verdict == IF ended THEN None ELSE Verdict(list, e)
           terminal == TerminalKind(verdict, label)
           back == AnalyticsKind(IsBacktrack(list, e), "backtrack", "immediate-aba-backtrack-v1")
           miss == AnalyticsKind(IsMisclick(e), "misclick", "figma-handled-misclick-v1")
           rage == AnalyticsKind(IsRage(list, e), "rage_click", "rage-click-v1")
           kinds == terminal \o back \o miss \o rage
           derived == Derived(list, e, ended, next)
<1>1. label \in Labels
  BY DEF Labels, Event
<1>2. verdict \in {None, "failed", "success_direct", "success_indirect"}
  BY DEF Verdict
<1>3. terminal \in Seq(KindSet) /\ Len(terminal) <= 1 /\ (ended => terminal = <<>>)
  <2> HIDE DEF label
  <2>1. ended => verdict = None
    OBVIOUS
  <2> HIDE DEF verdict
  <2> QED
    BY <1>1, <1>2, <2>1, TerminalKinds
<1>4. /\ back \in Seq(KindSet) /\ \A i \in 1 .. Len(back) : back[i].type \in Analytics
      /\ miss \in Seq(KindSet) /\ \A i \in 1 .. Len(miss) : miss[i].type \in Analytics
      /\ rage \in Seq(KindSet) /\ \A i \in 1 .. Len(rage) : rage[i].type \in Analytics
  BY AnalyticsKinds DEF Analytics, Labels
<1>5. derived = Numbered(e, kinds, next)
  BY DEF Derived
<1> HIDE DEF label, verdict, terminal, back, miss, rage
<1>6. \A i \in 1 .. Len(terminal) : terminal[i].type \notin Analytics => i = 1
  BY <1>3
<1>7. /\ terminal \o back \in Seq(KindSet)
      /\ \A i \in 1 .. Len(terminal \o back) : (terminal \o back)[i].type \notin Analytics =>
           i = 1 /\ terminal # <<>>
  BY <1>3, <1>4, <1>6, KindsConcat
<1>8. /\ terminal \o back \o miss \in Seq(KindSet)
      /\ \A i \in 1 .. Len(terminal \o back \o miss) :
           (terminal \o back \o miss)[i].type \notin Analytics => i = 1 /\ terminal # <<>>
  <2> DEFINE front == terminal \o back
  <2>1. /\ front \in Seq(KindSet)
        /\ \A i \in 1 .. Len(front) : front[i].type \notin Analytics => i = 1 /\ terminal # <<>>
    BY <1>7
  <2> HIDE DEF front
  <2>2. /\ front \o miss \in Seq(KindSet)
        /\ \A i \in 1 .. Len(front \o miss) : (front \o miss)[i].type \notin Analytics =>
             i = 1 /\ front # <<>> /\ front[1].type \notin Analytics
    BY <1>4, <2>1, KindsConcat
  <2>3. front # <<>> => 1 \in 1 .. Len(front)
    BY <2>1
  <2> QED
    BY <2>1, <2>2, <2>3 DEF front
<1>9. /\ kinds \in Seq(KindSet)
      /\ \A i \in 1 .. Len(kinds) : kinds[i].type \notin Analytics => i = 1 /\ ~ended
  <2> DEFINE front == terminal \o back \o miss
  <2>1. /\ front \in Seq(KindSet)
        /\ \A i \in 1 .. Len(front) : front[i].type \notin Analytics => i = 1 /\ terminal # <<>>
    BY <1>8
  <2> HIDE DEF front
  <2>2. /\ front \o rage \in Seq(KindSet)
        /\ \A i \in 1 .. Len(front \o rage) : (front \o rage)[i].type \notin Analytics =>
             i = 1 /\ front # <<>> /\ front[1].type \notin Analytics
    BY <1>4, <2>1, KindsConcat
  <2>3. front # <<>> => 1 \in 1 .. Len(front)
    BY <2>1
  <2>4. kinds = front \o rage
    BY DEF front
  <2> QED
    BY <1>3, <2>1, <2>2, <2>3, <2>4
<1> HIDE DEF kinds
<1>10. DOMAIN kinds = 1 .. Len(kinds) /\ Len(kinds) \in Nat /\ \A i \in 1 .. Len(kinds) : kinds[i] \in KindSet
  BY <1>9
<1> DEFINE D(i) == DerivedRow(next + i - 1, kinds[i].type, e, kinds[i].source, kinds[i].outcome,
                              kinds[i].rule)
<1>11. derived = [i \in 1 .. Len(kinds) |-> D(i)]
  BY <1>5, <1>10 DEF Numbered
<1>12. \A i \in 1 .. Len(kinds) :
         /\ D(i) \in Event /\ ~IsRaw(D(i)) /\ D(i).id = next + i - 1
         /\ D(i).from = {e.id} /\ D(i).at = e.at
         /\ OutcomeOf(D(i)) # None => i = 1 /\ ~ended
  <2> TAKE i \in 1 .. Len(kinds)
  <2>1. next + i - 1 \in Nat \ {0}
    BY <1>10
  <2>2. kinds[i] \in KindSet /\ (kinds[i].type \notin Analytics => i = 1 /\ ~ended)
    BY <1>9, <1>10
  <2>3. /\ D(i) \in Event /\ ~IsRaw(D(i)) /\ D(i).id = next + i - 1
        /\ D(i).from = {e.id} /\ D(i).at = e.at
        /\ kinds[i].type \in Analytics => OutcomeOf(D(i)) = None
    <3>1. /\ kinds[i].type \in DerivedTypes /\ kinds[i].source \in {"rules_engine", "analytics"}
          /\ kinds[i].outcome \in TaskOutcomes \cup {None} /\ kinds[i].rule \in Labels
      BY <2>2 DEF KindSet
    <3>2. DerivedWell(D(i), next + i - 1, kinds[i].type, e)
      BY <2>1, <3>1, DerivedEvent
    <3> HIDE DEF D, derived
    <3> QED
      BY <3>2 DEF DerivedWell
  <2> HIDE DEF D
  <2> QED
    BY <2>2, <2>3
<1> HIDE DEF D, derived
<1>13. derived \in Seq(Event) /\ Len(derived) = Len(kinds)
  BY <1>10, <1>11, <1>12
<1>14. \A i \in 1 .. Len(kinds) : derived[i] = D(i)
  BY <1>11
<1>15. \A i \in 1 .. Len(derived) :
         /\ ~IsRaw(derived[i]) /\ derived[i].id = next + i - 1
         /\ derived[i].from = {e.id} /\ derived[i].at = e.at
         /\ OutcomeOf(derived[i]) # None => i = 1 /\ ~ended
  BY <1>12, <1>13, <1>14
<1> QED
  BY <1>13, <1>15 DEF derived, DerivedFrom

LEMMA DerivedRows ==
  ASSUME NEW list, NEW e \in Event, NEW ended \in BOOLEAN, NEW next \in Nat \ {0}
  PROVE  DerivedFrom(Derived(list, e, ended, next), e, ended, next)
<1>0. CASE e.task = None
  <2>1. Derived(list, e, ended, next) = <<>> /\ <<>> \in Seq(Event) /\ Len(<<>>) = 0
    BY <1>0 DEF Derived
  <2>2. \A i \in 1 .. Len(<<>>) : FALSE
    OBVIOUS
  <2> QED
    BY <2>1, <2>2 DEF DerivedFrom
<1>1. CASE e.task # None
  BY <1>1, DerivedOfTask
<1> QED
  BY <1>0, <1>1
-----------------------------------------------------------------------------
(* One field of a transaction is set.                                      *)
Same(t, u, fields) ==
  /\ "step" \in fields => t.step = u.step
  /\ "own" \in fields => t.own = u.own
  /\ "task" \in fields => t.task = u.task
  /\ "session" \in fields => t.session = u.session
  /\ "ended" \in fields => t.ended = u.ended

LEMMA SetStep ==
  ASSUME NEW t \in Tx, NEW x \in Steps
  PROVE  /\ [t EXCEPT !.step = x] \in Tx /\ [t EXCEPT !.step = x].step = x
         /\ Same([t EXCEPT !.step = x], t, {"own", "task", "session", "ended"})
BY DEF Tx, Same

LEMMA SetOwn ==
  ASSUME NEW t \in Tx, NEW x \in Seq(Event)
  PROVE  /\ [t EXCEPT !.own = x] \in Tx /\ [t EXCEPT !.own = x].own = x
         /\ Same([t EXCEPT !.own = x], t, {"step", "task", "session", "ended"})
BY DEF Tx, Same

LEMMA SetTask ==
  ASSUME NEW t \in Tx, NEW x \in Row
  PROVE  /\ [t EXCEPT !.task = x] \in Tx /\ [t EXCEPT !.task = x].task = x
         /\ Same([t EXCEPT !.task = x], t, {"step", "own", "session", "ended"})
BY DEF Tx, Same

LEMMA SetSession ==
  ASSUME NEW t \in Tx, NEW x \in SessionRow
  PROVE  /\ [t EXCEPT !.session = x] \in Tx /\ [t EXCEPT !.session = x].session = x
         /\ Same([t EXCEPT !.session = x], t, {"step", "own", "task", "ended"})
BY DEF Tx, Same

LEMMA SetEnded ==
  ASSUME NEW t \in Tx, NEW x \in BOOLEAN
  PROVE  /\ [t EXCEPT !.ended = x] \in Tx /\ [t EXCEPT !.ended = x].ended = x
         /\ Same([t EXCEPT !.ended = x], t, {"step", "own", "task", "session"})
BY DEF Tx, Same

LEMMA NoTxTyped ==
  /\ NoTx \in Tx /\ NoTx.step = "idle" /\ NoTx.own = <<>> /\ NoTx.task = None
  /\ NoTx.session = None /\ NoTx.ended = FALSE
BY DEF NoTx, Tx, Steps

(* What a transaction sees of the row.                                     *)
LEMMA SeenTyped ==
  ASSUME TypeOK, NEW b \in Tabs
  PROVE  /\ tx[b] \in Tx /\ SeenTask(b) \in Row /\ SeenSession(b) \in SessionRow
         /\ tx[b].own \in Seq(Event) /\ SeenRows(b) \in Seq(Event)
BY DEF TypeOK, Tx, SeenTask, SeenSession, SeenRows

(* The effect of a statement on the task row.                              *)
TaskEffect(b, e, u) ==
  /\ tx' = [tx EXCEPT ![b] = u] /\ u \in Tx
  /\ u.step = (IF tx[b].step = "settle" THEN "commit" ELSE "check")
  /\ Same(u, tx[b], {"own", "session", "ended"})
  /\ \/ /\ ProjectTask(SeenTask(b), e) = SeenTask(b) /\ u.task = tx[b].task /\ lock' = lock
     \/ /\ ProjectTask(SeenTask(b), e) # SeenTask(b) /\ u.task = ProjectTask(SeenTask(b), e)
        /\ lock["task"] \in {None, b} /\ lock' = [lock EXCEPT !["task"] = b]

LEMMA TaskAndStep ==
  ASSUME NEW f \in [Tabs -> Tx], NEW b \in Tabs, NEW x, NEW y
  PROVE  [f EXCEPT ![b].task = x, ![b].step = y]
           = [f EXCEPT ![b] = [[f[b] EXCEPT !.task = x] EXCEPT !.step = y]]
OBVIOUS

LEMMA SessionAndStep ==
  ASSUME NEW f \in [Tabs -> Tx], NEW b \in Tabs, NEW x, NEW y
  PROVE  [f EXCEPT ![b].session = x, ![b].step = y]
           = [f EXCEPT ![b] = [[f[b] EXCEPT !.session = x] EXCEPT !.step = y]]
OBVIOUS

LEMMA EndedAndStep ==
  ASSUME NEW f \in [Tabs -> Tx], NEW b \in Tabs, NEW x, NEW y
  PROVE  [f EXCEPT ![b].ended = x, ![b].step = y]
           = [f EXCEPT ![b] = [[f[b] EXCEPT !.ended = x] EXCEPT !.step = y]]
OBVIOUS

LEMMA OwnAndStep ==
  ASSUME NEW f \in [Tabs -> Tx], NEW b \in Tabs, NEW x, NEW y
  PROVE  [f EXCEPT ![b].own = x, ![b].step = y]
           = [f EXCEPT ![b] = [[f[b] EXCEPT !.own = x] EXCEPT !.step = y]]
OBVIOUS

LEMMA TaskWrites ==
  ASSUME TypeOK, NEW b \in Tabs, NEW e \in Event, TaskWritten(b, e)
  PROVE  \E u : TaskEffect(b, e, u)
<1> DEFINE t == tx[b]
           step == IF t.step = "settle" THEN "commit" ELSE "check"
           row == ProjectTask(SeenTask(b), e)
<1>1. t \in Tx /\ row \in Row /\ step \in Steps
  BY SeenTyped, Projected DEF Steps
<1>2. CASE TouchesTask(b, e)
  <2> DEFINE m == [t EXCEPT !.task = row]
             u == [m EXCEPT !.step = step]
  <2>1. m \in Tx /\ m.task = row /\ Same(m, t, {"step", "own", "session", "ended"})
    BY <1>1, SetTask
  <2>2. tx' = [tx EXCEPT ![b] = u]
    <3>1. tx' = [tx EXCEPT ![b].task = row, ![b].step = step]
      BY <1>2 DEF TaskWritten
    <3>2. tx \in [Tabs -> Tx]
      BY DEF TypeOK
    <3> HIDE DEF row, step
    <3>3. [tx EXCEPT ![b].task = row, ![b].step = step]
            = [tx EXCEPT ![b] = [[tx[b] EXCEPT !.task = row] EXCEPT !.step = step]]
      BY <3>2, TaskAndStep
    <3> QED
      BY <3>1, <3>3
  <2>3. lock["task"] \in {None, b} /\ lock' = [lock EXCEPT !["task"] = b] /\ row # SeenTask(b)
    BY <1>2 DEF TaskWritten, Free, TouchesTask
  <2> HIDE DEF m, row, step
  <2>4. u \in Tx /\ u.step = step /\ Same(u, m, {"own", "task", "session", "ended"})
    BY <1>1, <2>1, SetStep
  <2> HIDE DEF u
  <2>5. u.task = row /\ Same(u, t, {"own", "session", "ended"})
    BY <2>1, <2>4 DEF Same
  <2> QED
    BY <2>2, <2>3, <2>4, <2>5 DEF TaskEffect, row, step
<1>3. CASE ~TouchesTask(b, e)
  <2> DEFINE u == [t EXCEPT !.step = step]
  <2>1. tx' = [tx EXCEPT ![b] = u] /\ lock' = lock /\ row = SeenTask(b)
    BY <1>1, <1>3 DEF TaskWritten, TypeOK, Tx, TouchesTask
  <2> HIDE DEF row, step
  <2>2. u \in Tx /\ u.step = step /\ Same(u, t, {"own", "task", "session", "ended"})
    BY <1>1, SetStep
  <2> HIDE DEF u
  <2>3. u.task = t.task /\ Same(u, t, {"own", "session", "ended"})
    BY <2>2 DEF Same
  <2> QED
    BY <2>1, <2>2, <2>3 DEF TaskEffect, row, step
<1> QED
  BY <1>2, <1>3
-----------------------------------------------------------------------------
(* What the page of a tab can produce.                                     *)
LEMMA Emitted ==
  ASSUME NEW b, NEW m \in Emissions(b), stage[b] \in {"intro", "task", "after", "ended"}
  PROVE  /\ m.type \in RawTypes /\ m.screen \in Screens \cup {None} /\ m.to \in {"task", "after", "ended"}
         /\ m.type = "task_started" <=> stage[b] = "intro"
         /\ m.type = "session_completed" <=> stage[b] = "after"
BY DEF Emissions, RawTypes

LEMMA RawEvent ==
  ASSUME NEW type \in RawTypes, NEW screen \in Screens \cup {None}, NEW id \in Nat \ {0},
         NEW seq \in Nat, NEW d \in Skews, NEW moment \in 0 .. MaxTime, NEW t \in {Task, None}
  PROVE  RawRow(id, type, Session, t, screen, "runner", seq, moment + d, None, None) \in Event
<1>1. moment + d \in d .. (MaxTime + d) /\ moment + d \in Int
  OBVIOUS
<1>2. moment + d \in Moments \ {None}
  <2>1. d .. (MaxTime + d) \in {(c .. (MaxTime + c)) : c \in Skews}
    OBVIOUS
  <2>2. moment + d \in UNION {(c .. (MaxTime + c)) : c \in Skews}
    BY <1>1, <2>1
  <2> QED
    BY <1>1, <2>2 DEF Moments
<1> DEFINE at == moment + d
<1> HIDE DEF at
<1>3. at \in Moments \ {None} => RawRow(id, type, Session, t, screen, "runner", seq, at, None, None) \in Event
  BY DEF RawRow, Event
<1> QED
  BY <1>2, <1>3 DEF at

LEMMA EmitKeeps ==
  ASSUME TypeOK, ProjectionInv, NEW b \in Tabs, Emit(b)
  PROVE  TypeOK' /\ ProjectionInv'
<1>1. PICK m \in Emissions(b), moment \in now .. MaxTime :
        /\ now' = moment
        /\ stage' = [stage EXCEPT ![b] = m.to]
        /\ pending' = [pending EXCEPT ![b] =
             RawRow(nextId, m.type, Session, IF m.type = "session_completed" THEN None ELSE Task,
                    m.screen, "runner", issued + 1, moment + skew, None, None)]
  BY DEF Emit
<1>2. /\ pending[b] = NoEvent /\ issued < MaxEvents
      /\ issued' = issued + 1 /\ nextId' = nextId + 1
      /\ UNCHANGED <<open, rows, task, session, tx, lock, skew, failures>>
  BY DEF Emit, dbVars
<1> DEFINE t == IF m.type = "session_completed" THEN None ELSE Task
           e == RawRow(nextId, m.type, Session, t, m.screen, "runner", issued + 1, moment + skew,
                       None, None)
<1>3. m.type \in RawTypes /\ m.screen \in Screens \cup {None} /\ m.to \in {"task", "after", "ended"}
  BY Emitted DEF TypeOK
<1>4. e \in Event
  <2>1. nextId \in Nat \ {0} /\ issued + 1 \in Nat /\ skew \in Skews /\ moment \in 0 .. MaxTime
    BY DEF TypeOK
  <2>2. t \in {Task, None}
    OBVIOUS
  <2> HIDE DEF t
  <2> QED
    BY <1>3, <2>1, <2>2, RawEvent
<1>5. pending' = [pending EXCEPT ![b] = e]
  BY <1>1
<1> HIDE DEF e, t
<1>6. TypeOK'
  <2>1. now' \in 0 .. MaxTime /\ issued' \in 0 .. MaxEvents /\ nextId' \in Nat \ {0}
    BY <1>1, <1>2 DEF TypeOK
  <2>2. stage' \in [Tabs -> {"intro", "task", "after", "ended"}]
    BY <1>1, <1>3 DEF TypeOK
  <2>3. pending' \in [Tabs -> Event \cup {NoEvent}]
    BY <1>4, <1>5 DEF TypeOK
  <2> QED
    BY <1>2, <2>1, <2>2, <2>3 DEF TypeOK
<1>7. ASSUME NEW c \in Tabs
      PROVE  TxInv(c)'
  <2>1. TxInv(c) /\ TxInv(b)
    BY DEF ProjectionInv
  <2>2. CASE c = b
    <3>1. tx[b].step = "idle" /\ tx[b] = NoTx
      BY <1>2, <2>1 DEF TxInv
    <3> QED
      BY <1>2, <2>2, <3>1, NoTxTyped DEF TxInv
  <2>3. CASE c # b
    <3>1. pending'[c] = pending[c]
      BY <1>5, <2>3 DEF TypeOK
    <3> QED
      BY <1>2, <2>1, <3>1 DEF TxInv
  <2> QED
    BY <2>2, <2>3
<1>8. OutcomeHasEvidence' /\ OutcomeNeedsStart(task')
  BY <1>2 DEF ProjectionInv, OutcomeHasEvidence, Terminals
<1> QED
  BY <1>6, <1>7, <1>8 DEF ProjectionInv

LEMMA FollowKeeps ==
  ASSUME TypeOK, ProjectionInv, NEW b \in Tabs, Follow(b)
  PROVE  TypeOK' /\ ProjectionInv'
<1>1. UNCHANGED <<open, rows, task, session, tx, lock, pending, now, skew, issued, nextId, failures>>
  BY DEF Follow, dbVars
<1>2. stage' \in [Tabs -> {"intro", "task", "after", "ended"}]
  BY DEF Follow, TypeOK
<1>3. TypeOK'
  BY <1>1, <1>2 DEF TypeOK
<1>4. \A c \in Tabs : TxInv(c)'
  BY <1>1 DEF ProjectionInv, TxInv
<1>5. OutcomeHasEvidence' /\ OutcomeNeedsStart(task')
  BY <1>1 DEF ProjectionInv, OutcomeHasEvidence, Terminals
<1> QED
  BY <1>3, <1>4, <1>5 DEF ProjectionInv

(* A step of the transaction of b that commits nothing.                    *)
LEMMA StepOfTab ==
  ASSUME TypeOK, ProjectionInv, NEW b \in Tabs, NEW u \in Tx,
         tx' = [tx EXCEPT ![b] = u],
         UNCHANGED <<open, rows, task, session, stage, pending, now, skew, issued>>,
         lock' \in [{"task", "session"} -> Tabs \cup {None}],
         \A c \in Tabs : c # b /\ lock["task"] = c => lock'["task"] = c,
         nextId' \in Nat \ {0}, failures' \in 0 .. MaxFailures,
         TxInv(b)'
  PROVE  TypeOK' /\ ProjectionInv'
<1>1. tx' \in [Tabs -> Tx] /\ \A c \in Tabs : c # b => tx'[c] = tx[c]
  BY DEF TypeOK
<1>2. TypeOK'
  BY <1>1 DEF TypeOK
<1>3. ASSUME NEW c \in Tabs, c # b
      PROVE  TxInv(c)'
  <2>1. TxInv(c) /\ tx'[c] = tx[c]
    BY <1>1, <1>3 DEF ProjectionInv
  <2>2. lock["task"] = c => lock'["task"] = c
    BY <1>3
  <2> QED
    BY <2>1, <2>2 DEF TxInv
<1>4. OutcomeHasEvidence' /\ OutcomeNeedsStart(task')
  BY DEF ProjectionInv, OutcomeHasEvidence, Terminals
<1> QED
  BY <1>2, <1>3, <1>4 DEF ProjectionInv

LEMMA BeginKeeps ==
  ASSUME TypeOK, ProjectionInv, NEW b \in Tabs, Begin(b)
  PROVE  TypeOK' /\ ProjectionInv'
<1> DEFINE e == pending[b]
           m == [NoTx EXCEPT !.step = "project"]
           u == [m EXCEPT !.own = <<e>>]
<1>1. e \in Event
  BY DEF Begin, TypeOK
<1>2. <<e>> \in Seq(Event) /\ <<e>>[1] = e /\ <<e>> # <<>>
  BY <1>1
<1>3. tx' = [tx EXCEPT ![b] = u]
  BY DEF Begin, NoTx
<1>4. UNCHANGED <<open, rows, task, session, lock, stage, pending, now, skew, issued, nextId, failures>>
  BY DEF Begin, dbVars
<1>5. m \in Tx /\ m.step = "project" /\ Same(m, NoTx, {"own", "task", "session", "ended"})
  BY NoTxTyped, SetStep DEF Steps
<1> HIDE DEF m
<1> DEFINE own == <<e>>
<1>6. u = [m EXCEPT !.own = own] /\ own \in Seq(Event)
  BY <1>2
<1> HIDE DEF own, u
<1>7. u \in Tx /\ u.own = own /\ Same(u, m, {"step", "task", "session", "ended"})
  BY <1>5, <1>6, SetOwn
<1>8. u.step = "project" /\ u.task = None
  BY <1>5, <1>7, NoTxTyped DEF Same
<1>9. tx'[b] = u
  BY <1>3 DEF TypeOK
<1>10. e # NoEvent
  BY DEF Begin
<1>11. TxInv(b)'
  BY <1>2, <1>4, <1>7, <1>8, <1>9, <1>10 DEF TxInv, own
<1>12. /\ lock' \in [{"task", "session"} -> Tabs \cup {None}] /\ nextId' \in Nat \ {0}
       /\ failures' \in 0 .. MaxFailures
  BY <1>4 DEF TypeOK
<1> QED
  BY <1>3, <1>4, <1>7, <1>11, <1>12, StepOfTab

(* A statement on the task row, by an event of the transaction.            *)
LEMMA TaskWriteKeeps ==
  ASSUME TypeOK, ProjectionInv, NEW b \in Tabs, NEW k \in DOMAIN tx[b].own,
         tx[b].step \in {"project", "settle"}, TaskWritten(b, tx[b].own[k]),
         UNCHANGED <<open, rows, task, session, stage, pending, now, skew, issued, nextId, failures>>
  PROVE  TypeOK' /\ ProjectionInv'
<1> DEFINE e == tx[b].own[k]
           row == SeenTask(b)
           next == ProjectTask(row, e)
<1>1. tx[b] \in Tx /\ row \in Row /\ tx[b].own \in Seq(Event) /\ e \in Event
  BY SeenTyped
<1>2. PICK u : TaskEffect(b, e, u)
  BY <1>1, TaskWrites
<1>3. /\ tx' = [tx EXCEPT ![b] = u] /\ u \in Tx
      /\ u.step = (IF tx[b].step = "settle" THEN "commit" ELSE "check") /\ u.own = tx[b].own
      /\ \/ next = row /\ u.task = tx[b].task /\ lock' = lock
         \/ /\ next # row /\ u.task = next
            /\ lock["task"] \in {None, b} /\ lock' = [lock EXCEPT !["task"] = b]
  BY <1>2 DEF TaskEffect, Same
<1>4. TxInv(b) /\ OutcomeNeedsStart(task)
  BY DEF ProjectionInv
<1>5. tx'[b] = u /\ lock \in [{"task", "session"} -> Tabs \cup {None}]
  BY <1>3 DEF TypeOK
<1>6. /\ next \in Row
      /\ next # row =>
           /\ row.outcome # None => ~Started(row)
           /\ next.outcome # row.outcome => next.ended = e.at /\ next.outcome = OutcomeOf(e)
           /\ Started(next)
  BY <1>1, Projected
<1> HIDE DEF next
<1>7. u.task # None =>
        /\ lock'["task"] = b /\ task.outcome = None /\ OutcomeNeedsStart(u.task)
        /\ u.task.outcome # None => Backed(u.task, u.own)
  <2>1. CASE u.task = tx[b].task /\ lock' = lock
    BY <1>3, <1>4, <2>1 DEF TxInv
  <2>2. CASE next # row /\ u.task = next /\ lock' = [lock EXCEPT !["task"] = b]
    <3>1. lock'["task"] = b
      BY <1>5, <2>2
    <3>2. row = IF tx[b].task # None THEN tx[b].task ELSE task
      BY DEF SeenTask
    <3>3. OutcomeNeedsStart(row)
      BY <1>4, <3>2 DEF TxInv
    <3>4. row.outcome = None
      BY <1>6, <2>2, <3>3 DEF OutcomeNeedsStart
    <3>5. task.outcome = None
      BY <1>4, <3>2, <3>4 DEF TxInv
    <3>6. OutcomeNeedsStart(next)
      BY <1>6, <2>2 DEF OutcomeNeedsStart
    <3>7. next.outcome # None => Backed(next, tx[b].own)
      BY <1>6, <2>2, <3>4 DEF Backed
    <3> QED
      BY <1>3, <2>2, <3>1, <3>5, <3>6, <3>7
  <2> QED
    BY <1>3, <2>1, <2>2
<1>8. u.step \in {"commit", "check"} /\ (u.step = "check" => tx[b].step = "project")
  BY <1>3
<1>9. TxInv(b)'
  <2> HIDE DEF e, row
  <2>1. pending[b] # NoEvent /\ u.own # <<>> /\ u.own[1] = pending[b]
    BY <1>3, <1>4 DEF TxInv
  <2>2. u.step = "check" => u.own = <<pending[b]>>
    BY <1>3, <1>4, <1>8 DEF TxInv
  <2> QED
    BY <1>5, <1>7, <1>8, <2>1, <2>2 DEF TxInv
<1>10. /\ lock' \in [{"task", "session"} -> Tabs \cup {None}]
       /\ \A c \in Tabs : c # b /\ lock["task"] = c => lock'["task"] = c
  BY <1>3, <1>5
<1>11. nextId' \in Nat \ {0} /\ failures' \in 0 .. MaxFailures
  BY DEF TypeOK
<1> QED
  BY <1>3, <1>9, <1>10, <1>11, StepOfTab

LEMMA ProjectKeeps ==
  ASSUME TypeOK, ProjectionInv, NEW b \in Tabs, Project(b)
  PROVE  TypeOK' /\ ProjectionInv'
<1> DEFINE e == pending[b]
<1>1. /\ tx[b].step = "project"
      /\ UNCHANGED <<open, rows, task, session, stage, pending, now, skew, issued, nextId, failures>>
  BY DEF Project, dbVars
<1>2. TxInv(b)
  BY DEF ProjectionInv
<1>3. e # NoEvent /\ e \in Event /\ tx[b].own = <<e>> /\ tx[b].task = None
  BY <1>1, <1>2 DEF TxInv, TypeOK
<1>4. CASE EndsSession(SeenSession(b).status, e)
  <2> DEFINE mine == [SeenSession(b) EXCEPT !.status = SessionEnd[e.type], !.completedAt = e.at]
             m == [tx[b] EXCEPT !.session = mine]
             u == [m EXCEPT !.step = "commit"]
  <2>1. tx' = [tx EXCEPT ![b].session = mine, ![b].step = "commit"]
    BY <1>1, <1>4 DEF Project
  <2>2. lock["session"] \in {None, b} /\ lock' = [lock EXCEPT !["session"] = b]
    BY <1>1, <1>4 DEF Project, Free
  <2>3. mine \in SessionRow
    <3> DEFINE s == SeenSession(b)
               first == [s EXCEPT !.status = SessionEnd[e.type]]
    <3>1. s \in SessionRow /\ e.at \in Moments
      BY <1>3, SeenTyped, EventAt
    <3>2. SessionEnd[e.type] \in {"completed", "abandoned", "technical_blocked"}
      <4>1. e.type \in DOMAIN SessionEnd
        BY <1>4 DEF EndsSession
      <4> QED
        BY <4>1 DEF SessionEnd
    <3>3. mine = [first EXCEPT !.completedAt = e.at]
      BY <3>1 DEF SessionRow
    <3> HIDE DEF s, mine
    <3>4. first \in SessionRow
      BY <3>1, <3>2 DEF SessionRow
    <3> HIDE DEF first
    <3> QED
      BY <3>1, <3>3, <3>4 DEF SessionRow
  <2> HIDE DEF mine
  <2>4. tx[b] \in Tx
    BY SeenTyped
  <2>5. m \in Tx /\ m.session = mine /\ Same(m, tx[b], {"step", "own", "task", "ended"})
    BY <2>3, <2>4, SetSession
  <2>6. tx' = [tx EXCEPT ![b] = u]
    <3>1. tx \in [Tabs -> Tx]
      BY DEF TypeOK
    <3>2. [tx EXCEPT ![b].session = mine, ![b].step = "commit"]
            = [tx EXCEPT ![b] = [[tx[b] EXCEPT !.session = mine] EXCEPT !.step = "commit"]]
      BY <3>1, SessionAndStep
    <3> QED
      BY <2>1, <3>2
  <2> HIDE DEF m
  <2>7. u \in Tx /\ u.step = "commit" /\ Same(u, m, {"own", "task", "session", "ended"})
    BY <2>5, SetStep DEF Steps
  <2> HIDE DEF u
  <2>8. u.own = <<e>> /\ u.task = None
    BY <1>3, <2>5, <2>7 DEF Same
  <2>9. tx'[b] = u
    BY <2>6 DEF TypeOK
  <2>10. <<e>> # <<>> /\ <<e>>[1] = e
    OBVIOUS
  <2>11. TxInv(b)'
    BY <1>1, <1>3, <2>7, <2>8, <2>9, <2>10 DEF TxInv
  <2>12. /\ lock' \in [{"task", "session"} -> Tabs \cup {None}]
         /\ \A c \in Tabs : c # b /\ lock["task"] = c => lock'["task"] = c
         /\ nextId' \in Nat \ {0} /\ failures' \in 0 .. MaxFailures
    BY <1>1, <2>2 DEF TypeOK
  <2> QED
    BY <1>1, <2>6, <2>7, <2>11, <2>12, StepOfTab
<1>5. CASE ~EndsSession(SeenSession(b).status, e)
  <2>1. TaskWritten(b, e)
    BY <1>5 DEF Project
  <2>2. 1 \in DOMAIN tx[b].own /\ tx[b].own[1] = e
    BY <1>3
  <2> QED
    BY <1>1, <2>1, <2>2, TaskWriteKeeps
<1> QED
  BY <1>4, <1>5

LEMMA CheckKeeps ==
  ASSUME TypeOK, ProjectionInv, NEW b \in Tabs, Check(b)
  PROVE  TypeOK' /\ ProjectionInv'
<1> DEFINE seen == SeenTask(b).outcome # None
           step == IF pending[b].task = None THEN "commit" ELSE "derive"
           m == [tx[b] EXCEPT !.ended = seen]
           u == [m EXCEPT !.step = step]
<1>1. /\ tx[b].step = "check" /\ tx' = [tx EXCEPT ![b].ended = seen, ![b].step = step]
      /\ UNCHANGED <<open, rows, task, session, lock, stage, pending, now, skew, issued, nextId,
                     failures>>
  BY DEF Check, dbVars
<1>2. TxInv(b) /\ tx[b] \in Tx /\ tx \in [Tabs -> Tx]
  BY SeenTyped DEF ProjectionInv, TypeOK
<1>3. seen \in BOOLEAN /\ step \in Steps /\ step # "idle" /\ step # "project" /\ step # "check"
  BY DEF Steps
<1> HIDE DEF seen, step
<1>4. m \in Tx /\ Same(m, tx[b], {"step", "own", "task", "session"})
  BY <1>2, <1>3, SetEnded
<1>5. tx' = [tx EXCEPT ![b] = u]
  BY <1>1, <1>2, EndedAndStep
<1> HIDE DEF m
<1>6. u \in Tx /\ u.step = step /\ Same(u, m, {"own", "task", "session", "ended"})
  BY <1>3, <1>4, SetStep
<1> HIDE DEF u
<1>7. tx'[b] = u /\ u.own = tx[b].own /\ u.task = tx[b].task
  BY <1>2, <1>4, <1>5, <1>6 DEF Same
<1>8. TxInv(b)'
  BY <1>1, <1>2, <1>3, <1>6, <1>7 DEF TxInv
<1>9. /\ lock' \in [{"task", "session"} -> Tabs \cup {None}] /\ nextId' \in Nat \ {0}
      /\ failures' \in 0 .. MaxFailures
  BY <1>1 DEF TypeOK
<1> QED
  BY <1>1, <1>5, <1>6, <1>8, <1>9, StepOfTab

(* What a transaction derives: the first row at most is a terminal.        *)
LEMMA DeriveRows ==
  ASSUME TypeOK, ProjectionInv, NEW b \in Tabs, Derive(b)
  PROVE  \E derived, u :
           /\ DerivedFrom(derived, pending[b], tx[b].ended, nextId)
           /\ nextId' = nextId + Len(derived)
           /\ tx' = [tx EXCEPT ![b] = u] /\ u \in Tx /\ u.step = "settle"
           /\ u.own = <<pending[b]>> \o derived
           /\ Same(u, tx[b], {"task", "session", "ended"})
<1> DEFINE e == pending[b]
           derived == Derived(SeenRows(b), e, tx[b].ended, nextId)
           own == tx[b].own \o derived
           m == [tx[b] EXCEPT !.own = own]
           u == [m EXCEPT !.step = "settle"]
<1>1. /\ tx[b].step = "derive" /\ tx' = [tx EXCEPT ![b].own = own, ![b].step = "settle"]
      /\ nextId' = nextId + Len(derived)
  BY DEF Derive
<1>2. TxInv(b) /\ tx[b] \in Tx /\ tx \in [Tabs -> Tx]
  BY SeenTyped DEF ProjectionInv, TypeOK
<1>3. e \in Event /\ tx[b].own = <<e>>
  BY <1>1, <1>2 DEF TxInv, TypeOK
<1>4. DerivedFrom(derived, e, tx[b].ended, nextId)
  <2>1. tx[b].ended \in BOOLEAN /\ nextId \in Nat \ {0}
    BY <1>2 DEF Tx, TypeOK
  <2> QED
    BY <1>3, <2>1, DerivedRows
<1>5. own \in Seq(Event) /\ own = <<e>> \o derived
  BY <1>3, <1>4 DEF DerivedFrom
<1> HIDE DEF derived, own
<1>6. m \in Tx /\ m.own = own /\ Same(m, tx[b], {"step", "task", "session", "ended"})
  BY <1>2, <1>5, SetOwn
<1>7. tx' = [tx EXCEPT ![b] = u]
  BY <1>1, <1>2, OwnAndStep
<1> HIDE DEF m
<1>8. u \in Tx /\ u.step = "settle" /\ Same(u, m, {"own", "task", "session", "ended"})
  BY <1>6, SetStep DEF Steps
<1> HIDE DEF u
<1>9. u.own = <<e>> \o derived /\ Same(u, tx[b], {"task", "session", "ended"})
  BY <1>5, <1>6, <1>8 DEF Same
<1> QED
  BY <1>1, <1>4, <1>7, <1>8, <1>9

LEMMA DeriveKeeps ==
  ASSUME TypeOK, ProjectionInv, NEW b \in Tabs, Derive(b)
  PROVE  TypeOK' /\ ProjectionInv'
<1> DEFINE e == pending[b]
<1>1. PICK derived, u :
        /\ DerivedFrom(derived, e, tx[b].ended, nextId)
        /\ nextId' = nextId + Len(derived)
        /\ tx' = [tx EXCEPT ![b] = u] /\ u \in Tx /\ u.step = "settle"
        /\ u.own = <<e>> \o derived
        /\ Same(u, tx[b], {"task", "session", "ended"})
  BY DeriveRows
<1>0. derived \in Seq(Event)
  BY <1>1 DEF DerivedFrom
<1>2. /\ tx[b].step = "derive"
      /\ UNCHANGED <<open, rows, task, session, lock, stage, pending, now, skew, issued, failures>>
  BY DEF Derive, dbVars
<1>3. TxInv(b) /\ tx \in [Tabs -> Tx]
  BY DEF ProjectionInv, TypeOK
<1>4. e \in Event /\ e # NoEvent /\ tx[b].own = <<e>>
  BY <1>2, <1>3 DEF TxInv, TypeOK
<1>5. /\ u.own \in Seq(Event) /\ Len(u.own) = 1 + Len(derived)
      /\ u.own[1] = e /\ u.own # <<>>
  BY <1>0, <1>1, <1>4
<1>6. tx'[b] = u /\ u.task = tx[b].task
  BY <1>1, <1>3 DEF Same
<1>7. u.task # None /\ u.task.outcome # None => Backed(u.task, u.own)
  <2>1. SUFFICES ASSUME u.task # None, u.task.outcome # None
                 PROVE  Backed(u.task, u.own)
    OBVIOUS
  <2>2. Backed(tx[b].task, <<e>>)
    BY <1>2, <1>3, <1>4, <1>6, <2>1 DEF TxInv
  <2>3. OutcomeOf(e) = u.task.outcome /\ e.at = u.task.ended
    BY <1>6, <2>2 DEF Backed
  <2>4. 1 \in DOMAIN u.own
    BY <1>0, <1>5
  <2> QED
    BY <1>5, <2>3, <2>4 DEF Backed
<1>8. TxInv(b)'
  BY <1>1, <1>2, <1>3, <1>4, <1>5, <1>6, <1>7 DEF TxInv
<1>9. /\ lock' \in [{"task", "session"} -> Tabs \cup {None}] /\ nextId' \in Nat \ {0}
      /\ failures' \in 0 .. MaxFailures
  BY <1>0, <1>1, <1>2 DEF TypeOK
<1> QED
  BY <1>1, <1>2, <1>8, <1>9, StepOfTab

LEMMA SettleKeeps ==
  ASSUME TypeOK, ProjectionInv, NEW b \in Tabs, Settle(b)
  PROVE  TypeOK' /\ ProjectionInv'
<1> DEFINE own == tx[b].own
           terminals == {k \in 2 .. Len(own) : OutcomeOf(own[k]) # None}
           k == CHOOSE i \in terminals : TRUE
<1>1. /\ tx[b].step = "settle"
      /\ UNCHANGED <<open, rows, task, session, stage, pending, now, skew, issued, nextId, failures>>
      /\ IF terminals # {} THEN TaskWritten(b, own[k])
         ELSE tx' = [tx EXCEPT ![b].step = "commit"] /\ lock' = lock
  BY DEF Settle, dbVars
<1>2. TxInv(b) /\ tx[b] \in Tx /\ own \in Seq(Event)
  BY SeenTyped DEF ProjectionInv
<1>3. CASE terminals # {}
  <2>1. k \in terminals
    BY <1>3
  <2>2. k \in DOMAIN own
    BY <1>2, <2>1
  <2> HIDE DEF k
  <2> QED
    BY <1>1, <1>3, <2>2, TaskWriteKeeps
<1>4. CASE terminals = {}
  <2> DEFINE u == [tx[b] EXCEPT !.step = "commit"]
  <2>1. tx' = [tx EXCEPT ![b] = u] /\ lock' = lock
    BY <1>1, <1>4
  <2>2. u \in Tx /\ u.step = "commit" /\ Same(u, tx[b], {"own", "task", "session", "ended"})
    BY <1>2, SetStep DEF Steps
  <2> HIDE DEF u
  <2>3. tx'[b] = u /\ u.own = tx[b].own /\ u.task = tx[b].task
    BY <2>1, <2>2 DEF TypeOK, Same
  <2>4. TxInv(b)'
    BY <1>1, <1>2, <2>1, <2>2, <2>3 DEF TxInv
  <2>5. /\ lock' \in [{"task", "session"} -> Tabs \cup {None}] /\ nextId' \in Nat \ {0}
        /\ failures' \in 0 .. MaxFailures
    BY <1>1, <2>1 DEF TypeOK
  <2> QED
    BY <1>1, <2>1, <2>2, <2>4, <2>5, StepOfTab
<1> QED
  BY <1>3, <1>4

LEMMA ReleasedTyped ==
  ASSUME TypeOK, NEW b \in Tabs
  PROVE  /\ Released(b) \in [{"task", "session"} -> Tabs \cup {None}]
         /\ \A c \in Tabs : c # b /\ lock["task"] = c => Released(b)["task"] = c
BY DEF Released, TypeOK

LEMMA FailKeeps ==
  ASSUME TypeOK, ProjectionInv, NEW b \in Tabs, Fail(b)
  PROVE  TypeOK' /\ ProjectionInv'
<1>1. /\ tx' = [tx EXCEPT ![b] = NoTx] /\ lock' = Released(b)
      /\ UNCHANGED <<open, rows, task, session, stage, pending, now, skew, issued, nextId>>
  BY DEF Fail, dbVars
<1>2. failures' \in 0 .. MaxFailures /\ nextId' \in Nat \ {0}
  BY <1>1 DEF Fail, TypeOK
<1>3. tx'[b] = NoTx
  BY <1>1 DEF TypeOK
<1>4. TxInv(b)'
  BY <1>3, NoTxTyped DEF TxInv
<1> QED
  BY <1>1, <1>2, <1>4, NoTxTyped, ReleasedTyped, StepOfTab

LEMMA CommitKeeps ==
  ASSUME TypeOK, ProjectionInv, NEW b \in Tabs, Commit(b)
  PROVE  TypeOK' /\ ProjectionInv' /\ (task.outcome # None => task' = task)
<1> DEFINE own == tx[b].own
<1>1. /\ tx[b].step = "commit"
      /\ rows' = SeenRows(b) /\ task' = SeenTask(b) /\ session' = SeenSession(b)
      /\ tx' = [tx EXCEPT ![b] = NoTx] /\ lock' = Released(b)
      /\ pending' = [pending EXCEPT ![b] = NoEvent]
      /\ UNCHANGED <<open, stage, now, skew, issued, nextId, failures>>
  BY DEF Commit
<1>2. rows' \in Seq(Event) /\ task' \in Row /\ session' \in SessionRow /\ own \in Seq(Event)
  BY <1>1, SeenTyped
<1>3. rows \in Seq(Event) /\ tx \in [Tabs -> Tx] /\ pending \in [Tabs -> Event \cup {NoEvent}]
  BY DEF TypeOK
<1>4. /\ tx' \in [Tabs -> Tx] /\ pending' \in [Tabs -> Event \cup {NoEvent}]
      /\ lock' \in [{"task", "session"} -> Tabs \cup {None}]
  BY <1>1, <1>3, NoTxTyped, ReleasedTyped
<1>5. TypeOK'
  BY <1>1, <1>2, <1>4 DEF TypeOK
<1>6. TxInv(b) /\ OutcomeHasEvidence /\ OutcomeNeedsStart(task)
  BY DEF ProjectionInv
<1>7. task' = IF tx[b].task # None THEN tx[b].task ELSE task
  BY <1>1 DEF SeenTask
<1>8. task.outcome # None => task' = task
  BY <1>6, <1>7 DEF TxInv
<1>9. OutcomeNeedsStart(task')
  BY <1>6, <1>7 DEF TxInv
<1>10. /\ \A i \in 1 .. Len(rows) : i \in DOMAIN rows' /\ rows'[i] = rows[i]
       /\ \A k \in 1 .. Len(own) : Len(rows) + k \in DOMAIN rows' /\ rows'[Len(rows) + k] = own[k]
  <2>1. rows' = rows \o own
    BY <1>1 DEF SeenRows
  <2> QED
    BY <1>2, <1>3, <2>1
<1>11. ASSUME task'.outcome # None
       PROVE  \E i \in DOMAIN rows' : OutcomeOf(rows'[i]) = task'.outcome /\ rows'[i].at = task'.ended
  <2>1. CASE tx[b].task # None
    <3>1. Backed(task', own)
      BY <1>6, <1>7, <1>11, <2>1 DEF TxInv
    <3>2. PICK k \in 1 .. Len(own) : OutcomeOf(own[k]) = task'.outcome /\ own[k].at = task'.ended
      BY <1>2, <3>1 DEF Backed
    <3>3. Len(rows) + k \in DOMAIN rows' /\ rows'[Len(rows) + k] = own[k]
      BY <1>10
    <3> HIDE DEF own
    <3>4. /\ OutcomeOf(rows'[Len(rows) + k]) = task'.outcome
          /\ rows'[Len(rows) + k].at = task'.ended
      BY <3>2, <3>3
    <3> QED
      BY <3>3, <3>4
  <2>2. CASE tx[b].task = None
    <3>1. PICK i \in 1 .. Len(rows) : OutcomeOf(rows[i]) = task'.outcome /\ rows[i].at = task'.ended
      BY <1>3, <1>6, <1>7, <1>11, <2>2 DEF OutcomeHasEvidence, Terminals
    <3> QED
      BY <1>10, <3>1
  <2> QED
    BY <2>1, <2>2
<1>12. OutcomeHasEvidence'
  BY <1>11 DEF OutcomeHasEvidence, Terminals
<1>13. ASSUME NEW c \in Tabs
       PROVE  TxInv(c)'
  <2>1. TxInv(c)
    BY DEF ProjectionInv
  <2>2. CASE c = b
    <3>1. tx'[b] = NoTx
      BY <1>1, <1>3
    <3> QED
      BY <2>2, <3>1, NoTxTyped DEF TxInv
  <2>3. CASE c # b
    <3>1. tx'[c] = tx[c] /\ pending'[c] = pending[c]
      BY <1>1, <1>3, <2>3
    <3>2. tx[c].task # None => lock["task"] = c /\ tx[b].task = None
      BY <1>6, <2>1, <2>3 DEF TxInv
    <3>3. lock["task"] = c => lock'["task"] = c
      BY <1>1, <2>3, ReleasedTyped
    <3> QED
      BY <1>7, <2>1, <3>1, <3>2, <3>3 DEF TxInv
  <2> QED
    BY <2>2, <2>3
<1> QED
  BY <1>5, <1>8, <1>9, <1>12, <1>13 DEF ProjectionInv
-----------------------------------------------------------------------------
LEMMA ProjectionInit ==
  ASSUME Init
  PROVE  TypeOK /\ ProjectionInv
<1>1. None \in Moments /\ NoRow \in Row /\ NoRow.outcome = None
  <2>1. None \in Moments
    BY DEF Moments
  <2> QED
    BY <2>1 DEF Row, NoRow
<1>2. TypeOK
  <2>1. rows \in Seq(Event) /\ issued \in 0 .. MaxEvents /\ now \in 0 .. MaxTime
    BY DEF Init
  <2>2. session \in SessionRow
    BY <1>1 DEF Init, SessionRow
  <2> QED
    BY <1>1, <2>1, <2>2, NoTxTyped DEF Init, TypeOK
<1>3. \A b \in Tabs : TxInv(b)
  BY NoTxTyped DEF Init, TxInv
<1> QED
  BY <1>1, <1>2, <1>3 DEF Init, ProjectionInv, OutcomeHasEvidence, OutcomeNeedsStart

LEMMA ProjectionStep ==
  ASSUME TypeOK, ProjectionInv, [Next]_vars
  PROVE  TypeOK' /\ ProjectionInv' /\ (task.outcome # None => task' = task)
<1>1. CASE Next
  <2>1. PICK b \in open : Emit(b) \/ Follow(b) \/ Serve(b) \/ Fail(b)
    BY <1>1 DEF Next
  <2>2. b \in Tabs
    BY DEF TypeOK
  <2>3. CASE Emit(b)
    BY <2>2, <2>3, EmitKeeps DEF Emit, dbVars
  <2>4. CASE Follow(b)
    BY <2>2, <2>4, FollowKeeps DEF Follow, dbVars
  <2>5. CASE Begin(b)
    BY <2>2, <2>5, BeginKeeps DEF Begin, dbVars
  <2>6. CASE Project(b)
    BY <2>2, <2>6, ProjectKeeps DEF Project, dbVars
  <2>7. CASE Check(b)
    BY <2>2, <2>7, CheckKeeps DEF Check, dbVars
  <2>8. CASE Derive(b)
    BY <2>2, <2>8, DeriveKeeps DEF Derive, dbVars
  <2>9. CASE Settle(b)
    BY <2>2, <2>9, SettleKeeps DEF Settle, dbVars
  <2>10. CASE Commit(b)
    BY <2>2, <2>10, CommitKeeps
  <2>11. CASE Fail(b)
    BY <2>2, <2>11, FailKeeps DEF Fail, dbVars
  <2> QED
    BY <2>1, <2>3, <2>4, <2>5, <2>6, <2>7, <2>8, <2>9, <2>10, <2>11 DEF Serve
<1>2. CASE UNCHANGED vars
  <2>1. UNCHANGED <<open, rows, task, session, tx, lock, stage, pending, now, skew, issued, nextId,
                    failures>>
    BY <1>2 DEF vars, dbVars
  <2>2. TypeOK'
    BY <2>1 DEF TypeOK
  <2>3. \A b \in Tabs : TxInv(b)'
    BY <2>1 DEF ProjectionInv, TxInv
  <2>4. OutcomeHasEvidence' /\ OutcomeNeedsStart(task')
    BY <2>1 DEF ProjectionInv, OutcomeHasEvidence, Terminals
  <2> QED
    BY <2>1, <2>2, <2>3, <2>4 DEF ProjectionInv
<1> QED
  BY <1>1, <1>2

THEOREM ProjectionInvariant == Spec => [](TypeOK /\ ProjectionInv)
<1> QED
  BY ProjectionInit, ProjectionStep, PTL DEF Spec

(* Every variable keeps its type, whatever the tabs, the clock and the     *)
(* failures do.                                                            *)
THEOREM ProjectionTypes == Spec => []TypeOK
<1> QED
  BY ProjectionInvariant, PTL

(* The outcome in task_sessions has a stored terminal row of that outcome  *)
(* and time behind it.                                                     *)
THEOREM OutcomesHaveEvidence == Spec => []OutcomeHasEvidence
<1>1. ProjectionInv => OutcomeHasEvidence
  BY DEF ProjectionInv
<1> QED
  BY <1>1, ProjectionInvariant, PTL

(* Once a task is decided its row never changes, in whatever order the     *)
(* transactions of the tabs run, wait and commit.                          *)
THEOREM OutcomesAreFinal == Spec => OutcomeIsFinal
<1>1. ASSUME TypeOK, ProjectionInv, [Next]_vars
      PROVE  [task.outcome # None => task' = task]_vars
  BY <1>1, ProjectionStep
<1> QED
  BY <1>1, ProjectionInvariant, PTL DEF Spec, OutcomeIsFinal
-----------------------------------------------------------------------------
(* Lists that grow: what is in them stays where it is.                     *)
Extends(r, l) == \A i \in 1 .. Len(l) : i \in 1 .. Len(r) /\ r[i] = l[i]

LEMMA Appended ==
  ASSUME NEW l \in Seq(Event), NEW e \in Event
  PROVE  /\ l \o <<e>> \in Seq(Event) /\ Len(l \o <<e>>) = Len(l) + 1
         /\ Extends(l \o <<e>>, l) /\ (l \o <<e>>)[Len(l) + 1] = e
BY DEF Extends

LEMMA Joined ==
  ASSUME NEW l \in Seq(Event), NEW d \in Seq(Event)
  PROVE  /\ l \o d \in Seq(Event) /\ Len(l \o d) = Len(l) + Len(d)
         /\ Extends(l \o d, l) /\ \A k \in 1 .. Len(d) : (l \o d)[Len(l) + k] = d[k]
         /\ \A i \in 1 .. Len(l \o d) :
              i \in 1 .. Len(l) \/ (i - Len(l) \in 1 .. Len(d) /\ (l \o d)[i] = d[i - Len(l)])
BY DEF Extends

LEMMA OrderedAppend ==
  ASSUME NEW l \in Seq(Event), NEW e \in Event, Ordered(l), IsRaw(e), Older(l, e)
  PROVE  Ordered(l \o <<e>>)
<1> DEFINE r == l \o <<e>>
           n == Len(l)
<1>1. r \in Seq(Event) /\ Len(r) = n + 1 /\ Extends(r, l) /\ r[n + 1] = e /\ n \in Nat
  BY Appended
<1>2. DOMAIN r = 1 .. (n + 1) /\ DOMAIN l = 1 .. n
  BY <1>1
<1> HIDE DEF r, n
<1>3. \A i \in 1 .. n : r[i] = l[i]
  BY <1>1 DEF Extends, n
<1>4. \A i \in 1 .. (n + 1) : i \in 1 .. n \/ i = n + 1
  BY <1>1
<1>5. \A i, j \in 1 .. n : i < j =>
        l[i].id < l[j].id /\ (IsRaw(l[i]) /\ IsRaw(l[j]) => l[i].seq < l[j].seq)
  BY <1>2 DEF Ordered
<1>6. \A i \in 1 .. n : l[i].id < e.id /\ (IsRaw(l[i]) => l[i].seq < e.seq)
  BY <1>2 DEF Older
<1>7. ASSUME NEW i \in 1 .. (n + 1), NEW j \in 1 .. (n + 1), i < j
      PROVE  r[i].id < r[j].id /\ (IsRaw(r[i]) /\ IsRaw(r[j]) => r[i].seq < r[j].seq)
  <2>1. i \in 1 .. n
    BY <1>1, <1>7
  <2> QED
    BY <1>1, <1>3, <1>4, <1>5, <1>6, <1>7, <2>1
<1>8. ASSUME NEW i \in 1 .. (n + 1), ~IsRaw(r[i])
      PROVE  \E k \in 1 .. (n + 1) : k < i /\ IsRaw(r[k]) /\ r[i].from = {r[k].id}
  <2>1. i \in 1 .. n /\ r[i] = l[i]
    BY <1>1, <1>3, <1>4, <1>8
  <2>2. PICK k \in 1 .. n : k < i /\ IsRaw(l[k]) /\ l[i].from = {l[k].id}
    BY <1>2, <1>8, <2>1 DEF Ordered
  <2>3. k \in 1 .. (n + 1) /\ r[k] = l[k]
    BY <1>1, <1>3
  <2> QED
    BY <2>1, <2>2, <2>3
<1> QED
  BY <1>2, <1>7, <1>8 DEF Ordered, r

LEMMA OrderedDerived ==
  ASSUME NEW l \in Seq(Event), NEW e \in Event, NEW ended, NEW next \in Nat, NEW d,
         Ordered(l), l # <<>>, l[Len(l)] = e, IsRaw(e), DerivedFrom(d, e, ended, next),
         \A i \in 1 .. Len(l) : l[i].id < next
  PROVE  Ordered(l \o d)
<1> DEFINE r == l \o d
           n == Len(l)
           m == Len(d)
<1>1. /\ d \in Seq(Event)
      /\ \A k \in 1 .. m : ~IsRaw(d[k]) /\ d[k].id = next + k - 1 /\ d[k].from = {e.id}
  BY DEF DerivedFrom
<1>2. /\ DOMAIN r = 1 .. (n + m) /\ DOMAIN l = 1 .. n /\ n \in Nat /\ m \in Nat /\ n >= 1
      /\ \A i \in 1 .. n : r[i] = l[i]
      /\ \A i \in 1 .. (n + m) : i \in 1 .. n \/ (i - n \in 1 .. m /\ r[i] = d[i - n])
  <2>1. r \in Seq(Event) /\ Len(r) = n + m /\ Extends(r, l)
        /\ \A i \in 1 .. Len(r) : i \in 1 .. n \/ (i - n \in 1 .. m /\ r[i] = d[i - n])
    BY <1>1, Joined
  <2>2. n \in Nat /\ m \in Nat /\ n >= 1 /\ DOMAIN l = 1 .. n
    BY <1>1
  <2> HIDE DEF r
  <2>3. DOMAIN r = 1 .. (n + m)
    BY <2>1
  <2> QED
    BY <2>1, <2>2, <2>3 DEF Extends
<1>3. \A i, j \in 1 .. n : i < j =>
        l[i].id < l[j].id /\ (IsRaw(l[i]) /\ IsRaw(l[j]) => l[i].seq < l[j].seq)
  BY <1>2 DEF Ordered
<1>4. \A i \in 1 .. n : l[i].id \in Nat /\ l[i].id < next
  <2>1. \A i \in 1 .. n : l[i] \in Event
    OBVIOUS
  <2>2. \A x \in Event : x.id \in Nat
    BY DEF Event
  <2> QED
    BY <2>1, <2>2
<1> HIDE DEF r, n, m
<1>5. ASSUME NEW i \in 1 .. (n + m), NEW j \in 1 .. (n + m), i < j
      PROVE  r[i].id < r[j].id /\ (IsRaw(r[i]) /\ IsRaw(r[j]) => r[i].seq < r[j].seq)
  <2>1. CASE j \in 1 .. n
    <3>1. i \in 1 .. n
      BY <1>2, <1>5, <2>1
    <3> QED
      BY <1>2, <1>3, <1>5, <2>1, <3>1
  <2>2. CASE j \notin 1 .. n
    <3>1. j - n \in 1 .. m /\ r[j] = d[j - n]
      BY <1>2, <2>2
    <3>2. ~IsRaw(r[j]) /\ r[j].id = next + (j - n) - 1
      BY <1>1, <3>1
    <3>3. r[i].id < r[j].id
      <4>1. CASE i \in 1 .. n
        BY <1>2, <1>4, <3>1, <3>2, <4>1
      <4>2. CASE i \notin 1 .. n
        <5>1. i - n \in 1 .. m /\ r[i] = d[i - n]
          BY <1>2, <4>2
        <5>2. r[i].id = next + (i - n) - 1
          BY <1>1, <5>1
        <5> QED
          BY <1>2, <1>5, <3>1, <3>2, <5>1, <5>2
      <4> QED
        BY <4>1, <4>2
    <3> QED
      BY <3>2, <3>3
  <2> QED
    BY <2>1, <2>2
<1>6. ASSUME NEW i \in 1 .. (n + m), ~IsRaw(r[i])
      PROVE  \E k \in 1 .. (n + m) : k < i /\ IsRaw(r[k]) /\ r[i].from = {r[k].id}
  <2>1. CASE i \in 1 .. n
    <3>1. r[i] = l[i]
      BY <1>2, <2>1
    <3>2. PICK k \in 1 .. n : k < i /\ IsRaw(l[k]) /\ l[i].from = {l[k].id}
      BY <1>2, <1>6, <2>1, <3>1 DEF Ordered
    <3>3. k \in 1 .. (n + m) /\ r[k] = l[k]
      BY <1>2
    <3> QED
      BY <3>1, <3>2, <3>3
  <2>2. CASE i \notin 1 .. n
    <3>1. i - n \in 1 .. m /\ r[i] = d[i - n]
      BY <1>2, <2>2
    <3>2. r[i].from = {e.id}
      BY <1>1, <3>1
    <3>3. n \in 1 .. (n + m) /\ n < i /\ r[n] = e
      BY <1>2, <3>1 DEF n
    <3> QED
      BY <3>2, <3>3
  <2> QED
    BY <2>1, <2>2
<1> QED
  BY <1>2, <1>5, <1>6 DEF Ordered, r

LEMMA EndsAppend ==
  ASSUME NEW l \in Seq(Event), NEW e \in Event
  PROVE  Ends(l \o <<e>>) = IF OutcomeOf(e) = None THEN Ends(l) ELSE Ends(l) \cup {Len(l) + 1}
<1> DEFINE r == l \o <<e>>
<1>1. r \in Seq(Event) /\ Len(r) = Len(l) + 1 /\ Extends(r, l) /\ r[Len(l) + 1] = e
  BY Appended
<1> HIDE DEF r
<1>2. DOMAIN r = 1 .. (Len(l) + 1) /\ DOMAIN l = 1 .. Len(l) /\ Len(l) \in Nat
  BY <1>1
<1>3. \A i \in 1 .. Len(l) : r[i] = l[i]
  BY <1>1 DEF Extends
<1>4. \A i \in 1 .. (Len(l) + 1) : i \in 1 .. Len(l) \/ i = Len(l) + 1
  BY <1>2
<1>5. ~(Len(l) + 1 \in 1 .. Len(l)) /\ Len(l) + 1 \in 1 .. (Len(l) + 1)
      /\ \A i \in 1 .. Len(l) : i \in 1 .. (Len(l) + 1)
  BY <1>2
<1>6. \A i : i \in Ends(r) <=> i \in Ends(l) \/ (i = Len(l) + 1 /\ OutcomeOf(e) # None)
  BY <1>1, <1>2, <1>3, <1>4, <1>5 DEF Ends
<1> QED
  BY <1>6 DEF r

LEMMA EndsDerived ==
  ASSUME NEW l \in Seq(Event), NEW d, NEW e, NEW ended, NEW next,
         DerivedFrom(d, e, ended, next)
  PROVE  /\ Ends(l \o d) \subseteq Ends(l) \cup {Len(l) + 1}
         /\ Ends(l) \subseteq Ends(l \o d)
         /\ ended => Ends(l \o d) = Ends(l)
<1> DEFINE r == l \o d
<1>1. d \in Seq(Event) /\ \A k \in 1 .. Len(d) : OutcomeOf(d[k]) # None => k = 1 /\ ~ended
  BY DEF DerivedFrom
<1>2. /\ r \in Seq(Event) /\ Len(r) = Len(l) + Len(d) /\ Extends(r, l)
      /\ \A i \in 1 .. Len(r) : i \in 1 .. Len(l) \/ (i - Len(l) \in 1 .. Len(d) /\ r[i] = d[i - Len(l)])
  BY <1>1, Joined
<1> HIDE DEF r
<1>3. DOMAIN r = 1 .. Len(r) /\ DOMAIN l = 1 .. Len(l) /\ Len(l) \in Nat
  BY <1>2
<1>4. Ends(l) \subseteq Ends(r)
  BY <1>2, <1>3 DEF Ends, Extends
<1>5. ASSUME NEW i \in Ends(r), i \notin Ends(l)
      PROVE  i = Len(l) + 1 /\ ~ended
  <2>1. i \in 1 .. Len(r) /\ OutcomeOf(r[i]) # None
    BY <1>3 DEF Ends
  <2>2. i \notin 1 .. Len(l)
    BY <1>2, <1>3, <1>5, <2>1 DEF Ends, Extends
  <2>3. i - Len(l) \in 1 .. Len(d) /\ r[i] = d[i - Len(l)]
    BY <1>2, <2>1, <2>2
  <2>4. i - Len(l) = 1 /\ ~ended
    BY <1>1, <2>1, <2>3
  <2> QED
    BY <1>3, <2>1, <2>4
<1> QED
  BY <1>4, <1>5 DEF r

LEMMA NotStart ==
  ASSUME NEW e \in Event, OutcomeOf(e) # None
  PROVE  ~(IsRaw(e) /\ e.type = "task_started")
BY DEF OutcomeOf, RawTerminal

LEMMA DecidedSame ==
  ASSUME NEW l \in Seq(Event), NEW r, NEW row, NEW next, Extends(r, l), Ends(r) = Ends(l),
         next.outcome = row.outcome, DecidedByFirst(l, row)
  PROVE  DecidedByFirst(r, next)
<1>1. \A i \in Ends(l) : r[i] = l[i]
  BY DEF Ends, Extends
<1> QED
  BY <1>1 DEF DecidedByFirst

(* A raw event after the first terminal leaves the decision, and decides   *)
(* if it is the first.                                                     *)
LEMMA DecidedAppend ==
  ASSUME NEW l \in Seq(Event), NEW row \in Row, NEW e \in Event, IsRaw(e),
         DecidedByFirst(l, row), OutcomeNeedsStart(row), OutcomeOf(e) # None => Started(row)
  PROVE  DecidedByFirst(l \o <<e>>, ProjectTask(row, e))
<1> DEFINE r == l \o <<e>>
           next == ProjectTask(row, e)
           n == Len(l)
<1>1. r \in Seq(Event) /\ Extends(r, l) /\ r[n + 1] = e
  BY Appended
<1>2. Ends(r) = IF OutcomeOf(e) = None THEN Ends(l) ELSE Ends(l) \cup {n + 1}
  BY EndsAppend
<1>3. /\ next # row =>
           /\ row.outcome # None => ~Started(row)
           /\ next.outcome # row.outcome => row.outcome = None /\ next.outcome = OutcomeOf(e)
      /\ Started(row) /\ row.outcome = None /\ OutcomeOf(e) # None
           /\ ~(IsRaw(e) /\ e.type = "task_started") => next.outcome = OutcomeOf(e)
  BY Projected
<1> HIDE DEF r, next
<1>4. Ends(l) \subseteq 1 .. n /\ n \in Nat
  BY DEF Ends
<1> HIDE DEF n
<1>5. CASE OutcomeOf(e) = None
  <2>1. next.outcome = row.outcome
    BY <1>3, <1>5
  <2> QED
    BY <1>1, <1>2, <1>5, <2>1, DecidedSame DEF r, next
<1>6. CASE OutcomeOf(e) # None /\ row.outcome # None
  <2>1. next = row
    BY <1>3, <1>6 DEF OutcomeNeedsStart
  <2>2. PICK i \in Ends(l) :
          /\ OutcomeOf(l[i]) = row.outcome
          /\ \A j \in Ends(l) : j = i \/ (i < j /\ IsRaw(l[j]))
    BY <1>6 DEF DecidedByFirst
  <2>3. \A j \in Ends(l) : r[j] = l[j]
    BY <1>1, <1>4 DEF Extends, n
  <2>4. i < n + 1 /\ IsRaw(r[n + 1])
    BY <1>1, <1>4
  <2>5. Ends(r) = Ends(l) \cup {n + 1}
    BY <1>2, <1>6
  <2>6. /\ i \in Ends(r) /\ OutcomeOf(r[i]) = row.outcome
        /\ \A j \in Ends(r) : j = i \/ (i < j /\ IsRaw(r[j]))
    BY <2>2, <2>3, <2>4, <2>5
  <2> QED
    BY <1>6, <2>1, <2>6 DEF DecidedByFirst, r, next
<1>7. CASE OutcomeOf(e) # None /\ row.outcome = None
  <2>1. next.outcome = OutcomeOf(e)
    BY <1>3, <1>7, NotStart
  <2>2. Ends(r) = {n + 1}
    BY <1>2, <1>7 DEF DecidedByFirst
  <2> QED
    BY <1>1, <1>7, <2>1, <2>2 DEF DecidedByFirst, r, next
<1> QED
  BY <1>5, <1>6, <1>7
-----------------------------------------------------------------------------
LEMMA SeenWritten ==
  ASSUME TypeOK, NEW b \in Tabs, NEW e \in Event, NEW u, TaskEffect(b, e, u), task' = task,
         rows' = rows
  PROVE  /\ SeenTask(b)' = ProjectTask(SeenTask(b), e) /\ SeenRows(b)' = SeenRows(b)
         /\ tx'[b] = u /\ u.own = tx[b].own /\ u.ended = tx[b].ended
<1>1. tx'[b] = u /\ u.own = tx[b].own /\ u.ended = tx[b].ended
  BY DEF TaskEffect, Same, TypeOK
<1>2. ProjectTask(SeenTask(b), e) # None
  BY SeenTyped, Projected
<1>3. \/ ProjectTask(SeenTask(b), e) = SeenTask(b) /\ u.task = tx[b].task
      \/ u.task = ProjectTask(SeenTask(b), e)
  BY DEF TaskEffect
<1>4. SeenTask(b)' = IF u.task # None THEN u.task ELSE task
  BY <1>1 DEF SeenTask
<1>5. SeenTask(b) = IF tx[b].task # None THEN tx[b].task ELSE task
  BY DEF SeenTask
<1>6. SeenTask(b)' = ProjectTask(SeenTask(b), e)
  BY <1>2, <1>3, <1>4, <1>5
<1>7. SeenRows(b)' = SeenRows(b)
  BY <1>1 DEF SeenRows
<1> QED
  BY <1>1, <1>6, <1>7

(* A step of the one transaction, short of its commit.                     *)
LEMMA SoloStep ==
  ASSUME TypeOK, NEW b \in Tabs, Solo(b), UNCHANGED <<rows, task, stage, pending, issued>>,
         nextId' \in Nat, nextId <= nextId', SoloTx(b)'
  PROVE  Solo(b)'
<1>1. \A e \in Event : e.id \in Nat
  BY DEF Event
<1>2. rows \in Seq(Event) /\ nextId \in Nat /\ (pending[b] # NoEvent => pending[b] \in Event)
  BY DEF TypeOK
<1>3. Newest(rows)'
  <2>1. \A i \in DOMAIN rows : rows[i].id \in Nat
    BY <1>1, <1>2
  <2> QED
    BY <1>2, <2>1 DEF Solo, Newest
<1>4. SoloPending(b)'
  <2>1. pending[b] # NoEvent => pending[b].id \in Nat
    BY <1>1, <1>2
  <2> QED
    BY <1>2, <2>1 DEF Solo, SoloPending
<1>5. Ordered(rows') /\ DecidedByFirst(rows', task')
  BY DEF Solo
<1> QED
  BY <1>3, <1>4, <1>5 DEF Solo

LEMMA IdleSolo ==
  ASSUME NEW b \in Tabs, tx[b] = NoTx
  PROVE  SoloTx(b)
<1>1. DOMAIN <<>> = {}
  OBVIOUS
<1> QED
  BY <1>1, NoTxTyped DEF SoloTx, Newest

LEMMA IdleSoloNext ==
  ASSUME NEW b \in Tabs, tx'[b] = NoTx
  PROVE  SoloTx(b)'
<1>1. DOMAIN <<>> = {}
  OBVIOUS
<1> QED
  BY <1>1, NoTxTyped DEF SoloTx, Newest

LEMMA EmitSolo ==
  ASSUME TypeOK, ProjectionInv, NEW b \in Tabs, Solo(b), Emit(b)
  PROVE  Solo(b)'
<1>1. PICK m \in Emissions(b), moment \in now .. MaxTime :
        /\ stage' = [stage EXCEPT ![b] = m.to]
        /\ pending' = [pending EXCEPT ![b] =
             RawRow(nextId, m.type, Session, IF m.type = "session_completed" THEN None ELSE Task,
                    m.screen, "runner", issued + 1, moment + skew, None, None)]
  BY DEF Emit
<1>2. /\ pending[b] = NoEvent /\ issued' = issued + 1 /\ nextId' = nextId + 1
      /\ UNCHANGED <<rows, task, tx>>
  BY DEF Emit, dbVars
<1> DEFINE t == IF m.type = "session_completed" THEN None ELSE Task
           e == RawRow(nextId, m.type, Session, t, m.screen, "runner", issued + 1, moment + skew,
                       None, None)
<1>3. /\ m.type \in RawTypes /\ m.screen \in Screens \cup {None} /\ m.to \in {"task", "after", "ended"}
      /\ m.type = "task_started" <=> stage[b] = "intro"
  BY Emitted DEF TypeOK
<1>4. nextId \in Nat \ {0} /\ issued \in Nat /\ skew \in Skews /\ moment \in 0 .. MaxTime
  BY DEF TypeOK
<1>5. /\ e \in Event /\ IsRaw(e) /\ e.type = m.type /\ e.seq = issued + 1 /\ e.id = nextId
      /\ e.type = "session_completed" <=> e.task = None
  <2>1. t \in {Task, None} /\ (t = None <=> m.type = "session_completed") /\ issued + 1 \in Nat
    BY <1>4
  <2> HIDE DEF t
  <2>2. e \in Event
    BY <1>3, <1>4, <2>1, RawEvent
  <2>3. IsRaw(e) /\ e.type = m.type /\ e.seq = issued + 1 /\ e.id = nextId /\ e.task = t
    BY DEF RawRow, IsRaw
  <2> HIDE DEF e
  <2> QED
    BY <2>1, <2>2, <2>3
<1>6. pending' = [pending EXCEPT ![b] = e]
  BY <1>1
<1> HIDE DEF e, t
<1>7. pending'[b] = e /\ stage'[b] = m.to
  BY <1>1, <1>6 DEF TypeOK
<1>8. tx'[b] = NoTx
  BY <1>2 DEF ProjectionInv, TxInv
<1>9. SoloTx(b)'
  BY <1>8, IdleSoloNext
<1>10. rows \in Seq(Event) /\ \A i \in DOMAIN rows : rows[i].id < nextId /\ rows[i].id \in Nat
  <2>1. \A x \in Event : x.id \in Nat
    BY DEF Event
  <2> QED
    BY <2>1 DEF TypeOK, Solo, Newest
<1>11. Newest(rows)'
  <2>1. \A i \in DOMAIN rows : rows[i].id < nextId + 1
    BY <1>4, <1>10
  <2>2. \A i \in DOMAIN rows : IsRaw(rows[i]) => rows[i].seq \in 0 .. (issued + 1)
    BY <1>4 DEF Solo, Newest
  <2> QED
    BY <1>2, <2>1, <2>2 DEF Newest
<1>12. Older(rows, e)
  BY <1>4, <1>5 DEF Solo, Newest, Older
<1>13. m.type # "task_started" => Started(task)
  BY <1>2, <1>3 DEF Solo, SoloPending
<1>14. e # NoEvent /\ m.to # "intro"
  BY <1>3, <1>5, EventAt
<1>15. SoloPending(b)'
  <2>1. Older(rows', pending'[b])
    BY <1>2, <1>7, <1>12
  <2>2. pending'[b].id < nextId' /\ pending'[b].seq = issued'
    BY <1>2, <1>4, <1>5, <1>7
  <2> QED
    BY <1>2, <1>3, <1>5, <1>7, <1>13, <1>14, <2>1, <2>2 DEF SoloPending
<1>16. Ordered(rows') /\ DecidedByFirst(rows', task')
  BY <1>2 DEF Solo
<1> QED
  BY <1>9, <1>11, <1>15, <1>16 DEF Solo

LEMMA FollowSolo ==
  ASSUME TypeOK, ProjectionInv, NEW b \in Tabs, Solo(b), Follow(b)
  PROVE  Solo(b)'
<1>1. UNCHANGED <<rows, task, tx, pending, issued, nextId>> /\ pending[b] = NoEvent
  BY DEF Follow, dbVars
<1>2. stage'[b] # "intro" /\ Started(task)
  BY DEF Follow, TypeOK, ProjectionInv, OutcomeNeedsStart
<1>3. SoloPending(b)'
  BY <1>1, <1>2 DEF SoloPending
<1>4. SoloTx(b)' /\ Newest(rows)' /\ Ordered(rows') /\ DecidedByFirst(rows', task')
  <2>1. SoloTx(b)'
    BY <1>1 DEF Solo, SoloTx, SeenTask, SeenRows, Newest
  <2>2. Newest(rows)'
    BY <1>1 DEF Solo, Newest
  <2> QED
    BY <1>1, <2>1, <2>2 DEF Solo
<1> QED
  BY <1>3, <1>4 DEF Solo

LEMMA BeginSolo ==
  ASSUME TypeOK, ProjectionInv, NEW b \in Tabs, Solo(b), Begin(b)
  PROVE  Solo(b)'
<1> DEFINE e == pending[b]
<1>1. /\ e # NoEvent
      /\ tx' = [tx EXCEPT ![b] = [NoTx EXCEPT !.step = "project", !.own = <<e>>]]
      /\ UNCHANGED <<rows, task, stage, pending, issued, nextId>>
  BY DEF Begin, dbVars
<1>2. e \in Event /\ rows \in Seq(Event) /\ nextId \in Nat
  BY <1>1 DEF TypeOK
<1>3. IsRaw(e) /\ e.id < nextId /\ e.seq = issued /\ Older(rows, e) /\ Ordered(rows)
  BY <1>1 DEF Solo, SoloPending
<1>4. tx'[b].step = "project" /\ tx'[b].own = <<e>>
  BY <1>1 DEF TypeOK, NoTx
<1> HIDE DEF e
<1>5. Ordered(SeenRows(b))'
  <2>1. SeenRows(b)' = rows \o <<e>>
    BY <1>1, <1>4 DEF SeenRows
  <2>2. Ordered(rows \o <<e>>)
    BY <1>2, <1>3, OrderedAppend
  <2> QED
    BY <2>1, <2>2
<1>6. Newest(tx[b].own)'
  <2>1. \A i \in DOMAIN <<e>> : <<e>>[i] = e
    OBVIOUS
  <2>2. issued \in 0 .. issued
    BY DEF TypeOK
  <2> QED
    BY <1>1, <1>3, <1>4, <2>1, <2>2 DEF Newest
<1>7. SoloTx(b)'
  BY <1>4, <1>5, <1>6 DEF SoloTx
<1> QED
  BY <1>1, <1>2, <1>7, SoloStep

LEMMA ProjectSolo ==
  ASSUME TypeOK, ProjectionInv, NEW b \in Tabs, Solo(b), Project(b)
  PROVE  Solo(b)'
<1> DEFINE e == pending[b]
<1>1. tx[b].step = "project" /\ UNCHANGED <<rows, task, stage, pending, issued, nextId>>
  BY DEF Project, dbVars
<1>2. TxInv(b) /\ OutcomeNeedsStart(task) /\ Ordered(SeenRows(b)) /\ Newest(tx[b].own)
  BY <1>1 DEF ProjectionInv, Solo, SoloTx
<1>3. e # NoEvent /\ e \in Event /\ tx[b].own = <<e>> /\ tx[b].task = None
  BY <1>1, <1>2 DEF TxInv, TypeOK
<1>4. /\ IsRaw(e) /\ e.type \in RawTypes
      /\ e.type # "task_started" => Started(task)
      /\ DecidedByFirst(rows, task)
  BY <1>3 DEF Solo, SoloPending
<1>5. /\ SeenTask(b) = task /\ SeenRows(b) = rows \o <<e>> /\ task \in Row /\ rows \in Seq(Event)
      /\ nextId \in Nat
  BY <1>3 DEF SeenTask, SeenRows, TypeOK
<1> DEFINE next == ProjectTask(task, e)
<1>6. DecidedByFirst(rows \o <<e>>, next)
  <2>1. OutcomeOf(e) # None => Started(task)
    BY <1>3, <1>4, NotStart
  <2> HIDE DEF e
  <2> QED
    BY <1>2, <1>3, <1>4, <1>5, <2>1, DecidedAppend
<1>7. Started(next)
  BY <1>3, <1>4, <1>5, Projected
<1> HIDE DEF next, e
<1>8. CASE EndsSession(SeenSession(b).status, pending[b])
  <2>1. tx' = [tx EXCEPT ![b].session = [SeenSession(b) EXCEPT !.status = SessionEnd[e.type],
                                                                !.completedAt = e.at],
                         ![b].step = "commit"]
    BY <1>8 DEF Project, e
  <2>2. tx'[b].step = "commit" /\ tx'[b].own = tx[b].own /\ tx'[b].task = tx[b].task
    <3>1. tx \in [Tabs -> Tx]
      BY DEF TypeOK
    <3> QED
      BY <2>1, <3>1 DEF Tx
  <2>3. SeenTask(b)' = task /\ SeenRows(b)' = SeenRows(b)
    BY <1>1, <1>3, <2>2 DEF SeenTask, SeenRows
  <2>4. next = task
    <3>1. e.type \in DOMAIN SessionEnd
      BY <1>8 DEF EndsSession, e
    <3>2. e.type = "session_completed"
      BY <1>4, <3>1 DEF SessionEnd, RawTypes
    <3>3. OutcomeOf(e) = None
      BY <1>4, <3>2 DEF OutcomeOf, RawTerminal
    <3> QED
      BY <3>2, <3>3 DEF ProjectTask, next
  <2>5. Newest(tx[b].own)'
    BY <1>1, <1>2, <2>2 DEF Newest
  <2>6. SoloTx(b)'
    BY <1>2, <1>5, <1>6, <1>7, <2>2, <2>3, <2>4, <2>5 DEF SoloTx
  <2> QED
    BY <1>1, <1>5, <2>6, SoloStep
<1>9. CASE ~EndsSession(SeenSession(b).status, pending[b])
  <2>1. TaskWritten(b, e)
    BY <1>9 DEF Project, e
  <2>2. PICK u : TaskEffect(b, e, u)
    BY <1>3, <2>1, TaskWrites
  <2>3. u.step = "check"
    BY <1>1, <2>2 DEF TaskEffect
  <2>4. SeenTask(b)' = next /\ SeenRows(b)' = rows \o <<e>> /\ tx'[b] = u /\ u.own = tx[b].own
    BY <1>1, <1>3, <1>5, <2>2, SeenWritten DEF next
  <2>5. Newest(tx[b].own)'
    BY <1>1, <1>2, <2>4 DEF Newest
  <2>6. SoloTx(b)'
    BY <1>2, <1>5, <1>6, <1>7, <2>3, <2>4, <2>5 DEF SoloTx
  <2> QED
    BY <1>1, <1>5, <2>6, SoloStep
<1> QED
  BY <1>8, <1>9

LEMMA CheckSolo ==
  ASSUME TypeOK, ProjectionInv, NEW b \in Tabs, Solo(b), Check(b)
  PROVE  Solo(b)'
<1> DEFINE seen == SeenTask(b).outcome # None
           step == IF pending[b].task = None THEN "commit" ELSE "derive"
<1>1. /\ tx[b].step = "check" /\ tx' = [tx EXCEPT ![b].ended = seen, ![b].step = step]
      /\ UNCHANGED <<rows, task, stage, pending, issued, nextId>>
  BY DEF Check, dbVars
<1>2. tx'[b].step = step /\ tx'[b].ended = seen /\ tx'[b].own = tx[b].own /\ tx'[b].task = tx[b].task
  <2>1. tx \in [Tabs -> Tx]
    BY DEF TypeOK
  <2> HIDE DEF seen, step
  <2> QED
    BY <1>1, <2>1 DEF Tx
<1>3. /\ Newest(tx[b].own) /\ Started(SeenTask(b)) /\ DecidedByFirst(SeenRows(b), SeenTask(b))
      /\ Ordered(SeenRows(b))
  BY <1>1 DEF Solo, SoloTx
<1>4. SeenTask(b)' = SeenTask(b) /\ SeenRows(b)' = SeenRows(b)
  BY <1>1, <1>2 DEF SeenTask, SeenRows
<1>5. Newest(tx[b].own)'
  BY <1>1, <1>2, <1>3 DEF Newest
<1>6. pending'[b].task # None \/ step = "commit"
  BY <1>1
<1>7. step \in {"commit", "derive"}
  OBVIOUS
<1> HIDE DEF step
<1>8. SoloTx(b)'
  BY <1>2, <1>3, <1>4, <1>5, <1>6, <1>7 DEF SoloTx
<1>9. nextId \in Nat
  BY DEF TypeOK
<1> QED
  BY <1>1, <1>8, <1>9, SoloStep

LEMMA DeriveSolo ==
  ASSUME TypeOK, ProjectionInv, NEW b \in Tabs, Solo(b), Derive(b)
  PROVE  Solo(b)'
<1> DEFINE e == pending[b]
           list == rows \o <<e>>
           ended == tx[b].ended
<1>1. PICK derived, u :
        /\ DerivedFrom(derived, e, ended, nextId)
        /\ nextId' = nextId + Len(derived)
        /\ tx' = [tx EXCEPT ![b] = u] /\ u \in Tx /\ u.step = "settle"
        /\ u.own = <<e>> \o derived
        /\ Same(u, tx[b], {"task", "session", "ended"})
  BY DeriveRows
<1>2. tx[b].step = "derive" /\ UNCHANGED <<rows, task, stage, pending, issued>>
  BY DEF Derive, dbVars
<1>3. TxInv(b) /\ tx \in [Tabs -> Tx] /\ rows \in Seq(Event) /\ nextId \in Nat \ {0}
  BY DEF ProjectionInv, TypeOK
<1>4. e # NoEvent /\ e \in Event /\ tx[b].own = <<e>> /\ ended \in BOOLEAN
  BY <1>2, <1>3 DEF TxInv, TypeOK, Tx
<1>5. IsRaw(e) /\ e.id < nextId /\ e.seq = issued /\ Newest(rows)
  BY <1>4 DEF Solo, SoloPending
<1>6. derived \in Seq(Event) /\ Len(derived) \in Nat
  BY <1>1 DEF DerivedFrom
<1>7. tx'[b] = u /\ u.task = tx[b].task /\ u.ended = ended
  BY <1>1, <1>3 DEF Same
<1>8. SeenRows(b) = list /\ SeenRows(b)' = list \o derived
  <2>1. rows \o (<<e>> \o derived) = (rows \o <<e>>) \o derived
    <3>1. <<e>> \in Seq(Event)
      BY <1>4
    <3> QED
      BY <1>3, <1>6, <3>1, ConcatAssociative
  <2> QED
    BY <1>1, <1>2, <1>4, <1>7, <2>1 DEF SeenRows
<1>9. SeenTask(b)' = SeenTask(b)
  BY <1>2, <1>7 DEF SeenTask
<1>10. /\ Started(SeenTask(b)) /\ DecidedByFirst(list, SeenTask(b)) /\ Ordered(list)
       /\ e.task # None /\ (ended <=> SeenTask(b).outcome # None)
  <2>1. /\ Started(SeenTask(b)) /\ DecidedByFirst(SeenRows(b), SeenTask(b)) /\ Ordered(SeenRows(b))
        /\ e.task # None /\ ended = (SeenTask(b).outcome # None)
    BY <1>2 DEF Solo, SoloTx
  <2> HIDE DEF list, e
  <2> QED
    BY <1>8, <2>1
<1> HIDE DEF ended
<1>11. /\ list \in Seq(Event) /\ Len(list) = Len(rows) + 1 /\ list[Len(list)] = e /\ list # <<>>
       /\ Extends(list, rows)
  <2>1. list \in Seq(Event) /\ Len(list) = Len(rows) + 1 /\ Extends(list, rows) /\ list[Len(rows) + 1] = e
    BY <1>3, <1>4, Appended
  <2> HIDE DEF list, e
  <2> QED
    BY <1>3, <2>1
<1>12. \A i \in 1 .. Len(list) : list[i].id < nextId
  <2> HIDE DEF list, e
  <2> TAKE i \in 1 .. Len(list)
  <2>1. i \in 1 .. Len(rows) \/ i = Len(list)
    BY <1>3, <1>11
  <2>2. CASE i \in 1 .. Len(rows)
    BY <1>3, <1>5, <1>11, <2>2 DEF Newest, Extends
  <2>3. CASE i = Len(list)
    BY <1>5, <1>11, <2>3
  <2> QED
    BY <2>1, <2>2, <2>3
<1>13. Ordered(list \o derived)
  <2>1. nextId \in Nat
    BY <1>3
  <2> HIDE DEF list, e
  <2> QED
    BY <1>1, <1>4, <1>5, <1>10, <1>11, <1>12, <2>1, OrderedDerived
<1>14. /\ Ends(list \o derived) \subseteq Ends(list) \cup {Len(list) + 1}
       /\ ended => Ends(list \o derived) = Ends(list)
  <2> HIDE DEF list, e
  <2> QED
    BY <1>1, <1>4, <1>11, EndsDerived
<1>15. IF ended THEN DecidedByFirst(list \o derived, SeenTask(b))
       ELSE Ends(list \o derived) \subseteq {Len(rows) + 2}
  <2> HIDE DEF list, e
  <2>1. CASE ended
    <3>1. Extends(list \o derived, list)
      BY <1>6, <1>11, Joined
    <3> QED
      BY <1>10, <1>11, <1>14, <2>1, <3>1, DecidedSame
  <2>2. CASE ~ended
    <3>1. Ends(list) = {}
      BY <1>10, <2>2 DEF DecidedByFirst
    <3>2. Len(list) + 1 = Len(rows) + 2
      BY <1>3, <1>11
    <3> QED
      BY <1>14, <2>2, <3>1, <3>2
  <2> QED
    BY <2>1, <2>2
<1>16. Newest(tx[b].own)'
  <2>1. \A i \in 1 .. Len(derived) : ~IsRaw(derived[i]) /\ derived[i].id = nextId + i - 1
    BY <1>1 DEF DerivedFrom
  <2>2. <<e>> \in Seq(Event) /\ Len(<<e>>) = 1 /\ <<e>>[1] = e
    BY <1>4
  <2> DEFINE one == <<e>>
  <2> HIDE DEF one
  <2>3. /\ one \o derived \in Seq(Event)
        /\ \A i \in 1 .. Len(one \o derived) :
             i \in 1 .. Len(one) \/ (i - Len(one) \in 1 .. Len(derived)
                                       /\ (one \o derived)[i] = derived[i - Len(one)])
        /\ Extends(one \o derived, one)
    BY <1>6, <2>2, Joined DEF one
  <2>4. Len(one) = 1 /\ one[1] = e
    BY <2>2 DEF one
  <2> HIDE DEF e
  <2>5. ASSUME NEW i \in 1 .. Len(one \o derived)
        PROVE  /\ (one \o derived)[i].id < nextId'
               /\ IsRaw((one \o derived)[i]) => (one \o derived)[i].seq \in 0 .. issued
    <3>1. CASE i \in 1 .. Len(one)
      <4>1. i = 1 /\ (one \o derived)[i] = e
        BY <2>3, <2>4, <3>1 DEF Extends
      <4>2. issued \in 0 .. issued /\ nextId <= nextId' /\ e.id < nextId'
        <5>1. e.id \in Nat
          BY <1>4 DEF Event
        <5> QED
          BY <1>1, <1>3, <1>5, <1>6, <5>1 DEF TypeOK
      <4> QED
        BY <1>5, <4>1, <4>2
    <3>2. CASE i \notin 1 .. Len(one)
      <4>1. i - 1 \in 1 .. Len(derived) /\ (one \o derived)[i] = derived[i - 1]
        BY <2>3, <2>4, <3>2
      <4>2. ~IsRaw(derived[i - 1]) /\ derived[i - 1].id = nextId + (i - 1) - 1
        BY <2>1, <4>1
      <4> QED
        BY <1>1, <1>3, <1>6, <4>1, <4>2
    <3> QED
      BY <3>1, <3>2
  <2>6. DOMAIN (one \o derived) = 1 .. Len(one \o derived)
    BY <2>3
  <2>7. tx'[b].own = one \o derived
    BY <1>1, <1>7 DEF one
  <2> QED
    BY <1>2, <2>5, <2>6, <2>7 DEF Newest
<1>17. SoloTx(b)'
  <2> HIDE DEF list
  <2>1. pending'[b].task # None /\ tx'[b].ended = (SeenTask(b)'.outcome # None)
    <3>1. ended = (SeenTask(b).outcome # None)
      BY <1>4, <1>10
    <3> QED
      BY <1>2, <1>7, <1>9, <1>10, <3>1
  <2>2. IF tx'[b].ended THEN DecidedByFirst(SeenRows(b)', SeenTask(b)')
        ELSE Ends(SeenRows(b)') \subseteq {Len(rows') + 2}
    BY <1>2, <1>7, <1>8, <1>9, <1>15
  <2>3. tx'[b].step = "settle" /\ Ordered(SeenRows(b)') /\ Started(SeenTask(b)')
    BY <1>1, <1>7, <1>8, <1>9, <1>10, <1>13
  <2> QED
    BY <1>16, <2>1, <2>2, <2>3 DEF SoloTx
<1>18. nextId' \in Nat /\ nextId <= nextId'
  BY <1>1, <1>3, <1>6
<1> QED
  BY <1>2, <1>17, <1>18, SoloStep

LEMMA SettleSolo ==
  ASSUME TypeOK, ProjectionInv, NEW b \in Tabs, Solo(b), Settle(b)
  PROVE  Solo(b)'
<1> DEFINE own == tx[b].own
           terminals == {i \in 2 .. Len(own) : OutcomeOf(own[i]) # None}
           k == CHOOSE i \in terminals : TRUE
           row == SeenTask(b)
           list == SeenRows(b)
           n == Len(rows)
<1>1. /\ tx[b].step = "settle"
      /\ UNCHANGED <<rows, task, stage, pending, issued, nextId>>
      /\ IF terminals # {} THEN TaskWritten(b, own[k])
         ELSE tx' = [tx EXCEPT ![b].step = "commit"] /\ lock' = lock
  BY DEF Settle, dbVars
<1>2. own \in Seq(Event) /\ rows \in Seq(Event) /\ row \in Row /\ nextId \in Nat
  BY SeenTyped DEF TypeOK
<1>3. /\ Newest(own) /\ Started(row) /\ (tx[b].ended <=> row.outcome # None) /\ Ordered(list)
      /\ IF tx[b].ended THEN DecidedByFirst(list, row) ELSE Ends(list) \subseteq {n + 2}
  BY <1>1 DEF Solo, SoloTx
<1>4. /\ n \in Nat /\ Len(own) \in Nat /\ DOMAIN list = 1 .. (n + Len(own))
      /\ \A i \in 1 .. Len(own) : list[n + i] = own[i]
  <2>1. list = rows \o own
    BY DEF SeenRows
  <2>2. list \in Seq(Event) /\ Len(list) = n + Len(own) /\ \A i \in 1 .. Len(own) : list[n + i] = own[i]
    BY <1>2, <2>1, Joined
  <2> HIDE DEF list
  <2> QED
    BY <1>2, <2>2
<1> HIDE DEF list, n, own, row, k, terminals
<1>5. \A i \in terminals : i \in 1 .. Len(own) /\ n + i \in Ends(list) /\ OutcomeOf(own[i]) # None
  BY <1>4 DEF terminals, Ends
<1>6. CASE terminals # {}
  <2>1. k \in terminals
    BY <1>6 DEF k
  <2> DEFINE e == own[k]
             next == ProjectTask(row, e)
  <2>2. e \in Event /\ OutcomeOf(e) # None /\ TaskWritten(b, e)
    BY <1>1, <1>2, <1>5, <1>6, <2>1
  <2> HIDE DEF e
  <2>3. PICK u : TaskEffect(b, e, u)
    BY <2>2, TaskWrites
  <2>4. u.step = "commit"
    BY <1>1, <2>3 DEF TaskEffect
  <2>5. SeenTask(b)' = next /\ SeenRows(b)' = list /\ tx'[b] = u /\ u.own = own
    BY <1>1, <2>2, <2>3, SeenWritten DEF list, row, own
  <2>6. /\ next.outcome = (IF row.outcome = None THEN OutcomeOf(e) ELSE row.outcome)
        /\ Started(next)
    <3>1. ~(IsRaw(e) /\ e.type = "task_started")
      BY <2>2, NotStart
    <3>2. CASE row.outcome = None
      BY <1>2, <1>3, <2>2, <3>1, <3>2, Projected
    <3>3. CASE row.outcome # None
      <4>1. next = row
        BY <1>3, <3>1, <3>3 DEF ProjectTask
      <4> QED
        BY <1>3, <3>3, <4>1
    <3> QED
      BY <3>2, <3>3
  <2> HIDE DEF next
  <2>7. DecidedByFirst(list, next)
    <3>1. CASE tx[b].ended
      BY <1>3, <2>6, <3>1 DEF DecidedByFirst
    <3>2. CASE ~tx[b].ended
      <4>1. n + k \in Ends(list) /\ Ends(list) \subseteq {n + 2}
        BY <1>3, <1>5, <2>1, <3>2
      <4>2. list[n + k] = e
        BY <1>4, <1>5, <2>1 DEF e
      <4>3. Ends(list) = {n + k}
        BY <4>1
      <4> QED
        BY <1>3, <2>2, <2>6, <3>2, <4>2, <4>3 DEF DecidedByFirst
    <3> QED
      BY <3>1, <3>2
  <2>8. Newest(tx[b].own)'
    BY <1>1, <1>3, <2>5 DEF Newest
  <2>9. SoloTx(b)'
    BY <1>3, <2>4, <2>5, <2>6, <2>7, <2>8 DEF SoloTx
  <2> QED
    BY <1>1, <1>2, <2>9, SoloStep
<1>7. CASE terminals = {}
  <2>1. tx'[b].step = "commit" /\ tx'[b].own = own /\ tx'[b].task = tx[b].task
    <3>1. tx' = [tx EXCEPT ![b].step = "commit"]
      BY <1>1, <1>7
    <3>2. tx \in [Tabs -> Tx]
      BY DEF TypeOK
    <3> QED
      BY <3>1, <3>2 DEF Tx, own
  <2>2. SeenTask(b)' = row /\ SeenRows(b)' = list
    BY <1>1, <2>1 DEF SeenTask, SeenRows, list, row, own
  <2>3. DecidedByFirst(list, row)
    <3>1. CASE tx[b].ended
      BY <1>3, <3>1
    <3>2. CASE ~tx[b].ended
      <4>1. Ends(list) = {}
        <5>1. SUFFICES ASSUME n + 2 \in Ends(list)
                       PROVE  FALSE
          BY <1>3, <3>2
        <5>2. 2 \in 2 .. Len(own) /\ OutcomeOf(own[2]) # None
          BY <1>4, <5>1 DEF Ends
        <5> QED
          BY <1>7, <5>2 DEF terminals
      <4> QED
        BY <1>3, <3>2, <4>1 DEF DecidedByFirst
    <3> QED
      BY <3>1, <3>2
  <2>4. Newest(tx[b].own)'
    BY <1>1, <1>3, <2>1 DEF Newest
  <2>5. SoloTx(b)'
    BY <1>3, <2>1, <2>2, <2>3, <2>4 DEF SoloTx
  <2> QED
    BY <1>1, <1>2, <2>5, SoloStep
<1> QED
  BY <1>6, <1>7

LEMMA CommitSolo ==
  ASSUME TypeOK, ProjectionInv, NEW b \in Tabs, Solo(b), Commit(b)
  PROVE  Solo(b)'
<1> DEFINE own == tx[b].own
           list == SeenRows(b)
<1>1. /\ tx[b].step = "commit" /\ rows' = list /\ task' = SeenTask(b)
      /\ tx' = [tx EXCEPT ![b] = NoTx] /\ pending' = [pending EXCEPT ![b] = NoEvent]
      /\ UNCHANGED <<stage, issued, nextId>>
  BY DEF Commit
<1>2. /\ Newest(own) /\ Started(SeenTask(b)) /\ DecidedByFirst(list, SeenTask(b)) /\ Ordered(list)
      /\ Newest(rows)
  BY <1>1 DEF Solo, SoloTx
<1>3. tx'[b] = NoTx /\ pending'[b] = NoEvent
  BY <1>1 DEF TypeOK
<1>4. SoloTx(b)'
  BY <1>3, IdleSoloNext
<1>5. SoloPending(b)'
  <2>1. pending[b] # NoEvent
    BY <1>1 DEF ProjectionInv, TxInv
  <2>2. stage[b] # "intro"
    BY <2>1 DEF Solo, SoloPending
  <2> QED
    BY <1>1, <1>2, <1>3, <2>2 DEF SoloPending
<1>6. Newest(rows)'
  <2>1. own \in Seq(Event) /\ rows \in Seq(Event) /\ list = rows \o own
    BY SeenTyped DEF TypeOK, SeenRows
  <2> HIDE DEF own, list
  <2>2. /\ list \in Seq(Event) /\ Extends(list, rows)
        /\ \A i \in 1 .. Len(list) :
             i \in 1 .. Len(rows) \/ (i - Len(rows) \in 1 .. Len(own) /\ list[i] = own[i - Len(rows)])
    BY <2>1, Joined
  <2>3. DOMAIN list = 1 .. Len(list) /\ DOMAIN rows = 1 .. Len(rows) /\ DOMAIN own = 1 .. Len(own)
    BY <2>1, <2>2
  <2>4. ASSUME NEW i \in 1 .. Len(list)
        PROVE  list[i].id < nextId /\ (IsRaw(list[i]) => list[i].seq \in 0 .. issued)
    <3>1. CASE i \in 1 .. Len(rows)
      BY <1>2, <2>2, <2>3, <3>1 DEF Newest, Extends
    <3>2. CASE i - Len(rows) \in 1 .. Len(own) /\ list[i] = own[i - Len(rows)]
      BY <1>2, <2>3, <3>2 DEF Newest
    <3> QED
      BY <2>2, <3>1, <3>2
  <2> QED
    BY <1>1, <2>3, <2>4 DEF Newest
<1> QED
  BY <1>1, <1>2, <1>4, <1>5, <1>6 DEF Solo

LEMMA FailSolo ==
  ASSUME TypeOK, ProjectionInv, NEW b \in Tabs, Solo(b), Fail(b)
  PROVE  Solo(b)'
<1>1. tx' = [tx EXCEPT ![b] = NoTx] /\ UNCHANGED <<rows, task, stage, pending, issued, nextId>>
  BY DEF Fail, dbVars
<1>2. tx'[b] = NoTx /\ nextId \in Nat
  BY <1>1 DEF TypeOK
<1> QED
  BY <1>1, <1>2, IdleSoloNext, SoloStep

LEMMA OneTab ==
  ASSUME TypeOK
  PROVE  Alone <=> \E b \in Tabs : open = {b}
<1>1. open \subseteq Tabs
  BY DEF TypeOK
<1>2. IsFiniteSet(open)
  BY <1>1, FS_Subset
<1>3. Cardinality(open) = 1 <=> \E b : open = {b}
  BY <1>2, FS_Singleton
<1> QED
  BY <1>1, <1>3 DEF Alone

LEMMA SoloInit ==
  ASSUME Init
  PROVE  SoloInv
<1>1. SUFFICES ASSUME NEW b \in open
               PROVE  Solo(b)
  BY DEF SoloInv
<1>2. b \in Tabs
  BY DEF Init
<1>3. DOMAIN rows = {} /\ task.outcome = None /\ tx[b] = NoTx /\ stage[b] = "intro" /\ pending[b] = NoEvent
  BY <1>2 DEF Init, NoRow
<1>4. SoloTx(b)
  BY <1>2, <1>3, IdleSolo
<1>5. SoloPending(b)
  BY <1>3 DEF SoloPending
<1>6. Ordered(rows) /\ Newest(rows) /\ DecidedByFirst(rows, task)
  BY <1>3 DEF Ordered, Newest, DecidedByFirst, Ends
<1> QED
  BY <1>4, <1>5, <1>6 DEF Solo

LEMMA SoloNext ==
  ASSUME TypeOK, ProjectionInv, SoloInv, [Next]_vars
  PROVE  SoloInv'
<1>1. open' = open
  BY DEF Next, Emit, Follow, Serve, Begin, Project, Check, Derive, Settle, Commit, Fail, vars
<1>2. SUFFICES ASSUME Alone
               PROVE  \A b \in open : Solo(b)'
  BY <1>1 DEF SoloInv, Alone
<1>3. PICK b \in Tabs : open = {b}
  BY <1>2, OneTab
<1>4. Solo(b)
  BY <1>2, <1>3 DEF SoloInv
<1>5. CASE Next
  <2>1. Emit(b) \/ Follow(b) \/ Serve(b) \/ Fail(b)
    BY <1>3, <1>5 DEF Next
  <2>2. Solo(b)'
    BY <1>4, <2>1, EmitSolo, FollowSolo, BeginSolo, ProjectSolo, CheckSolo, DeriveSolo, SettleSolo,
       CommitSolo, FailSolo DEF Serve
  <2> QED
    BY <1>3, <2>2
<1>6. CASE UNCHANGED vars
  <2>1. UNCHANGED <<rows, task, tx, stage, pending, issued, nextId>>
    BY <1>6 DEF vars, dbVars
  <2>2. SoloTx(b)'
    BY <1>4, <2>1 DEF Solo, SoloTx, SeenTask, SeenRows, Newest
  <2>3. nextId \in Nat
    BY DEF TypeOK
  <2>4. Solo(b)'
    BY <1>4, <2>1, <2>2, <2>3, SoloStep
  <2> QED
    BY <1>3, <2>4
<1> QED
  BY <1>5, <1>6

(* What the invariant says of the results.                                 *)
LEMMA OneDecision ==
  ASSUME TypeOK, SoloInv
  PROVE  DecidedOnce
<1>1. SUFFICES ASSUME Alone
               PROVE  Cardinality({i \in Terminals : ~IsRaw(rows[i])}) <= 1
  BY DEF DecidedOnce
<1>2. DecidedByFirst(rows, task)
  BY <1>1, OneTab DEF SoloInv, Solo
<1> DEFINE own == {i \in Terminals : ~IsRaw(rows[i])}
<1>3. Terminals = Ends(rows)
  BY DEF Terminals, Ends
<1>4. \E i : own \subseteq {i}
  BY <1>2, <1>3 DEF DecidedByFirst
<1>5. PICK i : own \subseteq {i}
  BY <1>4
<1> HIDE DEF own
<1>6. IsFiniteSet({i}) /\ Cardinality({i}) = 1
  BY FS_Singleton
<1>7. IsFiniteSet(own) /\ Cardinality(own) <= Cardinality({i})
  BY <1>5, <1>6, FS_Subset
<1> QED
  BY <1>6, <1>7 DEF own

LEMMA ReportMatches ==
  ASSUME TypeOK, SoloInv
  PROVE  RowTellsReport
<1>1. SUFFICES ASSUME Alone, Started(task)
               PROVE  task.outcome = ReportedOutcome
  BY DEF RowTellsReport
<1>2. DecidedByFirst(rows, task) /\ Ordered(rows) /\ Newest(rows)
  BY <1>1, OneTab DEF SoloInv, Solo
<1>3. Terminals = Ends(rows) /\ Terminals \subseteq DOMAIN rows /\ DOMAIN rows = 1 .. Len(rows)
  BY DEF Terminals, Ends, TypeOK
<1>4. CASE task.outcome = None
  BY <1>2, <1>3, <1>4 DEF DecidedByFirst, ReportedOutcome
<1>5. CASE task.outcome # None
  <2>1. PICK i \in Terminals :
          /\ OutcomeOf(rows[i]) = task.outcome
          /\ \A j \in Terminals : j = i \/ (i < j /\ IsRaw(rows[j]))
    BY <1>2, <1>3, <1>5 DEF DecidedByFirst
  <2>2. \A j \in DOMAIN rows : IsRaw(rows[j]) => AnchorOf(rows[j]) = rows[j].seq /\ rows[j].seq \in Int
    BY <1>2 DEF AnchorOf, Newest
  <2>3. \A j, k \in DOMAIN rows :
          j < k /\ IsRaw(rows[j]) /\ IsRaw(rows[k]) => rows[j].seq < rows[k].seq
    BY <1>2 DEF Ordered
  <2>4. \E k \in DOMAIN rows : k <= i /\ IsRaw(rows[k]) /\ AnchorOf(rows[i]) = rows[k].seq
    <3>1. CASE IsRaw(rows[i])
      BY <1>3, <2>2, <3>1
    <3>2. CASE ~IsRaw(rows[i])
      <4>1. PICK k \in DOMAIN rows : k < i /\ IsRaw(rows[k]) /\ rows[i].from = {rows[k].id}
        BY <1>2, <1>3, <3>2 DEF Ordered
      <4>2. \A j \in DOMAIN rows : rows[j].id \in rows[i].from <=> j = k
        <5>1. \A x \in Event : x.id \in Nat
          BY DEF Event
        <5>2. \A j \in DOMAIN rows : rows[j].id \in Nat /\ j \in Nat
          BY <1>3, <5>1 DEF TypeOK
        <5>3. \A x, y \in DOMAIN rows : x < y => rows[x].id < rows[y].id
          BY <1>2 DEF Ordered
        <5>4. \A j \in DOMAIN rows : rows[j].id = rows[k].id => j = k
          BY <5>2, <5>3
        <5> QED
          BY <4>1, <5>4
      <4>3. {j \in DOMAIN rows : rows[j].id \in rows[i].from} = {k}
        BY <4>2
      <4>4. {rows[j].seq : j \in {j \in DOMAIN rows : rows[j].id \in rows[i].from}} = {rows[k].seq}
        BY <4>3
      <4>5. AnchorOf(rows[i]) = rows[k].seq
        BY <3>2, <4>4 DEF AnchorOf
      <4> QED
        BY <1>3, <4>1, <4>5
    <3> QED
      BY <3>1, <3>2
  <2>5. PICK k \in DOMAIN rows : k <= i /\ IsRaw(rows[k]) /\ AnchorOf(rows[i]) = rows[k].seq
    BY <2>4
  <2>6. ASSUME NEW j \in Terminals, j # i
        PROVE  AnchorOf(rows[i]) \in Int /\ AnchorOf(rows[j]) \in Int /\ AnchorOf(rows[i]) < AnchorOf(rows[j])
    <3>1. i < j /\ IsRaw(rows[j]) /\ j \in DOMAIN rows
      BY <1>3, <2>1, <2>6
    <3>2. k < j
      BY <1>3, <2>5, <3>1
    <3> QED
      BY <2>2, <2>3, <2>5, <3>1, <3>2
  <2>7. AnchorOf(rows[i]) \in Int
    BY <2>2, <2>5
  <2> DEFINE Lowest(x) == \A j \in Terminals : AnchorOf(rows[x]) <= AnchorOf(rows[j])
  <2>8. Lowest(i)
    BY <2>6, <2>7
  <2>9. \A x \in Terminals : Lowest(x) => x = i
    BY <2>6
  <2> HIDE DEF Lowest
  <2>10. (CHOOSE x \in Terminals : Lowest(x)) = i
    BY <2>8, <2>9
  <2>11. ReportedOutcome = OutcomeOf(rows[CHOOSE x \in Terminals : Lowest(x)])
    BY DEF ReportedOutcome, Lowest
  <2> QED
    BY <2>1, <2>10, <2>11
<1> QED
  BY <1>4, <1>5

THEOREM SoloInvariant == Spec => []SoloInv
<1> QED
  BY ProjectionInvariant, SoloInit, SoloNext, PTL DEF Spec

(* With one tab open a task is decided by at most one derived terminal,    *)
(* whatever fails and is retried, and task_sessions has the outcome the    *)
(* results report.                                                         *)
THEOREM OneOutcomeForOneTab == Spec => []OneOutcome
<1>1. TypeOK /\ SoloInv => OneOutcome
  BY OneDecision, ReportMatches DEF OneOutcome
<1> QED
  BY <1>1, ProjectionInvariant, SoloInvariant, PTL
=============================================================================
