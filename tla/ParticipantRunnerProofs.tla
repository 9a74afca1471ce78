----------------------- MODULE ParticipantRunnerProofs -----------------------
(***************************************************************************)
(* Proofs about ParticipantRunner, for any number of tasks, flows, events  *)
(* and reloads: evidence follows the start of its task, an outcome is that *)
(* of the first terminal evidence, the thank-you page means completion,    *)
(* and within one load of the page a session ends as a whole.              *)
(***************************************************************************)
EXTENDS ParticipantRunner, NaturalSets

USE RunnerAssumption

(***************************************************************************)
(* The log and the lifecycle object as values, so that a step that emits   *)
(* two events is one move after another.                                   *)
(***************************************************************************)
Life == [active : Tasks \cup {None}, done : BOOLEAN, ended : BOOLEAN]

IsEvidence(x) == x.type \in TaskEnds \cup {"hit", "miss"}

StartsIn(l, i) == {e \in 1..Len(l) : l[e] = TaskEvent("task_started", i)}
EndsIn(l, i) == {e \in 1..Len(l) : l[e].task = i /\ IsEvidence(l[e])}

Supported(l) ==
  \A e \in 1..Len(l) :
    l[e].task # None /\ l[e].type # "task_started" => \E d \in StartsIn(l, l[e].task) : d < e

Extends(l, m) == Len(l) <= Len(m) /\ \A e \in 1..Len(l) : m[e] = l[e]

BegunOf(f) == f.ended \/ f.active # None

\* The log and the lifecycle of a page.
Sound(l, f) ==
  /\ l \in Seq(Event) /\ Len(l) > 0 /\ f \in Life
  /\ Supported(l)
  /\ f.active # None => StartsIn(l, f.active) # {}

\* What they are within the first load.
Clean(l, f) ==
  /\ f.ended <=> l[Len(l)].type \in SessionEnds
  /\ f.ended => f.active = None \/ f.done
  /\ \A i \in Tasks : StartsIn(l, i) # {} => EndsIn(l, i) # {} \/ (f.active = i /\ ~f.done)
  /\ \A e \in 1..Len(l) : l[e].type \in SessionEnds => e = Len(l)

\* A step of the page leads from the one to the other.
Leads(l, f, m, g) ==
  /\ Sound(m, g) /\ Extends(l, m)
  /\ BegunOf(f) => BegunOf(g)
  /\ Clean(l, f) => Clean(m, g)

LEMMA NoneIsNoTask == None \notin Tasks
BY DEF None, Tasks

LEMMA Appended ==
  ASSUME NEW l \in Seq(Event), NEW x \in Event
  PROVE  /\ Append(l, x) \in Seq(Event) /\ Len(Append(l, x)) = Len(l) + 1
         /\ Append(l, x)[Len(l) + 1] = x
         /\ \A e \in 1..Len(l) : Append(l, x)[e] = l[e]
         /\ Extends(l, Append(l, x))
         /\ Len(l) \in Nat /\ \A e \in 1..Len(l) : l[e] \in Event
BY DEF Extends

LEMMA Extended ==
  ASSUME NEW l \in Seq(Event), NEW m \in Seq(Event), Extends(l, m), NEW i
  PROVE  StartsIn(l, i) \subseteq StartsIn(m, i) /\ EndsIn(l, i) \subseteq EndsIn(m, i)
BY DEF Extends, StartsIn, EndsIn

LEMMA StartsAppended ==
  ASSUME NEW l \in Seq(Event), NEW x \in Event, NEW i
  PROVE  StartsIn(Append(l, x), i) =
           StartsIn(l, i) \cup (IF x = TaskEvent("task_started", i) THEN {Len(l) + 1} ELSE {})
<1> DEFINE m == Append(l, x)
<1>1. /\ Len(m) = Len(l) + 1 /\ Len(l) \in Nat /\ m[Len(l) + 1] = x
      /\ \A e \in 1..Len(l) : m[e] = l[e]
  BY Appended
<1> HIDE DEF m
<1>2. \A e : e \in 1..Len(m) <=> e \in 1..Len(l) \/ e = Len(l) + 1
  BY <1>1
<1> QED
  BY <1>1, <1>2 DEF StartsIn, m

LEMMA StartsKept ==
  ASSUME NEW l \in Seq(Event), NEW x \in Event, x.type # "task_started"
  PROVE  \A i : StartsIn(Append(l, x), i) = StartsIn(l, i)
<1> TAKE i
<1>1. x # TaskEvent("task_started", i)
  BY DEF TaskEvent
<1>2. StartsIn(Append(l, x), i) =
        StartsIn(l, i) \cup (IF x = TaskEvent("task_started", i) THEN {Len(l) + 1} ELSE {})
  BY StartsAppended
<1> QED
  BY <1>1, <1>2

LEMMA EndsAppended ==
  ASSUME NEW l \in Seq(Event), NEW x \in Event, NEW i
  PROVE  EndsIn(l, i) \subseteq EndsIn(Append(l, x), i)
         /\ (x.task = i /\ IsEvidence(x) => EndsIn(Append(l, x), i) # {})
<1> DEFINE m == Append(l, x)
<1>1. /\ Len(m) = Len(l) + 1 /\ Len(l) \in Nat /\ m[Len(l) + 1] = x
      /\ \A e \in 1..Len(l) : m[e] = l[e]
  BY Appended
<1> HIDE DEF m
<1> QED
  BY <1>1 DEF EndsIn, m

\* An event of a task that was started may follow.
LEMMA SupportedAppended ==
  ASSUME NEW l \in Seq(Event), Supported(l), NEW x \in Event,
         x.task # None /\ x.type # "task_started" => StartsIn(l, x.task) # {}
  PROVE  Supported(Append(l, x))
<1> DEFINE m == Append(l, x)
<1>1. /\ Len(m) = Len(l) + 1 /\ Len(l) \in Nat /\ m[Len(l) + 1] = x
      /\ \A e \in 1..Len(l) : m[e] = l[e]
  BY Appended
<1>2. \A i : StartsIn(l, i) \subseteq StartsIn(m, i)
  BY StartsAppended
<1> HIDE DEF m
<1> SUFFICES ASSUME NEW e \in 1..Len(m), m[e].task # None, m[e].type # "task_started"
             PROVE  \E d \in StartsIn(m, m[e].task) : d < e
  BY DEF Supported, m
<1>3. CASE e \in 1..Len(l)
  BY <1>1, <1>2, <1>3 DEF Supported
<1>4. CASE e = Len(l) + 1
  <2>1. PICK d : d \in StartsIn(l, x.task)
    BY <1>1, <1>4
  <2>2. d < e
    BY <1>1, <1>4, <2>1 DEF StartsIn
  <2> QED
    BY <1>1, <1>2, <1>4, <2>1, <2>2
<1> QED
  BY <1>1, <1>3, <1>4

-----------------------------------------------------------------------------
(* The moves of a page that has not ended.                                 *)

LEMMA Rests == ASSUME NEW l, NEW f, Sound(l, f) PROVE Leads(l, f, l, f)
BY DEF Sound, Leads, Extends

LEMMA LeadsOn ==
  ASSUME NEW l, NEW f, NEW m, NEW g, NEW n, NEW h,
         Sound(l, f), Leads(l, f, m, g), Leads(m, g, n, h)
  PROVE  Leads(l, f, n, h)
<1>1. Len(l) \in Nat /\ Len(m) \in Nat /\ Len(n) \in Nat
  BY DEF Sound, Leads
<1>2. Extends(l, n)
  BY <1>1 DEF Leads, Extends
<1> QED
  BY <1>2 DEF Leads

\* An event that is no end of the session leaves the first load clean, if it
\* leaves every started task decided or open.
LEMMA CleanAppended ==
  ASSUME NEW l, NEW f, Sound(l, f), NEW x \in Event, NEW g,
         Clean(l, f), ~f.ended, x.type \notin SessionEnds, ~g.ended,
         \A i \in Tasks : StartsIn(Append(l, x), i) # {} =>
           EndsIn(Append(l, x), i) # {} \/ (g.active = i /\ ~g.done)
  PROVE  Clean(Append(l, x), g)
<1> DEFINE m == Append(l, x)
<1>1. /\ Len(m) = Len(l) + 1 /\ Len(l) \in Nat /\ m[Len(l) + 1] = x
      /\ \A e \in 1..Len(l) : m[e] = l[e]
  BY Appended DEF Sound
<1> HIDE DEF m
<1>2. \A e \in 1..Len(m) : m[e].type \notin SessionEnds
  <2> TAKE e \in 1..Len(m)
  <2>1. CASE e = Len(l) + 1
    BY <1>1, <2>1
  <2>2. CASE e \in 1..Len(l)
    <3>1. l[Len(l)].type \notin SessionEnds
      BY DEF Clean
    <3>2. l[e].type \notin SessionEnds
      BY <2>2, <3>1 DEF Clean
    <3> QED
      BY <1>1, <2>2, <3>2
  <2> QED
    BY <1>1, <2>1, <2>2
<1>3. m[Len(m)].type \notin SessionEnds
  BY <1>1
<1> QED
  BY <1>2, <1>3 DEF Clean, m

LEMMA StartMoves ==
  ASSUME NEW l, NEW f, Sound(l, f), NEW i \in Tasks, CanStart(f)
  PROVE  Leads(l, f, Append(l, TaskEvent("task_started", i)),
               [f EXCEPT !.active = i, !.done = FALSE])
<1> DEFINE x == TaskEvent("task_started", i)
           m == Append(l, x)
           g == [f EXCEPT !.active = i, !.done = FALSE]
<1>1. x \in Event /\ x.type = "task_started" /\ x.task = i
  BY DEF TaskEvent, Event
<1>2. g \in Life /\ g.active = i /\ ~g.done /\ g.ended = f.ended
  BY DEF Sound, Life
<1>3. \A j : StartsIn(m, j) = StartsIn(l, j) \cup (IF x = TaskEvent("task_started", j) THEN {Len(l) + 1} ELSE {})
  BY <1>1, StartsAppended DEF Sound
<1>4. \A j : EndsIn(l, j) \subseteq EndsIn(m, j)
  BY <1>1, EndsAppended DEF Sound
<1>5. \A j : x = TaskEvent("task_started", j) => j = i
  BY DEF TaskEvent
<1>6. StartsIn(m, i) # {}
  BY <1>3
<1>7. m \in Seq(Event) /\ Len(m) > 0 /\ Extends(l, m)
  BY <1>1, Appended DEF Sound
<1>8. Supported(m)
  BY <1>1, SupportedAppended DEF Sound
<1> HIDE DEF x, m, g
<1>9. Sound(m, g)
  BY <1>2, <1>6, <1>7, <1>8 DEF Sound
<1>10. ASSUME Clean(l, f) PROVE Clean(m, g)
  <2>1. \A j \in Tasks : StartsIn(m, j) # {} => EndsIn(m, j) # {} \/ (g.active = j /\ ~g.done)
    <3> TAKE j \in Tasks
    <3>1. CASE j = i
      BY <1>2, <3>1
    <3>2. CASE j # i
      <4>1. StartsIn(m, j) = StartsIn(l, j)
        BY <1>3, <1>5, <3>2
      <4>2. StartsIn(l, j) # {} => EndsIn(l, j) # {}
        BY <1>10, NoneIsNoTask DEF Clean, CanStart
      <4> QED
        BY <1>4, <4>1, <4>2
    <3> QED
      BY <3>1, <3>2
  <2> QED
    BY <1>1, <1>2, <1>10, <2>1, CleanAppended DEF CanStart, SessionEnds, m
<1>11. BegunOf(g)
  BY <1>2, NoneIsNoTask DEF BegunOf
<1> QED
  BY <1>7, <1>9, <1>10, <1>11 DEF Leads, m, x, g

\* An interaction with a task that was started, while it or none is active.
LEMMA InteractionMoves ==
  ASSUME NEW l, NEW f, Sound(l, f), NEW i \in Tasks, NEW k \in Interactions,
         ~f.ended, StartsIn(l, i) # {}
  PROVE  Leads(l, f, Append(l, TaskEvent(k, i)), f)
<1> DEFINE x == TaskEvent(k, i)
           m == Append(l, x)
<1>1. x \in Event /\ x.type = k /\ x.task = i /\ k # "task_started" /\ k \notin SessionEnds
  BY DEF TaskEvent, Event, Interactions, SessionEnds
<1>2. l \in Seq(Event)
  BY DEF Sound
<1>3. \A j : StartsIn(m, j) = StartsIn(l, j)
  <2> HIDE DEF x
  <2> QED
    BY <1>1, <1>2, StartsKept
<1>4. \A j : EndsIn(l, j) \subseteq EndsIn(m, j)
  BY <1>1, EndsAppended DEF Sound
<1>5. m \in Seq(Event) /\ Len(m) > 0 /\ Extends(l, m)
  BY <1>1, Appended DEF Sound
<1>6. Supported(m)
  BY <1>1, SupportedAppended DEF Sound
<1> HIDE DEF x, m
<1>7. Sound(m, f)
  BY <1>3, <1>5, <1>6 DEF Sound
<1>8. ASSUME Clean(l, f) PROVE Clean(m, f)
  <2>1. \A j \in Tasks : StartsIn(m, j) # {} => EndsIn(m, j) # {} \/ (f.active = j /\ ~f.done)
    BY <1>3, <1>4, <1>8 DEF Clean
  <2> QED
    BY <1>1, <1>8, <2>1, CleanAppended DEF m
<1> QED
  BY <1>5, <1>7, <1>8 DEF Leads, m, x

\* The active task is done, by an event or by what is on record.
LEMMA EndMoves ==
  ASSUME NEW l, NEW f, Sound(l, f), NEW type \in TaskEnds, CanEndTask(f)
  PROVE  Leads(l, f, Append(l, TaskEvent(type, f.active)), [f EXCEPT !.done = TRUE])
<1> DEFINE x == TaskEvent(type, f.active)
           m == Append(l, x)
           g == [f EXCEPT !.done = TRUE]
<1>1. x \in Event /\ x.type = type /\ x.task = f.active /\ f.active \in Tasks
      /\ type # "task_started" /\ type \notin SessionEnds /\ IsEvidence(x)
  BY DEF TaskEvent, Event, TaskEnds, SessionEnds, Sound, Life, CanEndTask, IsEvidence
<1>2. l \in Seq(Event)
  BY DEF Sound
<1>3. \A j : StartsIn(m, j) = StartsIn(l, j)
  <2> HIDE DEF x
  <2> QED
    BY <1>1, <1>2, StartsKept
<1>4. (\A j : EndsIn(l, j) \subseteq EndsIn(m, j)) /\ EndsIn(m, f.active) # {}
  BY <1>1, EndsAppended DEF Sound
<1>5. m \in Seq(Event) /\ Len(m) > 0 /\ Extends(l, m)
  BY <1>1, Appended DEF Sound
<1>6. StartsIn(l, f.active) # {}
  BY DEF Sound, CanEndTask
<1>7. Supported(m)
  BY <1>1, <1>6, SupportedAppended DEF Sound
<1>8. g \in Life /\ g.active = f.active /\ g.done /\ g.ended = f.ended
  BY DEF Sound, Life
<1> HIDE DEF x, m, g
<1>9. Sound(m, g)
  BY <1>3, <1>5, <1>7, <1>8 DEF Sound
<1>10. ASSUME Clean(l, f) PROVE Clean(m, g)
  <2>1. \A j \in Tasks : StartsIn(m, j) # {} => EndsIn(m, j) # {} \/ (g.active = j /\ ~g.done)
    BY <1>3, <1>4, <1>10 DEF Clean
  <2> QED
    BY <1>1, <1>8, <1>10, <2>1, CleanAppended DEF m, CanEndTask
<1> QED
  BY <1>5, <1>8, <1>9, <1>10 DEF Leads, BegunOf, m, x, g

LEMMA MarkMoves ==
  ASSUME NEW l, NEW f, Sound(l, f), f.done \/ EndsIn(l, f.active) # {}
  PROVE  Leads(l, f, l, [f EXCEPT !.done = TRUE])
<1> DEFINE g == [f EXCEPT !.done = TRUE]
<1>1. g \in Life /\ g.active = f.active /\ g.done /\ g.ended = f.ended
  BY DEF Sound, Life
<1> HIDE DEF g
<1>2. Sound(l, g) /\ Extends(l, l)
  BY <1>1 DEF Sound, Extends
<1>3. Clean(l, f) => Clean(l, g)
  BY <1>1 DEF Clean
<1> QED
  BY <1>1, <1>2, <1>3 DEF Leads, BegunOf, g

\* The session ends: no task is open.
LEMMA CloseMoves ==
  ASSUME NEW l, NEW f, Sound(l, f), NEW type \in SessionEnds, CanComplete(f)
  PROVE  Leads(l, f, Append(l, SessionEvent(type)), [f EXCEPT !.ended = TRUE])
<1> DEFINE x == SessionEvent(type)
           m == Append(l, x)
           g == [f EXCEPT !.ended = TRUE]
<1>1. x \in Event /\ x.type = type /\ x.task = None /\ type # "task_started"
  BY DEF SessionEvent, Event, SessionEnds
<1>2. l \in Seq(Event)
  BY DEF Sound
<1>3. \A j : StartsIn(m, j) = StartsIn(l, j)
  <2> HIDE DEF x
  <2> QED
    BY <1>1, <1>2, StartsKept
<1>4. \A j : EndsIn(l, j) \subseteq EndsIn(m, j)
  BY <1>1, EndsAppended DEF Sound
<1>5. m \in Seq(Event) /\ Len(m) > 0 /\ Extends(l, m)
      /\ Len(m) = Len(l) + 1 /\ Len(l) \in Nat /\ m[Len(l) + 1] = x /\ \A e \in 1..Len(l) : m[e] = l[e]
  BY <1>1, Appended DEF Sound
<1>6. Supported(m)
  BY <1>1, SupportedAppended DEF Sound
<1>7. g \in Life /\ g.active = f.active /\ g.done = f.done /\ g.ended
  BY DEF Sound, Life
<1> HIDE DEF x, m, g
<1>8. Sound(m, g)
  BY <1>3, <1>5, <1>6, <1>7 DEF Sound
<1>9. ASSUME Clean(l, f) PROVE Clean(m, g)
  <2>1. l[Len(l)].type \notin SessionEnds
    BY <1>9 DEF Clean, CanComplete
  <2>2. \A e \in 1..Len(l) : l[e].type \notin SessionEnds
    BY <1>9, <2>1 DEF Clean
  <2>3. \A e \in 1..Len(m) : m[e].type \in SessionEnds => e = Len(m)
    BY <1>5, <2>2
  <2>4. m[Len(m)].type \in SessionEnds
    BY <1>1, <1>5
  <2>5. \A j \in Tasks : StartsIn(m, j) # {} => EndsIn(m, j) # {}
    BY <1>3, <1>4, <1>9, NoneIsNoTask DEF Clean, CanComplete
  <2>6. g.active = None \/ g.done
    BY <1>7 DEF CanComplete
  <2> QED
    BY <1>7, <2>3, <2>4, <2>5, <2>6 DEF Clean
<1> QED
  BY <1>5, <1>7, <1>8, <1>9 DEF Leads, BegunOf, m, x, g

-----------------------------------------------------------------------------
(* TypeOK and RunnerInv by what they are about: the database, what the     *)
(* page shows, and a flow.                                                 *)

ViewOK(v) ==
  /\ v \in View
  /\ v.status # "active" => v.status = status
  /\ \A i \in Tasks :
       /\ v.outcome[i] # "none" => StartsIn(log, i) # {}
       /\ Terminal(v.outcome[i]) => outcome[i] = v.outcome[i]

FlowOK(f) ==
  /\ f \in Flow /\ ViewOK(f.view)
  /\ f.at = "post" => f.kind = "feedback"
  /\ f.at \in {"fetch", "reply"} => f.kind \notin {"consent", "start", "finish"}
  /\ f.kind = "finish" => \E e \in 1..Len(log) : log[e].type = "session_completed"
  /\ f.kind = "start" => BegunOf(life)

StageOK ==
  /\ stage \in Stages /\ index \in Tasks
  /\ ThankYouMeansCompleted
  /\ stage \in {"runner", "give-up-confirm"} => BegunOf(life) \/ StartsIn(log, index) # {}

Server ==
  /\ target \in Targets /\ submitted \subseteq Tasks
  /\ recorded \in 0..Len(log) /\ status \in Statuses
  /\ outcome \in [Tasks -> {"none", "open"} \cup Outcomes]
  /\ derived \in [Tasks -> Nat]
  /\ OutcomesReproducible /\ EndIsRecorded /\ DerivedOnce

Parts ==
  /\ Sound(log, life) /\ Server /\ StageOK
  /\ \A f \in flows : FlowOK(f)
  /\ reloads \in 0..MaxReloads /\ (reloads = 0 => Clean(log, life))

LEMMA PartsSay == Parts => TypeOK /\ RunnerInv
<1> SUFFICES ASSUME Parts PROVE TypeOK /\ RunnerInv
  OBVIOUS
<1>1. log \in Seq(Event) /\ log # <<>>
  BY DEF Parts, Sound
<1>2. derived \in [Tasks -> 0..MaxEvents]
  BY DEF Parts, Server, DerivedOnce
<1>3. TypeOK
  BY <1>1, <1>2 DEF Parts, Server, StageOK, FlowOK, Sound, Life, TypeOK
<1>4. \A i : Starts(i) = StartsIn(log, i)
  BY DEF Starts, StartsIn
<1>5. \A i : Ends(i) = EndsIn(log, i)
  BY DEF Ends, EndsIn, IsEvidence
<1>6. NoEvidenceBeforeStart
  BY <1>4 DEF Parts, Sound, Supported, NoEvidenceBeforeStart
<1>7. ViewsArePast /\ FlowsOrderly
  BY <1>4 DEF Parts, FlowOK, ViewOK, ViewsArePast, FlowsOrderly
<1>8. ActiveHasStarted
  BY <1>4 DEF Parts, Sound, FlowOK, StageOK, ActiveHasStarted, Begun, BegunOf
<1>9. EndIsLast /\ (reloads = 0 => FirstLoad)
  BY <1>4, <1>5 DEF Parts, Clean, EndIsLast, FirstLoad
<1> QED
  BY <1>3, <1>6, <1>7, <1>8, <1>9 DEF Parts, Server, StageOK, RunnerInv

LEMMA NoViewOK == ViewOK(NoView)
BY DEF ViewOK, NoView, View, Statuses, Terminal, Outcomes

(***************************************************************************)
(* A step of the page: the database is left alone, the log and the         *)
(* lifecycle move on, and stage and flows are in order after it.           *)
(***************************************************************************)
Moves == Leads(log, life, log', life')

Untouched == UNCHANGED <<target, recorded, status, outcome, derived>> /\ submitted' \subseteq Tasks

PageStep ==
  /\ Untouched /\ reloads' = reloads
  /\ Moves /\ StageOK'
  /\ \A f \in flows' : FlowOK(f)'

LEMMA RecordStays ==
  ASSUME Parts, Untouched, Moves
  PROVE  Server'
<1>1. /\ Extends(log, log') /\ log \in Seq(Event) /\ log' \in Seq(Event)
      /\ Len(log) \in Nat /\ Len(log') \in Nat /\ recorded \in 0..Len(log)
  BY DEF Moves, Leads, Sound, Parts, Server
<1>2. Len(log) <= Len(log') /\ \A e \in 1..recorded : log'[e] = log[e]
  BY <1>1 DEF Extends
<1>3. recorded' = recorded /\ recorded \in 0..Len(log')
  BY <1>1, <1>2 DEF Untouched
<1>4. EndIsRecorded'
  BY <1>2, <1>3 DEF Parts, Server, EndIsRecorded, Untouched
<1>5. OutcomesReproducible'
  <2> SUFFICES ASSUME NEW i \in Tasks
               PROVE  outcome'[i] = IF \A e \in Starts(i)' : e > recorded' THEN "none"
                                    ELSE IF TerminalEvidence(i)' = {} THEN "open"
                                    ELSE OutcomeOf(log'[Min(TerminalEvidence(i)')].type)
    BY DEF OutcomesReproducible
  <2>1. TerminalEvidence(i)' = TerminalEvidence(i) /\ TerminalEvidence(i) \in SUBSET Nat
    BY <1>2, <1>3 DEF TerminalEvidence
  <2>2. (\A e \in Starts(i)' : e > recorded') <=> (\A e \in Starts(i) : e > recorded)
    BY <1>1, <1>2, <1>3 DEF Starts
  <2>3. TerminalEvidence(i) # {} => Min(TerminalEvidence(i)) \in TerminalEvidence(i)
    BY <2>1, LeastElement
  <2>4. TerminalEvidence(i) # {} => log'[Min(TerminalEvidence(i)')] = log[Min(TerminalEvidence(i))]
    BY <1>2, <2>1, <2>3 DEF TerminalEvidence
  <2> QED
    BY <2>1, <2>2, <2>4 DEF Parts, Server, OutcomesReproducible, Untouched
<1> QED
  BY <1>3, <1>4, <1>5 DEF Parts, Server, DerivedOnce, Untouched

LEMMA PageStepKeeps == Parts /\ PageStep => Parts'
<1> SUFFICES ASSUME Parts, PageStep PROVE Parts'
  OBVIOUS
<1>1. Server'
  BY RecordStays DEF PageStep
<1>2. Sound(log, life)' /\ (Clean(log, life) => Clean(log, life)')
  BY DEF PageStep, Moves, Leads
<1> QED
  BY <1>1, <1>2 DEF Parts, PageStep, Moves

\* Flows that go on, and views, are still in order.
LEMMA FlowsStay ==
  ASSUME Parts, Untouched, Moves
  PROVE  /\ \A f \in flows : FlowOK(f)'
         /\ \A v : ViewOK(v) => ViewOK(v)'
         /\ ViewOK(NoView)'
<1>1. \A i : StartsIn(log, i) # {} => StartsIn(log', i) # {}
  BY Extended DEF Moves, Leads, Sound, Parts
<1>2. ASSUME NEW v, ViewOK(v) PROVE ViewOK(v)'
  BY <1>1, <1>2 DEF ViewOK, Untouched
<1>3. ASSUME NEW f \in flows PROVE FlowOK(f)'
  <2>1. FlowOK(f)
    BY DEF Parts
  <2>2. ViewOK(f.view)'
    BY <1>2, <2>1 DEF FlowOK
  <2>3. (\E e \in 1..Len(log) : log[e].type = "session_completed")
          => \E e \in 1..Len(log') : log'[e].type = "session_completed"
    BY DEF Moves, Leads, Extends, Sound, Parts
  <2>4. BegunOf(life) => BegunOf(life)'
    BY DEF Moves, Leads, BegunOf
  <2> QED
    BY <2>1, <2>2, <2>3, <2>4 DEF FlowOK
<1>4. ViewOK(NoView)
  BY NoViewOK
<1> QED
  BY <1>2, <1>3, <1>4

\* The page shows what it showed, or neither the runner nor thanks.
LEMMA StageStays ==
  ASSUME Parts, Untouched, Moves, index' \in Tasks,
         \/ stage' = stage /\ index' = index
         \/ stage' = stage /\ StartsIn(log, index') # {}
         \/ stage' \in Stages \ {"complete", "runner", "give-up-confirm"}
  PROVE  StageOK'
<1>1. \A i : StartsIn(log, i) # {} => StartsIn(log', i) # {}
  BY Extended DEF Moves, Leads, Sound, Parts
<1>2. BegunOf(life) => BegunOf(life')
  BY DEF Moves, Leads
<1>3. CASE stage' = stage /\ (index' = index \/ StartsIn(log, index') # {})
  BY <1>1, <1>2, <1>3 DEF Parts, StageOK, ThankYouMeansCompleted, Untouched
<1>4. CASE stage' \in Stages \ {"complete", "runner", "give-up-confirm"}
  BY <1>4 DEF StageOK, ThankYouMeansCompleted
<1> QED
  BY <1>3, <1>4

LEMMA StillMoves == ASSUME Parts, log' = log, life' = life PROVE Moves
BY Rests DEF Moves, Parts

\* A flow that is launched.
LEMMA Launched ==
  ASSUME Parts, Untouched, Moves, NEW kind, NEW at, NEW busy,
         \/ kind = "start" /\ at = "deliver" /\ BegunOf(life')
         \/ kind \in {"giveup", "timeout", "continue", "sync", "retry"} /\ at = "deliver"
         \/ kind = "feedback" /\ at = "post"
         \/ kind = "poll" /\ at = "fetch",
         busy \in BOOLEAN,
         flows' = flows \cup {Started(kind, at, busy)}
  PROVE  \A f \in flows' : FlowOK(f)'
<1> DEFINE g == Started(kind, at, busy)
<1>1. /\ g \in Flow /\ g.kind = kind /\ g.at = at /\ g.view = NoView
  BY NoViewOK DEF Started, Flow, FlowKinds, ViewOK, Parts, StageOK
<1> HIDE DEF g
<1>2. ViewOK(NoView)'
  BY FlowsStay
<1> SUFFICES ASSUME NEW x \in flows' PROVE FlowOK(x)'
  OBVIOUS
<1>3. CASE x = g
  BY <1>1, <1>2, <1>3 DEF FlowOK
<1>4. CASE x \in flows
  BY <1>4, FlowsStay
<1> QED
  BY <1>3, <1>4 DEF g

LEMMA StartTaskStep == ASSUME Parts, StartTask PROVE PageStep
<1>1. Untouched /\ reloads' = reloads
  BY DEF StartTask, serverVars, Untouched, Parts, Server
<1>2. index \in Tasks /\ life \in Life /\ Sound(log, life)
  BY DEF Parts, StageOK, Sound
<1>3. Moves /\ BegunOf(life')
  <2>1. CASE CanStart(life)
    <3>1. log' = Append(log, TaskEvent("task_started", index))
      BY <2>1 DEF StartTask
    <3>2. life' = [life EXCEPT !.active = index, !.done = FALSE]
      BY <2>1 DEF StartTask
    <3>3. Leads(log, life, log', life')
      BY <1>2, <2>1, <3>1, <3>2, StartMoves
    <3>4. life'.active = index
      BY <1>2, <3>2 DEF Life
    <3> QED
      BY <1>2, <3>3, <3>4, NoneIsNoTask DEF Moves, BegunOf
  <2>2. CASE ~CanStart(life)
    <3>1. log' = log /\ life' = life
      BY <2>2 DEF StartTask
    <3> QED
      BY <2>2, <3>1, StillMoves DEF CanStart, BegunOf
  <2> QED
    BY <2>1, <2>2
<1>4. \A f \in flows' : FlowOK(f)'
  <2>1. flows' = flows \cup {Started("start", "deliver", TRUE)}
    BY DEF StartTask, Launch
  <2> QED
    BY <1>1, <1>3, <2>1, Launched DEF FlowKinds
<1>5. StageOK'
  BY <1>1, <1>2, <1>3, StageStays DEF StartTask
<1> QED
  BY <1>1, <1>3, <1>4, <1>5 DEF PageStep

LEMMA InteractStep == ASSUME Parts, NEW k \in Interactions, Interact(k) PROVE PageStep
<1>1. Untouched /\ reloads' = reloads
  BY DEF Interact, serverVars, Untouched, Parts, Server
<1>2. index \in Tasks /\ life \in Life /\ Sound(log, life)
  BY DEF Parts, StageOK, Sound
<1>3. Moves
  <2>1. log' = Append(log, TaskEvent(k, index)) /\ life' = life
    BY DEF Interact
  <2>2. StartsIn(log, index) # {}
    BY <1>2 DEF Interact, Accepts, Parts, StageOK, BegunOf, Sound
  <2>3. Leads(log, life, log', life')
    BY <1>2, <2>1, <2>2, InteractionMoves DEF Interact, Accepts
  <2> QED
    BY <2>3 DEF Moves
<1>4. \A f \in flows' : FlowOK(f)'
  <2>1. flows' = flows \cup {Started("sync", "deliver", FALSE)}
    BY DEF Interact, Launch
  <2> QED
    BY <1>1, <1>3, <2>1, Launched DEF FlowKinds
<1>5. StageOK'
  BY <1>1, <1>2, <1>3, StageStays DEF Interact
<1> QED
  BY <1>1, <1>3, <1>4, <1>5 DEF PageStep

\* Ending the active task, and blocking the session.
LEMMA EndTaskMoves ==
  ASSUME Parts, NEW type \in TaskEnds, EndTask(type) PROVE Moves
<1>1. CASE CanEndTask(life)
  <2>1. log' = Append(log, TaskEvent(type, life.active)) /\ life' = [life EXCEPT !.done = TRUE]
    BY <1>1 DEF EndTask
  <2>2. Leads(log, life, log', life')
    BY <1>1, <2>1, EndMoves DEF Parts
  <2> QED
    BY <2>2 DEF Moves
<1>2. CASE ~CanEndTask(life)
  BY <1>2, StillMoves DEF EndTask
<1> QED
  BY <1>1, <1>2

LEMMA BlockMoves ==
  ASSUME Parts, Block PROVE Moves
<1> DEFINE close == SessionEvent("session_technical_blocked")
<1>1. close \in Event /\ "session_technical_blocked" \in SessionEnds
  BY DEF SessionEvent, Event, SessionEnds
<1>2. Sound(log, life) /\ log \in Seq(Event) /\ Len(log) \in Nat /\ life \in Life
  BY DEF Parts, Sound
<1>3. CASE life.ended
  BY <1>3, StillMoves DEF Block
<1>4. CASE ~life.ended /\ CanEndTask(life)
  <2> DEFINE x == TaskEvent("task_technical_blocked", life.active)
             m == Append(log, x)
             g == [life EXCEPT !.done = TRUE]
             n == Append(m, close)
             h == [g EXCEPT !.ended = TRUE]
  <2>1. x \in Event /\ "task_technical_blocked" \in TaskEnds
    BY <1>2 DEF TaskEvent, Event, TaskEnds, Life
  <2>2. Leads(log, life, m, g)
    BY <1>2, <1>4, <2>1, EndMoves
  <2>3. CanComplete(g)
    BY <1>2, <1>4 DEF CanComplete, Life
  <2>4. Leads(m, g, n, h)
    <3>1. Sound(m, g)
      BY <2>2 DEF Leads
    <3> HIDE DEF m, g
    <3> QED
      BY <1>1, <2>3, <3>1, CloseMoves
  <2>5. Leads(log, life, n, h)
    <3> HIDE DEF m, g, n, h
    <3> QED
      BY <1>2, <2>2, <2>4, LeadsOn
  <2>6. log' = n
    <3>1. log' = log \o <<x>> \o <<close>>
      BY <1>4 DEF Block
    <3> HIDE DEF x, close
    <3> QED
      BY <1>1, <1>2, <2>1, <3>1
  <2>7. life' = h
    BY <1>2, <1>4 DEF Block, Life
  <2> HIDE DEF n, h
  <2> QED
    BY <2>5, <2>6, <2>7 DEF Moves
<1>5. CASE ~life.ended /\ ~CanEndTask(life)
  <2>1. log' = Append(log, close)
    <3>1. log' = log \o <<>> \o <<close>>
      BY <1>5 DEF Block
    <3> HIDE DEF close
    <3> QED
      BY <1>1, <1>2, <3>1
  <2>2. life' = [life EXCEPT !.ended = TRUE]
    BY <1>2, <1>5 DEF Block, Life
  <2>3. CanComplete(life)
    BY <1>5 DEF CanComplete, CanEndTask
  <2>4. Leads(log, life, log', life')
    BY <1>1, <1>2, <2>1, <2>2, <2>3, CloseMoves
  <2> QED
    BY <2>4 DEF Moves
<1> QED
  BY <1>3, <1>4, <1>5

LEMMA TargetBlockedStep == ASSUME Parts, TargetBlocked PROVE PageStep
<1>1. Untouched /\ reloads' = reloads
  BY DEF TargetBlocked, serverVars, Untouched, Parts, Server
<1>2. Moves
  BY BlockMoves DEF TargetBlocked
<1>3. StageOK'
  BY <1>1, <1>2, StageStays DEF TargetBlocked, Parts, StageOK, Stages
<1> QED
  BY <1>1, <1>2, <1>3, FlowsStay DEF PageStep, TargetBlocked

LEMMA ConfirmGiveUpStep == ASSUME Parts, ConfirmGiveUp PROVE PageStep
<1>1. Untouched /\ reloads' = reloads
  BY DEF ConfirmGiveUp, serverVars, Untouched, Parts, Server
<1>2. Moves
  BY EndTaskMoves DEF ConfirmGiveUp, TaskEnds
<1>3. flows' = flows \cup {Started("giveup", "deliver", TRUE)}
  BY DEF ConfirmGiveUp, Launch
<1>4. \A f \in flows' : FlowOK(f)'
  BY <1>1, <1>2, <1>3, Launched DEF FlowKinds
<1>5. StageOK'
  BY <1>1, <1>2, StageStays DEF ConfirmGiveUp, Parts, StageOK
<1> QED
  BY <1>1, <1>2, <1>4, <1>5 DEF PageStep

LEMMA TimeLimitStep == ASSUME Parts, TimeLimit PROVE PageStep
<1>1. Untouched /\ reloads' = reloads
  BY DEF TimeLimit, serverVars, Untouched, Parts, Server
<1>2. Moves
  BY EndTaskMoves DEF TimeLimit, TaskEnds
<1>3. flows' = flows \cup {Started("timeout", "deliver", FALSE)}
  BY DEF TimeLimit, Launch
<1>4. \A f \in flows' : FlowOK(f)'
  BY <1>1, <1>2, <1>3, Launched DEF FlowKinds
<1>5. StageOK'
  BY <1>1, <1>2, StageStays DEF TimeLimit, Parts, StageOK, Stages
<1> QED
  BY <1>1, <1>2, <1>4, <1>5 DEF PageStep

\* What leaves the log and the lifecycle alone.
LEMMA LaunchStep ==
  ASSUME Parts, Poll \/ Online \/ ContinueFromTimeout \/ SubmitFeedback \/ RetryRecovery
  PROVE  PageStep
<1>1. Untouched /\ reloads' = reloads /\ log' = log /\ life' = life /\ stage' = stage /\ index' = index
  BY DEF Poll, Online, ContinueFromTimeout, SubmitFeedback, RetryRecovery,
         serverVars, Untouched, Parts, Server
<1>2. Moves
  BY <1>1, StillMoves
<1>3. \/ flows' = flows \cup {Started("poll", "fetch", FALSE)}
      \/ flows' = flows \cup {Started("sync", "deliver", FALSE)}
      \/ flows' = flows \cup {Started("continue", "deliver", FALSE)}
      \/ flows' = flows \cup {Started("feedback", "post", TRUE)}
      \/ flows' = flows \cup {Started("retry", "deliver", TRUE)}
  BY DEF Poll, Online, ContinueFromTimeout, SubmitFeedback, RetryRecovery, Launch
<1>4. \A f \in flows' : FlowOK(f)'
  BY <1>1, <1>2, <1>3, Launched
<1>5. StageOK'
  BY <1>1, <1>2, StageStays DEF Parts, StageOK
<1> QED
  BY <1>1, <1>2, <1>4, <1>5 DEF PageStep

LEMMA StageStep ==
  ASSUME Parts, AskGiveUp \/ CancelGiveUp \/ NextTask PROVE PageStep
<1>1. Untouched /\ reloads' = reloads /\ log' = log /\ life' = life /\ flows' = flows
  BY DEF AskGiveUp, CancelGiveUp, NextTask, serverVars, Untouched, Parts, Server
<1>2. Moves
  BY <1>1, StillMoves
<1>3. \A f \in flows' : FlowOK(f)'
  BY <1>1, <1>2, FlowsStay
<1>4. CASE AskGiveUp \/ CancelGiveUp
  <2>1. StageOK'
    BY <1>1, <1>4 DEF AskGiveUp, CancelGiveUp, Parts, StageOK, Stages, ThankYouMeansCompleted
  <2> QED
    BY <1>1, <1>2, <1>3, <2>1 DEF PageStep
<1>5. CASE NextTask
  <2>1. {index + 1, NumTasks} \subseteq Nat /\ index \in 1..NumTasks
    BY DEF Parts, StageOK, Tasks
  <2>2. Min({index + 1, NumTasks}) \in {index + 1, NumTasks}
        /\ Min({index + 1, NumTasks}) <= NumTasks
    BY <2>1, LeastElement
  <2>3. index' \in Tasks
    BY <1>5, <2>1, <2>2 DEF NextTask, Tasks
  <2>4. StageOK'
    BY <1>1, <1>2, <1>5, <2>3, StageStays DEF NextTask, Stages
  <2> QED
    BY <1>1, <1>2, <1>3, <2>4 DEF PageStep
<1> QED
  BY <1>4, <1>5

-----------------------------------------------------------------------------
(* The awaited replies                                                     *)

LEMMA FailureStep ==
  ASSUME Parts, NEW f \in flows, DeliveryFails(f) \/ FeedbackFails(f) \/ FetchFails(f)
  PROVE  PageStep
<1>1. /\ Untouched /\ reloads' = reloads /\ log' = log /\ life' = life /\ index' = index
      /\ flows' = flows \ {f} /\ stage' \in {stage, "recovery", "invalid"}
  BY DEF DeliveryFails, FeedbackFails, FetchFails, serverVars, Untouched, Parts, Server
<1>2. Moves
  BY <1>1, StillMoves
<1>3. \A g \in flows' : FlowOK(g)'
  BY <1>1, <1>2, FlowsStay
<1>4. StageOK'
  BY <1>1, <1>2, StageStays DEF Parts, StageOK, Stages
<1> QED
  BY <1>1, <1>2, <1>3, <1>4 DEF PageStep

\* A flow that goes on from one await to the next.
LEMMA GoesOn ==
  ASSUME Parts, Untouched, Moves, NEW f \in flows, NEW x, FlowOK(x)',
         flows' \subseteq (flows \ {f}) \cup {x}
  PROVE  \A g \in flows' : FlowOK(g)'
<1> TAKE g \in flows'
<1>1. CASE g = x
  BY <1>1
<1>2. CASE g \in flows
  BY <1>2, FlowsStay
<1> QED
  BY <1>1, <1>2

LEMMA SaveFeedbackStep ==
  ASSUME Parts, NEW f \in flows, SaveFeedback(f) PROVE PageStep
<1>1. FlowOK(f) /\ f \in Flow /\ f.at = "post" /\ f.kind = "feedback" /\ f.task \in Tasks
  BY DEF Parts, FlowOK, SaveFeedback, Flow
<1>2. Untouched /\ reloads' = reloads /\ log' = log /\ life' = life /\ stage' = stage /\ index' = index
  BY <1>1 DEF SaveFeedback, Untouched, Parts, Server
<1>3. Moves
  BY <1>2, StillMoves
<1> DEFINE x == [f EXCEPT !.at = "fetch"]
<1>4. x \in Flow /\ x.at = "fetch" /\ x.kind = "feedback" /\ x.view = f.view
  BY <1>1 DEF Flow
<1>5. flows' \subseteq (flows \ {f}) \cup {x}
  BY DEF SaveFeedback
<1> HIDE DEF x
<1>6. FlowOK(x)'
  BY <1>1, <1>2, <1>3, <1>4, FlowsStay DEF FlowOK
<1>7. \A g \in flows' : FlowOK(g)'
  BY <1>2, <1>3, <1>5, <1>6, GoesOn
<1>8. StageOK'
  BY <1>2, <1>3, StageStays DEF Parts, StageOK
<1> QED
  BY <1>2, <1>3, <1>7, <1>8 DEF PageStep

LEMMA CurrentViewOK == ASSUME Parts PROVE ViewOK(CurrentView)
<1>1. CurrentView \in View
  BY DEF Parts, Server, CurrentView, View
<1>2. \A i \in Tasks : outcome[i] # "none" => StartsIn(log, i) # {}
  BY DEF Parts, Server, OutcomesReproducible, Starts, StartsIn
<1> QED
  BY <1>1, <1>2 DEF ViewOK, CurrentView

LEMMA ReadStateStep ==
  ASSUME Parts, NEW f \in flows, ReadState(f) PROVE PageStep
<1>1. FlowOK(f) /\ f \in Flow /\ f.kind \notin {"consent", "start", "finish"}
  BY DEF Parts, FlowOK, ReadState
<1>2. Untouched /\ reloads' = reloads /\ log' = log /\ life' = life /\ stage' = stage /\ index' = index
  BY DEF ReadState, serverVars, Untouched, Parts, Server
<1>3. Moves
  BY <1>2, StillMoves
<1>4. PICK v : v = CurrentView
  OBVIOUS
<1>5. ViewOK(v) /\ v \in View
  BY <1>4, CurrentViewOK DEF ViewOK
<1> DEFINE x == [f EXCEPT !.at = "reply", !.view = v]
<1>6. x \in Flow /\ x.at = "reply" /\ x.kind = f.kind /\ x.view = v
  BY <1>1, <1>5 DEF Flow
<1>7. flows' \subseteq (flows \ {f}) \cup {x}
  BY <1>4 DEF ReadState
<1> HIDE DEF x
<1>8. FlowOK(x)'
  BY <1>1, <1>2, <1>3, <1>5, <1>6, FlowsStay DEF FlowOK
<1>9. \A g \in flows' : FlowOK(g)'
  BY <1>2, <1>3, <1>7, <1>8, GoesOn
<1>10. StageOK'
  BY <1>2, <1>3, StageStays DEF Parts, StageOK
<1> QED
  BY <1>2, <1>3, <1>9, <1>10 DEF PageStep

LEMMA DeliveredStep ==
  ASSUME Parts, NEW f \in flows, Delivered(f) PROVE PageStep
<1>1. FlowOK(f) /\ f \in Flow /\ f.at = "deliver" /\ recorded = Len(log)
  BY DEF Parts, FlowOK, Delivered
<1>2. Untouched /\ reloads' = reloads
  BY DEF Delivered, serverVars, Untouched, Parts, Server
<1>3. CASE f.kind = "consent"
  <2>1. log' = log /\ life' = life /\ stage' = "task-intro" /\ index' = 1 /\ flows' = flows \ {f}
    BY <1>3 DEF Delivered
  <2>2. Moves
    BY <2>1, StillMoves
  <2>3. 1 \in Tasks
    BY DEF Tasks
  <2>4. StageOK'
    BY <1>2, <2>1, <2>2, <2>3, StageStays DEF Stages
  <2> QED
    BY <1>2, <2>1, <2>2, <2>4, FlowsStay DEF PageStep
<1>4. CASE f.kind = "start"
  <2>1. flows' = flows \ {f} /\ index' = index
    BY <1>4 DEF Delivered
  <2>2. CASE target # "unavailable"
    <3>1. stage' = "runner" /\ log' = log /\ life' = life
      BY <1>4, <2>2 DEF Delivered
    <3>2. Moves
      BY <3>1, StillMoves
    <3>3. StageOK'
      BY <1>1, <1>4, <2>1, <3>1 DEF FlowOK, Parts, StageOK, Stages, ThankYouMeansCompleted
    <3> QED
      BY <1>2, <2>1, <3>2, <3>3, FlowsStay DEF PageStep
  <2>3. CASE target = "unavailable"
    <3>1. stage' = "technical" /\ Block
      BY <1>4, <2>3 DEF Delivered
    <3>2. Moves
      BY <3>1, BlockMoves
    <3>3. StageOK'
      BY <1>2, <2>1, <3>1, <3>2, StageStays DEF Parts, StageOK, Stages
    <3> QED
      BY <1>2, <2>1, <3>2, <3>3, FlowsStay DEF PageStep
  <2> QED
    BY <2>2, <2>3
<1>5. CASE f.kind = "finish"
  <2>1. log' = log /\ life' = life /\ stage' = "complete" /\ index' = index /\ flows' = flows \ {f}
    BY <1>5 DEF Delivered
  <2>2. Moves
    BY <2>1, StillMoves
  <2>3. PICK e \in 1..Len(log) : log[e].type = "session_completed"
    BY <1>1, <1>5 DEF FlowOK
  <2>4. status = StatusOf[log[e].type]
    BY <1>1, <2>3 DEF Parts, Server, EndIsRecorded, SessionEnds
  <2>5. status' = "completed"
    BY <1>2, <2>3, <2>4 DEF StatusOf, Untouched
  <2>6. StageOK'
    BY <2>1, <2>5 DEF StageOK, Stages, ThankYouMeansCompleted, Parts
  <2> QED
    BY <1>2, <2>1, <2>2, <2>6, FlowsStay DEF PageStep
<1>6. CASE f.kind \notin {"consent", "start", "finish"}
  <2> DEFINE x == [f EXCEPT !.at = "fetch"]
  <2>1. log' = log /\ life' = life /\ stage' = stage /\ index' = index /\ flows' = (flows \ {f}) \cup {x}
    BY <1>6 DEF Delivered
  <2>2. Moves
    BY <2>1, StillMoves
  <2>3. x \in Flow /\ x.at = "fetch" /\ x.kind = f.kind /\ x.view = f.view
    BY <1>1 DEF Flow
  <2> HIDE DEF x
  <2>4. FlowOK(x)'
    BY <1>1, <1>2, <1>6, <2>1, <2>2, <2>3, FlowsStay DEF FlowOK
  <2>5. \A g \in flows' : FlowOK(g)'
    BY <1>2, <2>1, <2>2, <2>4, GoesOn
  <2>6. StageOK'
    BY <1>2, <2>1, <2>2, StageStays DEF Parts, StageOK
  <2> QED
    BY <1>2, <2>2, <2>5, <2>6 DEF PageStep
<1> QED
  BY <1>3, <1>4, <1>5, <1>6

\* What a page does after a terminal outcome, from the lifecycle l.
LEMMA FinishMoves ==
  ASSUME Parts, Untouched, NEW f \in flows, NEW l, Leads(log, life, log, l),
         Finish(f, l, flows \ {f})
  PROVE  Moves /\ \A g \in flows' : FlowOK(g)'
<1>1. f \in Flow /\ Sound(log, life) /\ Sound(log, l)
  BY DEF Parts, FlowOK, Leads
<1>2. CASE CanComplete(l)
  <2> DEFINE x == [f EXCEPT !.kind = "finish", !.at = "deliver", !.view = NoView]
             end == SessionEvent("session_completed")
  <2>1. log' = Append(log, end) /\ life' = [l EXCEPT !.ended = TRUE] /\ flows' = (flows \ {f}) \cup {x}
    BY <1>2 DEF Finish
  <2>2. Leads(log, l, log', life')
    BY <1>1, <1>2, <2>1, CloseMoves DEF SessionEnds
  <2>3. Moves
    BY <1>1, <2>2, LeadsOn DEF Moves
  <2>4. x \in Flow /\ x.kind = "finish" /\ x.at = "deliver" /\ x.view = NoView
    BY <1>1, NoViewOK DEF Flow, FlowKinds, ViewOK
  <2>5. end \in Event /\ end.type = "session_completed"
    BY DEF SessionEvent, Event, SessionEnds
  <2> HIDE DEF x, end
  <2>6. \E e \in 1..Len(log') : log'[e].type = "session_completed"
    <3>1. Len(log') = Len(log) + 1 /\ Len(log) \in Nat /\ log'[Len(log) + 1] = end
      BY <1>1, <2>1, <2>5, Appended DEF Sound
    <3> QED
      BY <2>5, <3>1
  <2>7. FlowOK(x)'
    BY <2>3, <2>4, <2>6, FlowsStay DEF FlowOK
  <2> QED
    BY <2>1, <2>3, <2>7, GoesOn
<1>3. CASE ~CanComplete(l)
  <2> DEFINE x == [f EXCEPT !.kind = "check", !.at = "fetch", !.view = NoView]
  <2>1. log' = log /\ life' = l /\ flows' = (flows \ {f}) \cup {x}
    BY <1>3 DEF Finish
  <2>2. Moves
    BY <2>1 DEF Moves
  <2>3. x \in Flow /\ x.kind = "check" /\ x.at = "fetch" /\ x.view = NoView
    BY <1>1, NoViewOK DEF Flow, FlowKinds, ViewOK
  <2> HIDE DEF x
  <2>4. FlowOK(x)'
    BY <2>2, <2>3, FlowsStay DEF FlowOK
  <2> QED
    BY <2>1, <2>2, <2>4, GoesOn
<1> QED
  BY <1>2, <1>3

LEMMA MoveOnMoves ==
  ASSUME Parts, Untouched, NEW f \in flows, NEW l, Leads(log, life, log, l), NEW i,
         MoveOn(f, i, l, flows \ {f})
  PROVE  /\ Moves /\ \A g \in flows' : FlowOK(g)'
         /\ stage' \in {stage, "feedback", "transition"}
<1>1. CASE stage' \in {"feedback", "transition"} /\ flows' = flows \ {f} /\ life' = l /\ log' = log
  <2>1. Moves
    BY <1>1 DEF Moves
  <2> QED
    BY <1>1, <2>1, FlowsStay
<1>2. CASE Finish(f, l, flows \ {f}) /\ stage' = stage
  BY <1>2, FinishMoves
<1> QED
  BY <1>1, <1>2 DEF MoveOn

LEMMA SyncStep ==
  ASSUME Parts, Untouched, reloads' = reloads, NEW f \in flows, Sync(f, flows \ {f})
  PROVE  PageStep
<1>1. index' = index /\ FlowOK(f) /\ f.task \in Tasks /\ Sound(log, life)
  BY DEF Sync, Parts, FlowOK, Flow
<1>2. CASE Terminal(f.view.outcome[f.task]) /\ (~life.done => life.active = f.task)
  <2> DEFINE l == [life EXCEPT !.done = TRUE]
  <2>1. MoveOn(f, f.task, l, flows \ {f})
    BY <1>2 DEF Sync
  <2>2. outcome[f.task] \notin {"none", "open"}
    BY <1>1, <1>2 DEF FlowOK, ViewOK, Terminal, Outcomes
  <2>3. TerminalEvidence(f.task) # {}
    BY <1>1, <2>2 DEF Parts, Server, OutcomesReproducible
  <2>4. EndsIn(log, f.task) # {}
    BY <2>3 DEF TerminalEvidence, EndsIn, IsEvidence, Parts, Server, Sound
  <2>5. Leads(log, life, log, l)
    BY <1>1, <1>2, <2>4, MarkMoves
  <2> HIDE DEF l
  <2>6. Moves /\ (\A g \in flows' : FlowOK(g)') /\ stage' \in {stage, "feedback", "transition"}
    BY <2>1, <2>5, MoveOnMoves
  <2>7. StageOK'
    BY <1>1, <2>6, StageStays DEF Parts, StageOK, Stages
  <2> QED
    BY <2>6, <2>7 DEF PageStep
<1>3. CASE ~(Terminal(f.view.outcome[f.task]) /\ (~life.done => life.active = f.task))
  <2>1. flows' = flows \ {f} /\ log' = log /\ stage' = stage /\ life' = life
    BY <1>3 DEF Sync
  <2>2. Moves
    BY <2>1, StillMoves
  <2>3. StageOK'
    BY <1>1, <2>1, <2>2, StageStays DEF Parts, StageOK
  <2> QED
    BY <2>1, <2>2, <2>3, FlowsStay DEF PageStep
<1> QED
  BY <1>2, <1>3

LEMMA InferStep ==
  ASSUME Parts, Untouched, reloads' = reloads, NEW f \in flows, Infer(f, flows \ {f})
  PROVE  PageStep
<1> DEFINE open == {i \in Tasks : f.view.outcome[i] = "open"}
           first == CHOOSE i \in open : \A j \in open : Min(Starts(i)) <= Min(Starts(j))
           leading == {i \in Tasks : \A j \in 1..i : Terminal(f.view.outcome[j])}
<1>1. FlowOK(f) /\ Sound(log, life) /\ ViewOK(f.view)
  BY DEF Parts, FlowOK
<1>2. CASE f.view.status # "active"
  <2>1. /\ stage' = (IF f.view.status = "completed" THEN "complete" ELSE "technical")
        /\ flows' = flows \ {f} /\ log' = log /\ index' = index /\ life' = life
    BY <1>2 DEF Infer
  <2>2. Moves
    BY <2>1, StillMoves
  <2>3. f.view.status = status
    BY <1>1, <1>2 DEF ViewOK
  <2>4. StageOK'
    BY <2>1, <2>3 DEF Parts, StageOK, Stages, ThankYouMeansCompleted, Untouched
  <2> QED
    BY <2>1, <2>2, <2>4, FlowsStay DEF PageStep
<1>3. CASE f.view.status = "active" /\ open # {}
  <2>1. stage' = "runner" /\ index' = first /\ flows' = flows \ {f} /\ log' = log /\ life' = life
    BY <1>3 DEF Infer
  <2>2. Moves
    BY <2>1, StillMoves
  <2>3. \A i \in open : Starts(i) # {} /\ Starts(i) \in SUBSET Nat
    BY <1>1 DEF ViewOK, Starts, StartsIn
  <2>4. \A i \in open : Min(Starts(i)) \in Nat
    BY <2>3, LeastElement
  <2>5. \E i \in open : \A j \in open : Min(Starts(i)) <= Min(Starts(j))
    <3> DEFINE S == {Min(Starts(i)) : i \in open}
    <3>1. S \in SUBSET Nat /\ S # {}
      BY <1>3, <2>4
    <3>2. Min(S) \in S /\ \A y \in S : Min(S) <= y
      BY <3>1, LeastElement
    <3> QED
      BY <3>2
  <2>6. first \in open
    BY <2>5
  <2>7. first \in Tasks /\ StartsIn(log, first) # {}
    BY <2>3, <2>6 DEF Starts, StartsIn
  <2>8. StageOK'
    BY <2>1, <2>7 DEF StageOK, Stages, ThankYouMeansCompleted
  <2> QED
    BY <2>1, <2>2, <2>8, FlowsStay DEF PageStep
<1>4. CASE f.view.status = "active" /\ open = {} /\ leading # {}
  <2>1. index' = Max(leading) /\ MoveOn(f, Max(leading), life, flows \ {f})
    BY <1>4 DEF Infer
  <2>2. leading \in SUBSET (0..NumTasks) /\ NumTasks \in Nat
    BY DEF Tasks
  <2>3. Max(leading) \in leading
    BY <1>4, <2>2, GreatestElement
  <2>4. index' \in Tasks /\ StartsIn(log, index') # {}
    <3>1. PICK k \in leading : k = index'
      BY <2>1, <2>3
    <3>2. k \in Tasks /\ k \in 1..k /\ \A j \in 1..k : Terminal(f.view.outcome[j])
      BY DEF Tasks
    <3>3. Terminal(f.view.outcome[k])
      BY <3>2
    <3>4. StartsIn(log, k) # {}
      BY <1>1, <3>2, <3>3 DEF ViewOK, Terminal, Outcomes
    <3> QED
      BY <3>1, <3>2, <3>4
  <2>5. Moves /\ (\A g \in flows' : FlowOK(g)') /\ stage' \in {stage, "feedback", "transition"}
    BY <1>1, <2>1, Rests, MoveOnMoves
  <2>6. StageOK'
    BY <2>4, <2>5, StageStays DEF Stages
  <2> QED
    BY <2>5, <2>6 DEF PageStep
<1>5. CASE f.view.status = "active" /\ open = {} /\ leading = {}
  <2>1. stage' = "task-intro" /\ index' = 1 /\ flows' = flows \ {f} /\ log' = log /\ life' = life
    BY <1>5 DEF Infer
  <2>2. Moves
    BY <2>1, StillMoves
  <2>3. StageOK'
    BY <2>1, <2>2, StageStays DEF Stages, Tasks
  <2> QED
    BY <2>1, <2>2, <2>3, FlowsStay DEF PageStep
<1> QED
  BY <1>2, <1>3, <1>4, <1>5

LEMMA ActStep ==
  ASSUME Parts, NEW f \in flows, Act(f) PROVE PageStep
<1>1. FlowOK(f) /\ f \in Flow /\ f.at = "reply" /\ f.task \in Tasks /\ Sound(log, life)
  BY DEF Parts, FlowOK, Flow, Act
<1>2. Untouched /\ reloads' = reloads
  BY DEF Act, serverVars, Untouched, Parts, Server
<1>3. f.kind \in {"bootstrap", "retry", "giveup", "continue", "feedback", "sync", "poll", "check", "timeout"}
  BY <1>1 DEF FlowOK, Flow, FlowKinds
<1>4. CASE f.kind \in {"bootstrap", "retry"}
  BY <1>2, <1>4, InferStep DEF Act
<1>5. CASE f.kind \in {"giveup", "continue"}
  <2>1. MoveOn(f, f.task, life, flows \ {f}) /\ index' = index
    BY <1>5 DEF Act
  <2>2. Moves /\ (\A g \in flows' : FlowOK(g)') /\ stage' \in {stage, "feedback", "transition"}
    BY <1>1, <1>2, <2>1, Rests, MoveOnMoves
  <2>3. StageOK'
    BY <1>2, <2>1, <2>2, StageStays DEF Parts, StageOK, Stages
  <2> QED
    BY <1>2, <2>2, <2>3 DEF PageStep
<1>6. CASE f.kind = "feedback" /\ f.task = NumTasks
  <2>1. Finish(f, life, flows \ {f}) /\ stage' = stage /\ index' = index
    BY <1>6 DEF Act
  <2>2. Moves /\ (\A g \in flows' : FlowOK(g)')
    BY <1>1, <1>2, <2>1, Rests, FinishMoves
  <2>3. StageOK'
    BY <1>2, <2>1, <2>2, StageStays DEF Parts, StageOK
  <2> QED
    BY <1>2, <2>2, <2>3 DEF PageStep
<1>7. CASE f.kind \in {"sync", "poll"}
  BY <1>2, <1>7, SyncStep DEF Act
<1>8. CASE f.kind \in {"check", "timeout"} \/ (f.kind = "feedback" /\ f.task # NumTasks)
  <2>1. /\ flows' = flows \ {f} /\ log' = log /\ index' = index /\ life' = life
        /\ \/ stage' \in {stage, "transition"}
           \/ stage' = "complete" /\ f.view.status = "completed"
    <3>1. f.kind = "feedback" => f.task < NumTasks
      BY <1>1, <1>8 DEF Tasks
    <3> QED
      BY <1>8, <3>1 DEF Act
  <2>2. Moves
    BY <2>1, StillMoves
  <2>3. f.view.status = "completed" => status = "completed"
    BY <1>1 DEF FlowOK, ViewOK
  <2>4. StageOK'
    <3>1. CASE stage' \in {stage, "transition"}
      BY <1>2, <2>1, <2>2, <3>1, StageStays DEF Parts, StageOK, Stages
    <3>2. CASE stage' = "complete" /\ f.view.status = "completed"
      BY <1>2, <2>1, <2>3, <3>2 DEF Parts, StageOK, Stages, ThankYouMeansCompleted, Untouched
    <3> QED
      BY <2>1, <3>1, <3>2
  <2> QED
    BY <1>2, <2>1, <2>2, <2>4, FlowsStay DEF PageStep
<1> QED
  BY <1>3, <1>4, <1>5, <1>6, <1>7, <1>8

-----------------------------------------------------------------------------
(* A record of the database: the next event and what its triggers do.      *)

LEMMA RecordStep ==
  ASSUME Parts, Record PROVE Parts'
<1> DEFINE e == recorded + 1
           x == log[e]
<1>1. /\ e \in 1..Len(log) /\ e \in Nat /\ recorded \in Nat /\ recorded < e
      /\ Len(log) \in Nat /\ x \in Event /\ log \in Seq(Event)
  BY DEF Record, Parts, Server, Sound
<1>2. /\ recorded' = e /\ status = "active"
      /\ UNCHANGED <<target, log, submitted, stage, index, life, flows, reloads>>
  BY DEF Record, pageVars
<1>3. ProjectTask(x) /\ Derive(x) /\ ProjectSession(x)
  BY DEF Record
<1> HIDE DEF e, x
<1>4. \A d \in 1..recorded' : d \in 1..recorded \/ d = e
  BY <1>1, <1>2 DEF e
<1>5. \A d \in 1..recorded : d \in 1..recorded' /\ d < e
  BY <1>1, <1>2 DEF e
<1>6. recorded' \in 0..Len(log') /\ e \in 1..recorded' /\ x = log[e]
  BY <1>1, <1>2 DEF x
<1>7. \A d \in 1..recorded : log[d].type \notin SessionEnds
  BY <1>1, <1>2 DEF Parts, Server, EndIsRecorded, StatusOf, SessionEnds, e
<1>8. status' \in Statuses /\ EndIsRecorded'
  <2>1. status' = IF x.type \in SessionEnds THEN StatusOf[x.type] ELSE "active"
    BY <1>2, <1>3 DEF ProjectSession, SessionEnds, StatusOf
  <2>2. StatusOf["session_completed"] = "completed"
        /\ StatusOf["session_technical_blocked"] = "technical_blocked"
    BY DEF StatusOf
  <2>3. status' \in Statuses
    BY <2>1, <2>2 DEF Statuses, SessionEnds
  <2>4. status' # "active" => recorded' # 0 /\ log'[recorded'].type \in SessionEnds
    BY <1>1, <1>2, <1>6, <2>1
  <2>5. \A d \in 1..recorded' : log'[d].type \in SessionEnds =>
          d = recorded' /\ status' = StatusOf[log'[d].type]
    BY <1>2, <1>4, <1>6, <1>7, <2>1
  <2> QED
    BY <2>3, <2>4, <2>5 DEF EndIsRecorded
<1>9. ASSUME NEW i \in Tasks
      PROVE  /\ outcome'[i] \in {"none", "open"} \cup Outcomes
             /\ outcome'[i] = IF \A d \in Starts(i)' : d > recorded' THEN "none"
                              ELSE IF TerminalEvidence(i)' = {} THEN "open"
                              ELSE OutcomeOf(log'[Min(TerminalEvidence(i)')].type)
             /\ Terminal(outcome[i]) => outcome'[i] = outcome[i]
             /\ derived'[i] = 0 \/ (derived'[i] = 1 /\ Terminal(outcome'[i]))
  <2>1. /\ outcome[i] = IF \A d \in Starts(i) : d > recorded THEN "none"
                        ELSE IF TerminalEvidence(i) = {} THEN "open"
                        ELSE OutcomeOf(log[Min(TerminalEvidence(i))].type)
        /\ derived[i] = 0 \/ (derived[i] = 1 /\ Terminal(outcome[i]))
    BY DEF Parts, Server, OutcomesReproducible, DerivedOnce
  <2>2. Starts(i)' = Starts(i) /\ Starts(i) \subseteq 1..Len(log)
    BY <1>2 DEF Starts
  <2>3. TerminalEvidence(i)' =
          TerminalEvidence(i) \cup (IF x.task = i /\ IsEvidence(x) THEN {e} ELSE {})
    BY <1>2, <1>4, <1>5, <1>6 DEF TerminalEvidence, IsEvidence
  <2>4. TerminalEvidence(i) \in SUBSET Nat /\ \A t \in TerminalEvidence(i) : t < e
    BY <1>5 DEF TerminalEvidence
  <2>5. ASSUME NEW t \in 1..Len(log), log[t].task = i, IsEvidence(log[t])
        PROVE  \E d \in Starts(i) : d < t
    <3>1. log[t].task # None /\ log[t].type # "task_started"
      BY <2>5, NoneIsNoTask DEF IsEvidence, TaskEnds
    <3> QED
      BY <2>5, <3>1 DEF Parts, Sound, Supported, Starts, StartsIn
  <2>6. TerminalEvidence(i) # {} => \E d \in Starts(i) : d <= recorded
    <3>1. ASSUME NEW t \in TerminalEvidence(i) PROVE \E d \in Starts(i) : d <= recorded
      <4>1. t \in 1..recorded /\ t \in 1..Len(log) /\ log[t].task = i /\ IsEvidence(log[t])
        BY <1>1, <1>5 DEF TerminalEvidence, IsEvidence
      <4>2. PICK d \in Starts(i) : d < t
        BY <2>5, <4>1
      <4>3. d \in Nat
        BY <2>2, <4>2
      <4> QED
        BY <1>1, <4>1, <4>2, <4>3
    <3> QED
      BY <3>1
  <2>7. outcome'[i] = IF i # x.task THEN outcome[i]
                      ELSE IF x.type = "task_started" /\ outcome[i] = "none" THEN "open"
                      ELSE IF IsEvidence(x) /\ outcome[i] = "open" THEN OutcomeOf(x.type)
                      ELSE outcome[i]
    BY <1>3 DEF ProjectTask, IsEvidence
  <2>8. derived'[i] = IF i = x.task /\ x.type \in {"hit", "miss"} /\ ~Terminal(outcome[i])
                      THEN derived[i] + 1 ELSE derived[i]
    BY <1>3 DEF Derive
  <2>9. \A type : OutcomeOf(type) \in Outcomes
    BY DEF OutcomeOf, Outcomes
  <2>10. "none" \notin Outcomes /\ "open" \notin Outcomes
    BY DEF Outcomes
  <2>11. CASE x.task = i /\ IsEvidence(x)
    <3>1. x.type # "task_started" /\ TerminalEvidence(i)' = TerminalEvidence(i) \cup {e}
      BY <2>3, <2>11 DEF IsEvidence, TaskEnds
    <3>2. PICK d \in Starts(i) : d < e
      BY <1>1, <1>6, <2>5, <2>11
    <3>3. d <= recorded /\ ~(d > recorded) /\ ~(d > recorded')
      BY <1>1, <1>2, <2>2, <3>2 DEF e
    <3>4. CASE TerminalEvidence(i) = {}
      <4>1. outcome[i] = "open"
        BY <2>1, <3>2, <3>3, <3>4
      <4>2. outcome'[i] = OutcomeOf(x.type) /\ Terminal(outcome'[i])
        BY <2>7, <2>9, <2>11, <3>1, <4>1 DEF Terminal
      <4>3. Min(TerminalEvidence(i)') = e
        <5>1. TerminalEvidence(i)' = {e} /\ {e} \in SUBSET Nat
          BY <1>1, <3>1, <3>4
        <5> QED
          BY <5>1, LeastElement
      <4>4. log'[Min(TerminalEvidence(i)')] = x /\ TerminalEvidence(i)' # {}
        BY <1>2, <1>6, <3>1, <4>3
      <4>5. ~Terminal(outcome[i]) /\ derived[i] = 0
        BY <2>1, <2>10, <4>1 DEF Terminal
      <4>6. derived'[i] = 0 \/ derived'[i] = 1
        BY <2>8, <4>5
      <4> QED
        BY <2>2, <2>9, <3>2, <3>3, <4>2, <4>4, <4>5, <4>6
    <3>5. CASE TerminalEvidence(i) # {}
      <4>1. outcome[i] = OutcomeOf(log[Min(TerminalEvidence(i))].type) /\ Terminal(outcome[i])
        BY <2>1, <2>9, <3>2, <3>3, <3>5 DEF Terminal
      <4>2. outcome'[i] = outcome[i] /\ derived'[i] = derived[i]
        BY <2>7, <2>8, <2>10, <4>1 DEF Terminal
      <4>3. Min(TerminalEvidence(i)') = Min(TerminalEvidence(i))
        <5> DEFINE T == TerminalEvidence(i)
                   U == T \cup {e}
        <5>1. T \in SUBSET Nat /\ U \in SUBSET Nat /\ T # {} /\ U # {} /\ \A t \in T : t < e
          BY <1>1, <2>4, <3>5
        <5> HIDE DEF T
        <5>2. Min(T) \in T /\ \A t \in T : Min(T) <= t
          BY <5>1, LeastElement
        <5>3. Min(U) \in U /\ \A t \in U : Min(U) <= t
          BY <5>1, LeastElement
        <5>4. Min(U) = Min(T)
          <6>1. Min(U) <= Min(T) /\ Min(U) # e
            <7>1. Min(T) \in U /\ Min(T) < e /\ Min(T) \in Nat
              BY <5>1, <5>2
            <7>2. Min(U) <= Min(T) /\ Min(U) \in Nat
              BY <5>1, <5>3, <7>1
            <7> QED
              BY <1>1, <7>1, <7>2
          <6>2. Min(T) <= Min(U)
            BY <5>2, <5>3, <6>1
          <6> QED
            BY <5>1, <5>2, <5>3, <6>1, <6>2
        <5> QED
          BY <3>1, <5>4 DEF T
      <4>4. TerminalEvidence(i)' # {}
        BY <3>1
      <4> QED
        BY <1>2, <2>1, <2>2, <2>9, <3>2, <3>3, <4>1, <4>2, <4>3, <4>4 DEF Terminal
    <3> QED
      BY <3>4, <3>5
  <2>12. CASE x.task = i /\ x.type = "task_started"
    <3>1. TerminalEvidence(i)' = TerminalEvidence(i)
      BY <2>3, <2>12 DEF IsEvidence, TaskEnds
    <3>2. x = TaskEvent("task_started", i)
      BY <1>1, <2>12 DEF Event, TaskEvent
    <3>3. e \in Starts(i) /\ ~(e > recorded')
      <4>1. e \in Starts(i)
        BY <1>1, <1>6, <3>2 DEF Starts
      <4>2. ~(e > recorded')
        BY <1>1, <1>2
      <4> QED
        BY <4>1, <4>2
    <3>4. ~Terminal(outcome[i]) \/ x.type \notin {"hit", "miss"}
      BY <2>12
    <3>5. derived'[i] = derived[i]
      BY <2>8, <2>12
    <3>6. CASE outcome[i] = "none"
      <4>1. outcome'[i] = "open"
        BY <2>7, <2>12, <3>6
      <4>2. TerminalEvidence(i) = {}
        <5>1. \A d \in Starts(i) : d > recorded
          BY <2>1, <2>9, <2>10, <3>6
        <5> QED
          BY <1>1, <2>2, <2>6, <5>1
      <4>3. ~Terminal(outcome[i])
        BY <2>10, <3>6 DEF Terminal
      <4> QED
        BY <2>1, <2>2, <3>1, <3>3, <3>5, <4>1, <4>2, <4>3
    <3>7. CASE outcome[i] # "none"
      <4>1. outcome'[i] = outcome[i]
        BY <2>7, <2>12, <3>7 DEF IsEvidence, TaskEnds
      <4>2. outcome[i] = IF TerminalEvidence(i) = {} THEN "open"
                         ELSE OutcomeOf(log[Min(TerminalEvidence(i))].type)
        BY <2>1, <3>7
      <4> QED
        BY <1>2, <2>1, <2>2, <2>9, <3>1, <3>3, <3>5, <4>1, <4>2
    <3> QED
      BY <3>6, <3>7
  <2>13. CASE x.task # i \/ (x.type # "task_started" /\ ~IsEvidence(x))
    <3>1. TerminalEvidence(i)' = TerminalEvidence(i)
      BY <2>3, <2>13
    <3>2. e \notin Starts(i)
      BY <1>6, <2>13 DEF Starts, TaskEvent
    <3>3. (\A d \in Starts(i)' : d > recorded') <=> (\A d \in Starts(i) : d > recorded)
      BY <1>1, <1>2, <2>2, <3>2 DEF e
    <3>4. outcome'[i] = outcome[i] /\ derived'[i] = derived[i]
      BY <2>7, <2>8, <2>13 DEF IsEvidence
    <3> QED
      BY <1>2, <2>1, <2>9, <3>1, <3>3, <3>4
  <2> QED
    BY <2>11, <2>12, <2>13
<1>10. outcome' \in [Tasks -> {"none", "open"} \cup Outcomes] /\ derived' \in [Tasks -> Nat]
  <2>1. DOMAIN outcome' = Tasks /\ DOMAIN derived' = Tasks
    BY <1>3 DEF ProjectTask, Derive
  <2>2. outcome' = [i \in Tasks |-> outcome'[i]] /\ derived' = [i \in Tasks |-> derived'[i]]
    BY <1>3 DEF ProjectTask, Derive
  <2>3. \A i \in Tasks : derived'[i] \in Nat
    BY <1>9
  <2> QED
    BY <1>9, <2>2, <2>3
<1>11. Server'
  BY <1>2, <1>6, <1>8, <1>9, <1>10 DEF Parts, Server, OutcomesReproducible, DerivedOnce
<1>12. \A f \in flows' : FlowOK(f)'
  <2> TAKE f \in flows'
  <2>1. FlowOK(f)
    BY <1>2 DEF Parts
  <2>2. ViewOK(f.view)'
    <3>1. ViewOK(f.view)
      BY <2>1 DEF FlowOK
    <3> QED
      BY <1>2, <1>9, <3>1 DEF ViewOK
  <2> QED
    BY <1>2, <2>1, <2>2 DEF FlowOK
<1>13. StageOK'
  BY <1>2 DEF Parts, StageOK, ThankYouMeansCompleted
<1> QED
  BY <1>2, <1>11, <1>12, <1>13 DEF Parts

-----------------------------------------------------------------------------
(* The page is loaded again, and all steps together.                       *)

LEMMA ReloadStep ==
  ASSUME Parts, Reload PROVE Parts'
<1> DEFINE rows == {i \in Tasks : outcome[i] # "none"}
           last == CHOOSE i \in rows : \A j \in rows : Min(Starts(j)) <= Min(Starts(i))
           boot == [kind |-> "bootstrap", task |-> 1, at |-> "deliver", busy |-> FALSE, view |-> NoView]
<1>1. UNCHANGED <<target, log, recorded, status, outcome, derived>>
  BY DEF Reload
<1>2. /\ stage' = "recovery" /\ index' = 1 /\ reloads < MaxReloads /\ reloads' = reloads + 1
      /\ flows' = {boot}
      /\ life' = [active |-> IF rows = {} THEN None ELSE last,
                  done |-> rows # {} /\ Terminal(outcome[last]), ended |-> status # "active"]
  BY DEF Reload
<1>3. submitted' \subseteq Tasks
  <2>1. \A f \in flows : f.task \in Tasks
    BY DEF Parts, FlowOK, Flow
  <2>2. PICK late \in SUBSET {f.task : f \in {g \in flows : g.at = "post"}} :
          submitted' = submitted \cup late
    BY DEF Reload
  <2> QED
    BY <2>1, <2>2 DEF Parts, Server
<1>4. ASSUME NEW i \in rows
      PROVE  Starts(i) # {} /\ Starts(i) \in SUBSET Nat /\ Min(Starts(i)) \in 0..Len(log)
  <2>1. Starts(i) # {}
    BY <1>4 DEF Parts, Server, OutcomesReproducible
  <2>2. Starts(i) \in SUBSET Nat /\ Starts(i) \subseteq 1..Len(log) /\ Len(log) \in Nat
    BY DEF Starts, Parts, Sound
  <2>3. Min(Starts(i)) \in Starts(i)
    BY <2>1, <2>2, LeastElement
  <2> QED
    BY <2>1, <2>2, <2>3
<1>5. rows # {} => last \in rows
  <2> SUFFICES ASSUME rows # {} PROVE last \in rows
    OBVIOUS
  <2> DEFINE S == {Min(Starts(i)) : i \in rows}
  <2>1. S \in SUBSET (0..Len(log)) /\ S # {} /\ Len(log) \in Nat
    BY <1>4 DEF Parts, Sound
  <2>2. Max(S) \in S /\ \A y \in S : y <= Max(S)
    BY <2>1, GreatestElement
  <2>3. \E i \in rows : \A j \in rows : Min(Starts(j)) <= Min(Starts(i))
    BY <2>2
  <2> QED
    BY <2>3
<1>6. 1 \in Tasks
  BY DEF Tasks
<1>7. life' \in Life /\ (life'.active # None => StartsIn(log, life'.active) # {})
  <2>1. \A i : Starts(i) = StartsIn(log, i)
    BY DEF Starts, StartsIn
  <2>2. rows # {} => last \in Tasks /\ StartsIn(log, last) # {}
    BY <1>4, <1>5, <2>1
  <2> HIDE DEF rows, last
  <2> QED
    BY <1>2, <2>2 DEF Life
<1> HIDE DEF rows, last
<1>8. Sound(log, life)'
  BY <1>1, <1>7 DEF Parts, Sound
<1>9. Server'
  BY <1>1, <1>3 DEF Parts, Server, OutcomesReproducible, EndIsRecorded, DerivedOnce, Starts,
     TerminalEvidence
<1>10. StageOK'
  BY <1>2, <1>6 DEF StageOK, Stages, ThankYouMeansCompleted
<1>11. \A f \in flows' : FlowOK(f)'
  <2>1. ViewOK(NoView)'
    <3>1. ViewOK(NoView)
      BY NoViewOK
    <3> QED
      BY <1>1, <3>1 DEF ViewOK
  <2>2. boot \in Flow /\ boot.view = NoView /\ boot.at = "deliver" /\ boot.kind = "bootstrap"
    BY <1>6, NoViewOK DEF Flow, FlowKinds, ViewOK
  <2>3. ASSUME NEW f, f = boot PROVE FlowOK(f)'
    BY <2>1, <2>2, <2>3 DEF FlowOK
  <2> QED
    BY <1>2, <2>3
<1>12. reloads' \in 0..MaxReloads /\ reloads' # 0
  BY <1>2 DEF Parts
<1> QED
  BY <1>8, <1>9, <1>10, <1>11, <1>12 DEF Parts

LEMMA InitParts == Init => Parts
<1> SUFFICES ASSUME Init PROVE Parts
  OBVIOUS
<1>1. /\ log \in Seq(Event) /\ Len(log) = 1 /\ log[1] = SessionEvent("session_started")
  BY DEF Init, SessionEvent, Event
<1>2. log[1].task = None /\ log[1].type = "session_started" /\ 1 \in Tasks
  BY <1>1 DEF SessionEvent, Tasks
<1>3. \A i : StartsIn(log, i) = {} /\ Starts(i) = {}
  BY <1>1, <1>2 DEF StartsIn, Starts, TaskEvent
<1>4. life \in Life /\ life.active = None /\ ~life.done /\ ~life.ended
  BY DEF Init, Life
<1>5. Sound(log, life)
  BY <1>1, <1>2, <1>4 DEF Sound, Supported
<1>6. Clean(log, life)
  BY <1>1, <1>2, <1>3, <1>4 DEF Clean, SessionEnds
<1>7. Server
  <2>1. recorded \in 0..Len(log) /\ EndIsRecorded
    BY <1>1 DEF Init, EndIsRecorded
  <2>2. OutcomesReproducible
    BY <1>3 DEF Init, OutcomesReproducible
  <2> QED
    BY <2>1, <2>2 DEF Init, Server, DerivedOnce, Statuses
<1>8. StageOK
  BY <1>2 DEF Init, StageOK, Stages, ThankYouMeansCompleted
<1>9. \A f \in flows : FlowOK(f)
  <2> DEFINE first == [kind |-> "consent", task |-> 1, at |-> "deliver", busy |-> TRUE, view |-> NoView]
  <2>1. flows = {first}
    BY DEF Init
  <2>2. /\ first \in Flow /\ first.view = NoView /\ first.at = "deliver" /\ first.kind = "consent"
    BY <1>2, NoViewOK DEF Flow, FlowKinds, ViewOK
  <2>3. FlowOK(first)
    BY <2>2, NoViewOK DEF FlowOK
  <2> QED
    BY <2>1, <2>3
<1> QED
  BY <1>5, <1>6, <1>7, <1>8, <1>9 DEF Init, Parts

LEMMA NextParts == Parts /\ [Next]_vars => Parts'
<1> SUFFICES ASSUME Parts, [Next]_vars PROVE Parts'
  OBVIOUS
<1>1. CASE Participant
  BY <1>1, PageStepKeeps, StartTaskStep, StageStep, ConfirmGiveUpStep, LaunchStep, ReloadStep
  DEF Participant
<1>2. CASE Environment
  BY <1>2, PageStepKeeps, InteractStep, TargetBlockedStep, LaunchStep, TimeLimitStep
  DEF Environment
<1>3. CASE Record
  BY <1>3, RecordStep
<1>4. CASE \E f \in flows : Page(f)
  BY <1>4, PageStepKeeps, DeliveredStep, FailureStep, SaveFeedbackStep, ReadStateStep, ActStep
  DEF Page
<1>5. CASE UNCHANGED vars
  <2>1. /\ UNCHANGED <<target, log, recorded, status, outcome, derived, submitted>>
        /\ UNCHANGED <<stage, index, life, flows, reloads>>
    BY <1>5 DEF vars, serverVars, pageVars
  <2>2. PageStep
    <3>1. Moves /\ Untouched
      BY <2>1, StillMoves DEF Untouched, Parts, Server
    <3>2. StageOK'
      BY <2>1 DEF Parts, StageOK, ThankYouMeansCompleted
    <3> QED
      BY <2>1, <3>1, <3>2, FlowsStay DEF PageStep
  <2> QED
    BY <2>2, PageStepKeeps
<1> QED
  BY <1>1, <1>2, <1>3, <1>4, <1>5 DEF Next

-----------------------------------------------------------------------------
(* What holds of every session.                                            *)

\* The page, the log it emits and the database agree in every state: the views
\* flows carry are past states of the session, a flow is at an await point of its
\* kind, the active task was started, and the log within a first load is clean.
THEOREM RunnerInvariant == Spec => [](TypeOK /\ RunnerInv)
<1>1. Spec => []Parts
  BY InitParts, NextParts, PTL DEF Spec
<1> QED
  BY <1>1, PartsSay, PTL

\* The state of the page, the log and the database keep their types.
THEOREM RunnerTypes == Spec => []TypeOK
BY RunnerInvariant, PTL

\* ParticipantRunnerLifecycle never emits evidence of a task before the start of
\* that task, whatever configureRuntime had to rebuild after a reload.
THEOREM EvidenceFollowsStart == Spec => []NoEvidenceBeforeStart
<1>1. TypeOK /\ RunnerInv => NoEvidenceBeforeStart
  BY DEF RunnerInv
<1> QED
  BY <1>1, RunnerInvariant, PTL

\* The triggers leave a task with the outcome of the first terminal evidence on
\* record: task_sessions can be computed again from the raw events.
THEOREM OutcomesAreReproducible == Spec => []OutcomesReproducible
<1>1. TypeOK /\ RunnerInv => OutcomesReproducible
  BY DEF RunnerInv
<1> QED
  BY <1>1, RunnerInvariant, PTL

\* The page thanks the participant only for a session the database has as
\* completed, however old the state is that a flow acts on.
THEOREM ThanksAreHonest == Spec => []ThankYouMeansCompleted
<1>1. TypeOK /\ RunnerInv => ThankYouMeansCompleted
  BY DEF RunnerInv
<1> QED
  BY <1>1, RunnerInvariant, PTL

\* The event that ended the session is the last of the log, so that every task
\* that was started has terminal evidence on record.
LEMMA EndedHasNoOpenTask ==
  ASSUME TypeOK, RunnerInv, reloads = 0, status # "active", NEW i \in Tasks
  PROVE  outcome[i] # "open"
<1>1. FirstLoad /\ EndIsLast /\ EndIsRecorded /\ OutcomesReproducible
  BY DEF RunnerInv
<1>2. recorded \in 1..Len(log) /\ log[recorded].type \in SessionEnds
  BY <1>1 DEF EndIsRecorded, TypeOK
<1>3. recorded = Len(log)
  BY <1>1, <1>2 DEF EndIsLast
<1>4. life.ended /\ (life.active = None \/ life.done)
  BY <1>1, <1>2, <1>3 DEF FirstLoad
<1>5. Starts(i) # {} => Ends(i) # {}
  BY <1>1, <1>4, NoneIsNoTask DEF FirstLoad
<1>6. Ends(i) = TerminalEvidence(i)
  BY <1>3 DEF Ends, TerminalEvidence
<1>7. OutcomeOf(log[Min(TerminalEvidence(i))].type) # "open"
  BY DEF OutcomeOf
<1>8. (\A e \in Starts(i) : e > recorded) \/ Starts(i) # {}
  OBVIOUS
<1> QED
  BY <1>1, <1>5, <1>6, <1>7, <1>8 DEF OutcomesReproducible

\* Within one load of the page, a session that has ended has no task left open,
\* and nothing is emitted after the event that ends it.
THEOREM SessionEndsClean == Spec => []EndIsClean
<1>1. TypeOK /\ RunnerInv => EndIsClean
  BY EndedHasNoOpenTask DEF EndIsClean, EndLeavesNoOpenTask, RunnerInv
<1> QED
  BY <1>1, RunnerInvariant, PTL
=============================================================================
