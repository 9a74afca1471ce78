--------------------------- MODULE TaskProjection ---------------------------
(***************************************************************************)
(* The transactions that store a participant's raw events and, in their    *)
(* triggers, project them on task_sessions and sessions and derive further *)
(* rows, under READ COMMITTED: every statement of a trigger sees what was  *)
(* committed when it started and what its own transaction wrote, and an    *)
(* update waits for the transaction that changed the row.                  *)
(*                                                                         *)
(* One session and one task.  Each browser tab delivers its events in      *)
(* order, one transaction at a time; two tabs on the session have two      *)
(* under way.  (That their sequence numbers differ is the case left when   *)
(* events_session_raw_sequence_uq has refused the collisions, see          *)
(* EvidenceDelivery.)  A transaction may fail and is then retried, until   *)
(* the event is stored.  The participant's clock is off by `skew'.         *)
(***************************************************************************)
EXTENDS EventStore

CONSTANTS
  Tabs,
  Openings,     \* the sets of tabs a participant may have open
  Session, Task,
  Skews,        \* what the participant's clock may be off by
  MaxEvents,    \* bound on the raw events of the session
  MaxTime,      \* bound on the server's clock
  MaxFailures   \* bound on failed transactions

ASSUME ProjectionAssumption ==
  /\ Openings \subseteq SUBSET Tabs /\ IsFiniteSet(Tabs)
  /\ None \notin Tabs /\ None \notin Tasks /\ None \notin Int /\ None \notin TaskOutcomes
  /\ Session \in Sessions /\ Task \in Tasks
  /\ \A d \in Skews : d \in Int
  /\ MaxEvents \in Nat /\ MaxTime \in Nat /\ MaxFailures \in Nat

VARIABLES
  open,       \* the tabs that are open, all along
  rows,       \* committed rows of the events table
  task,       \* the committed task_sessions row
  session,    \* the committed sessions row
  tx,         \* of each tab, the transaction under way
  lock,       \* who has changed a row and not committed yet
  stage,      \* of each tab, where its participant is
  pending,    \* of each tab, the event to store
  now,        \* the server's clock
  skew,
  issued,     \* raw events produced
  nextId,
  failures

dbVars == <<rows, task, session>>
vars == <<open, dbVars, tx, lock, stage, pending, now, skew, issued, nextId, failures>>
-----------------------------------------------------------------------------
Steps == {"idle", "project", "check", "derive", "settle", "commit"}

Moments == (UNION {d .. (MaxTime + d) : d \in Skews}) \cup {None}

Row == [startedAt : Moments, outcome : TaskOutcomes \cup {None}, ended : Moments]

SessionRow ==
  [status : {"active", "completed", "abandoned", "technical_blocked"}, startedAt : {0},
   completedAt : Moments]

Labels ==
  {"task-outcome-v" \o TaskRule[t].version : t \in Tasks}
    \cup {"immediate-aba-backtrack-v1", "figma-handled-misclick-v1", "rage-click-v1"}

RawTypes == {"task_started", "screen_view", "task_give_up", "session_completed"}
DerivedTypes == {"task_success", "task_failed", "backtrack", "misclick", "rage_click"}

Event ==
  [id : Nat \ {0}, layer : {"raw", "derived"}, type : RawTypes \cup DerivedTypes,
   session : {Session}, task : {Task, None}, screen : Screens \cup {None},
   source : {"runner", "rules_engine", "analytics"}, seq : Nat \cup {None},
   at : Moments \ {None}, point : {None}, handled : {None},
   outcome : TaskOutcomes \cup {None}, from : SUBSET Nat, rule : Labels \cup {None}]

Tx ==
  [step : Steps, own : Seq(Event), task : Row \cup {None}, session : SessionRow \cup {None},
   ended : BOOLEAN]

ASSUME NoRowAssumption == None \notin Row /\ None \notin SessionRow

NoEvent == [id |-> 0]

NoTx == [step |-> "idle", own |-> <<>>, task |-> None, session |-> None, ended |-> FALSE]

Init ==
  /\ open \in Openings
  /\ rows = <<>> /\ task = NoRow
  /\ session = [status |-> "active", startedAt |-> 0, completedAt |-> None]
  /\ tx = [b \in Tabs |-> NoTx]
  /\ lock = [r \in {"task", "session"} |-> None]
  /\ stage = [b \in Tabs |-> "intro"]
  /\ pending = [b \in Tabs |-> NoEvent]
  /\ now = 0 /\ skew \in Skews
  /\ issued = 0 /\ nextId = 1 /\ failures = 0

(* The events the page of tab b can produce where it stands, and where it  *)
(* stands afterwards.                                                      *)
Emissions(b) ==
  CASE stage[b] = "intro" -> {[type |-> "task_started", screen |-> None, to |-> "task"]}
    [] stage[b] = "task" ->
         {[type |-> "screen_view", screen |-> n, to |-> "task"] : n \in Screens}
         \cup {[type |-> "task_give_up", screen |-> None, to |-> "after"]}
    [] stage[b] = "after" ->
         {[type |-> "session_completed", screen |-> None, to |-> "ended"]}
    [] OTHER -> {}

Emit(b) ==
  /\ pending[b] = NoEvent /\ issued < MaxEvents
  /\ \E m \in Emissions(b), moment \in now .. MaxTime :
       /\ now' = moment
       /\ issued' = issued + 1
       /\ nextId' = nextId + 1
       /\ stage' = [stage EXCEPT ![b] = m.to]
       /\ pending' = [pending EXCEPT ![b] =
            RawRow(nextId, m.type, Session, IF m.type = "session_completed" THEN None ELSE Task,
                   m.screen, "runner", issued + 1, moment + skew, None, None)]
  /\ UNCHANGED <<open, dbVars, tx, lock, skew, failures>>

(* The state read back shows the task started or decided: the page joins   *)
(* the task, or goes on from it.                                           *)
Follow(b) ==
  /\ pending[b] = NoEvent
  /\ \/ /\ stage[b] = "intro" /\ Started(task)
        /\ stage' = [stage EXCEPT ![b] = "task"]
     \/ /\ stage[b] = "task" /\ task.outcome # None
        /\ stage' = [stage EXCEPT ![b] = "after"]
  /\ UNCHANGED <<open, dbVars, tx, lock, pending, now, skew, issued, nextId, failures>>
-----------------------------------------------------------------------------
(* What the transaction of tab b sees: its own writes before the committed.*)
SeenTask(b) == IF tx[b].task # None THEN tx[b].task ELSE task
SeenSession(b) == IF tx[b].session # None THEN tx[b].session ELSE session
SeenRows(b) == rows \o tx[b].own

Free(r, b) == lock[r] \in {None, b}

(* An update of the task row by e changes it only if e has an outcome and  *)
(* the row none; it waits while another transaction holds the row.  A row  *)
(* another transaction has inserted and not committed is not there.        *)
TouchesTask(b, e) == ProjectTask(SeenTask(b), e) # SeenTask(b)

TaskWritten(b, e) ==
  IF TouchesTask(b, e)
  THEN /\ Free("task", b)
       /\ tx' = [tx EXCEPT ![b].task = ProjectTask(SeenTask(b), e),
                           ![b].step = IF tx[b].step = "settle" THEN "commit" ELSE "check"]
       /\ lock' = [lock EXCEPT !["task"] = b]
  ELSE /\ tx' = [tx EXCEPT ![b].step = IF @ = "settle" THEN "commit" ELSE "check"]
       /\ UNCHANGED lock

(* check (ended_at >= started_at), check (completed_at >= started_at): a   *)
(* row that breaks it fails the statement, and with it the transaction.    *)
BreaksCheck(b, e) ==
  /\ e.type \in DOMAIN SessionEnd
  /\ SeenSession(b).status = "active"
  /\ e.at < SeenSession(b).startedAt

Begin(b) ==
  /\ pending[b] # NoEvent /\ tx[b].step = "idle"
  /\ tx' = [tx EXCEPT ![b] = [NoTx EXCEPT !.step = "project", !.own = <<pending[b]>>]]
  /\ UNCHANGED <<open, dbVars, lock, stage, pending, now, skew, issued, nextId, failures>>

Project(b) ==
  LET e == pending[b]
  IN  /\ tx[b].step = "project"
      /\ ~BreaksCheck(b, e)
      /\ IF EndsSession(SeenSession(b).status, e)
         THEN /\ Free("session", b)
              /\ tx' = [tx EXCEPT ![b].session = [SeenSession(b) EXCEPT
                                                   !.status = SessionEnd[e.type],
                                                   !.completedAt = e.at],
                                  ![b].step = "commit"]
              /\ lock' = [lock EXCEPT !["session"] = b]
         ELSE TaskWritten(b, e)
      /\ UNCHANGED <<open, dbVars, stage, pending, now, skew, issued, nextId, failures>>

Check(b) ==
  /\ tx[b].step = "check"
  /\ tx' = [tx EXCEPT ![b].ended = SeenTask(b).outcome # None,
                      ![b].step = IF pending[b].task = None THEN "commit" ELSE "derive"]
  /\ UNCHANGED <<open, dbVars, lock, stage, pending, now, skew, issued, nextId, failures>>

Derive(b) ==
  /\ tx[b].step = "derive"
  /\ LET derived == Derived(SeenRows(b), pending[b], tx[b].ended, nextId)
     IN  /\ tx' = [tx EXCEPT ![b].own = @ \o derived, ![b].step = "settle"]
         /\ nextId' = nextId + Len(derived)
  /\ UNCHANGED <<open, dbVars, lock, stage, pending, now, skew, issued, failures>>

(* The trigger of the derived terminal row, if there is one.               *)
Settle(b) ==
  /\ tx[b].step = "settle"
  /\ LET own == tx[b].own
         terminals == {k \in 2 .. Len(own) : OutcomeOf(own[k]) # None}
     IN  IF terminals # {}
         THEN TaskWritten(b, own[CHOOSE k \in terminals : TRUE])
         ELSE tx' = [tx EXCEPT ![b].step = "commit"] /\ UNCHANGED lock
  /\ UNCHANGED <<open, dbVars, stage, pending, now, skew, issued, nextId, failures>>

(* A transaction that ends without giving its rows back (faulty variant).  *)
ReleasedNothing(b) == lock

Released(b) == [r \in DOMAIN lock |-> IF lock[r] = b THEN None ELSE lock[r]]

Commit(b) ==
  /\ tx[b].step = "commit"
  /\ rows' = SeenRows(b)
  /\ task' = SeenTask(b)
  /\ session' = SeenSession(b)
  /\ tx' = [tx EXCEPT ![b] = NoTx]
  /\ lock' = Released(b)
  /\ pending' = [pending EXCEPT ![b] = NoEvent]
  /\ UNCHANGED <<open, stage, now, skew, issued, nextId, failures>>

(* The projection kept while the rows are rolled back (faulty variant).    *)
FailKeepsProjection(b) ==
  /\ tx[b].step # "idle" /\ failures < MaxFailures
  /\ failures' = failures + 1
  /\ task' = SeenTask(b)
  /\ tx' = [tx EXCEPT ![b] = NoTx]
  /\ lock' = Released(b)
  /\ UNCHANGED <<open, rows, session, stage, pending, now, skew, issued, nextId>>

(* The connection or the function dies, or a check refuses the row.        *)
Fail(b) ==
  /\ tx[b].step # "idle"
  /\ \/ failures < MaxFailures /\ failures' = failures + 1
     \/ tx[b].step = "project" /\ BreaksCheck(b, pending[b]) /\ UNCHANGED failures
  /\ tx' = [tx EXCEPT ![b] = NoTx]
  /\ lock' = Released(b)
  /\ UNCHANGED <<open, dbVars, stage, pending, now, skew, issued, nextId>>

Serve(b) == Begin(b) \/ Project(b) \/ Check(b) \/ Derive(b) \/ Settle(b) \/ Commit(b)

Next == \E b \in open : Emit(b) \/ Follow(b) \/ Serve(b) \/ Fail(b)

(* A pending event is retried and the database goes on with a transaction. *)
Spec == Init /\ [][Next]_vars /\ \A b \in Tabs : WF_vars(Serve(b))
-----------------------------------------------------------------------------
TypeOK ==
  /\ open \in Openings
  /\ rows \in Seq(Event) /\ task \in Row /\ session \in SessionRow
  /\ tx \in [Tabs -> Tx]
  /\ lock \in [{"task", "session"} -> Tabs \cup {None}]
  /\ stage \in [Tabs -> {"intro", "task", "after", "ended"}]
  /\ pending \in [Tabs -> Event \cup {NoEvent}]
  /\ now \in 0 .. MaxTime /\ skew \in Skews
  /\ issued \in 0 .. MaxEvents /\ nextId \in Nat \ {0} /\ failures \in 0 .. MaxFailures

(* The sequence a terminal row is anchored at: its own, or the last of the *)
(* raw rows it was derived from.                                           *)
AnchorOf(e) ==
  IF IsRaw(e) THEN e.seq
  ELSE CHOOSE n \in {rows[i].seq : i \in {j \in DOMAIN rows : rows[j].id \in e.from}} : TRUE

Terminals == {i \in DOMAIN rows : OutcomeOf(rows[i]) # None}

(* The outcome analytics reports: the terminal evidence with the lowest    *)
(* sequence.                                                               *)
ReportedOutcome ==
  IF Terminals = {} THEN None
  ELSE OutcomeOf(rows[CHOOSE i \in Terminals :
                        \A j \in Terminals : AnchorOf(rows[i]) <= AnchorOf(rows[j])])

(* A projected outcome is backed by a stored terminal row of that outcome  *)
(* and time: the projection and its evidence commit together.              *)
OutcomeHasEvidence ==
  task.outcome # None =>
    \E i \in Terminals : OutcomeOf(rows[i]) = task.outcome /\ rows[i].at = task.ended

(* What makes that inductive.  A transaction works on the event it stores; *)
(* one that has changed the task row holds it, on which no outcome is      *)
(* committed, and has the evidence of the outcome it wrote.                *)
OutcomeNeedsStart(row) == row.outcome # None => Started(row)

Backed(row, own) ==
  \E k \in DOMAIN own : OutcomeOf(own[k]) = row.outcome /\ own[k].at = row.ended

TxInv(b) ==
  /\ tx[b].step = "idle" => tx[b] = NoTx
  /\ tx[b].step # "idle" => pending[b] # NoEvent /\ tx[b].own # <<>> /\ tx[b].own[1] = pending[b]
  /\ tx[b].step \in {"project", "check", "derive"} => tx[b].own = <<pending[b]>>
  /\ tx[b].step = "project" => tx[b].task = None
  /\ tx[b].task # None =>
       /\ lock["task"] = b /\ task.outcome = None /\ OutcomeNeedsStart(tx[b].task)
       /\ tx[b].task.outcome # None => Backed(tx[b].task, tx[b].own)

ProjectionInv ==
  /\ OutcomeHasEvidence /\ OutcomeNeedsStart(task)
  /\ \A b \in Tabs : TxInv(b)

(* Two transactions of the session, of two tabs, may interleave.           *)
Alone == Cardinality(open) = 1

(* While one tab is open, a task is decided by at most one derived         *)
(* terminal event, whatever fails and is retried.  With two tabs neither   *)
(* transaction sees the other's outcome.                                   *)
DecidedOnce == Alone => Cardinality({i \in Terminals : ~IsRaw(rows[i])}) <= 1

(* The outcome in task_sessions, which sends the participant on, is the    *)
(* one the results report, while one tab is open.  With two, the row has   *)
(* the outcome stored first, the report the one with the lower sequence.   *)
RowTellsReport == Alone /\ Started(task) => task.outcome = ReportedOutcome

(* One outcome, in the row and in the report.                              *)
OneOutcome == DecidedOnce /\ RowTellsReport

(* What makes that inductive, for the one tab.  Ids and sequence numbers   *)
(* grow along the rows, a derived row comes after the raw one it is from.  *)
Ordered(list) ==
  /\ \A i, j \in DOMAIN list : i < j => list[i].id < list[j].id
  /\ \A i, j \in DOMAIN list :
       i < j /\ IsRaw(list[i]) /\ IsRaw(list[j]) => list[i].seq < list[j].seq
  /\ \A i \in DOMAIN list : ~IsRaw(list[i]) =>
       \E k \in DOMAIN list : k < i /\ IsRaw(list[k]) /\ list[i].from = {list[k].id}

Ends(list) == {i \in DOMAIN list : OutcomeOf(list[i]) # None}

(* The row has the outcome of the first terminal, and only raw ones follow.*)
DecidedByFirst(list, row) ==
  IF row.outcome = None THEN Ends(list) = {}
  ELSE \E i \in Ends(list) :
         /\ OutcomeOf(list[i]) = row.outcome
         /\ \A j \in Ends(list) : j = i \/ (i < j /\ IsRaw(list[j]))

(* Ids and sequence numbers are given out in order.                        *)
Newest(list) ==
  \A i \in DOMAIN list :
    list[i].id < nextId /\ (IsRaw(list[i]) => list[i].seq \in 0 .. issued)

(* All rows are older than the event e.                                    *)
Older(list, e) ==
  \A i \in DOMAIN list : list[i].id < e.id /\ (IsRaw(list[i]) => list[i].seq < e.seq)

SoloPending(b) ==
  /\ stage[b] = "intro" => pending[b] = NoEvent
  /\ stage[b] # "intro" /\ pending[b] = NoEvent => Started(task)
  /\ pending[b] # NoEvent =>
       /\ IsRaw(pending[b]) /\ pending[b].type \in RawTypes /\ pending[b].seq = issued
       /\ pending[b].id < nextId /\ Older(rows, pending[b])
       /\ pending[b].type = "session_completed" <=> pending[b].task = None
       /\ pending[b].type # "task_started" => Started(task)

SoloTx(b) ==
  /\ Newest(tx[b].own)
  /\ tx[b].step \notin {"idle", "project"} => Started(SeenTask(b))
  /\ tx[b].step \in {"check", "derive", "commit"} => DecidedByFirst(SeenRows(b), SeenTask(b))
  /\ tx[b].step \in {"derive", "settle"} =>
       pending[b].task # None /\ tx[b].ended = (SeenTask(b).outcome # None)
  /\ tx[b].step = "settle" =>
       IF tx[b].ended THEN DecidedByFirst(SeenRows(b), SeenTask(b))
       ELSE Ends(SeenRows(b)) \subseteq {Len(rows) + 2}
  /\ tx[b].step # "idle" => Ordered(SeenRows(b))

Solo(b) ==
  /\ Ordered(rows) /\ DecidedByFirst(rows, task) /\ Newest(rows)
  /\ SoloPending(b) /\ SoloTx(b)

SoloInv == Alone => \A b \in open : Solo(b)

(* Once a task is decided no later evidence changes its row.               *)
OutcomeIsFinal == [][task.outcome # None => task' = task]_vars

(* Whatever tab it comes from and whatever fails on the way, a raw event   *)
(* is stored in the end: no two transactions wait for each other for ever, *)
(* if the participant's clock is not behind the server's.  If it is, the   *)
(* end of the session breaks completed_at >= started_at at every attempt.  *)
EventuallyStored == \A b \in Tabs : pending[b] # NoEvent ~> pending[b] = NoEvent
=============================================================================
