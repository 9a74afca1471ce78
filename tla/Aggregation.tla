----------------------------- MODULE Aggregation -----------------------------
(***************************************************************************)
(* analytics/aggregation.ts and metrics.ts: from the rows a reader got,    *)
(* task instances, task metrics and session aggregates.  Rows are a        *)
(* sequence, in the order read and with what was read twice.  The code     *)
(* throws where evidence contradicts itself; CanAggregate says when it     *)
(* does not, and the other operators assume it.                            *)
(*                                                                         *)
(* Rates are their numerator and denominator; a percentile is its value    *)
(* times twenty, so that the interpolation of the code stays integral.     *)
(***************************************************************************)
EXTENDS EventStore, FiniteSetsExt, Functions, Positions

Elements(rows) == {rows[i] : i \in DOMAIN rows}
Count(rows, P(_)) == Cardinality({i \in DOMAIN rows : P(rows[i])})
Ids(rows) == {e.id : e \in Elements(rows)}

(* Every occurrence kept (faulty variant).                                 *)
AcceptedAll(rows) == rows

(* The first occurrence of every event, in the order read.                 *)
Accepted(rows) ==
  KeepAt(rows, {i \in DOMAIN rows : \A j \in 1 .. (i - 1) : rows[j].id # rows[i].id})

(* The raw rows, in the context of e, that e was derived from.             *)
Sources(rows, e) ==
  {r \in Elements(rows) : /\ r.id \in e.from /\ IsRaw(r)
                          /\ r.session = e.session /\ r.task = e.task}

Resolves(rows, e) == e.from # {} /\ {r.id : r \in Sources(rows, e)} = e.from

Anchor(rows, e) ==
  IF IsRaw(e) THEN e.seq ELSE Max({r.seq : r \in Sources(rows, e)})

SessionsOf(rows) == {e.session : e \in Elements(rows)}
TasksOf(rows) == {e.task : e \in Elements(rows)} \ {None}
Attempts(rows) == {<<e.session, e.task>> : e \in {d \in Elements(rows) : d.task # None}}

RawRows(rows) == SelectSeq(rows, IsRaw)

(* The rows of one attempt, in the order read.                             *)
AttemptRows(rows, s, t) ==
  KeepAt(rows, {i \in DOMAIN rows : rows[i].session = s /\ rows[i].task = t})

(* The rows of one session, in the order read.                             *)
SessionRows(rows, s) == KeepAt(rows, {i \in DOMAIN rows : rows[i].session = s})

(* The first of some rows once they are sorted by a key: one, or none.     *)
Foremost(found, Key(_)) ==
  {e \in found : \A d \in found : d = e \/ Precedes(Key(e), Key(d))}

(* What a function says of the first row, None if there is none.           *)
IfAny(first, f(_)) == IF first = {} THEN None ELSE f(CHOOSE e \in first : TRUE)

(* Positions in the order of their keys.                                   *)
InPlaces(S, key) ==
  LET place(i) == Cardinality({j \in S : j = i \/ Precedes(key[j], key[i])})
  IN  [k \in 1 .. Cardinality(S) |-> CHOOSE i \in S : place(i) = k]

(* The first of the raw rows of a type, by sequence.                       *)
FirstOf(rows, types) ==
  Foremost({e \in Elements(rows) : IsRaw(e) /\ e.type \in types}, BySequence)

TerminalRows(attempt) == {e \in Elements(attempt) : OutcomeOf(e) # None}

(* The terminal evidence that decides an attempt: by its anchor, then the  *)
(* time, then the id.                                                      *)
Terminal(rows, attempt) ==
  Foremost(TerminalRows(attempt), LAMBDA e : <<Anchor(rows, e), e.at, e.id>>)

DurationFails(started, terminal) == \E d \in started, e \in terminal : e.at < d.at

(* The time from the start to the end, if there are both.                  *)
Lasted(started, terminal) ==
  IfAny(started, LAMBDA d : IfAny(terminal, LAMBDA e : e.at - d.at))
-----------------------------------------------------------------------------
InstanceOf(s, t, attempt, started, terminal) ==
  LET pointers == {i \in DOMAIN attempt : IsRaw(attempt[i])
                                          /\ attempt[i].type = "pointer_interaction"}
      misclicks == {i \in DOMAIN attempt : ~IsRaw(attempt[i]) /\ attempt[i].type = "misclick"}
  IN
  [session |-> s, task |-> t,
   started |-> started,
   terminal |-> terminal,
   outcome |-> IfAny(terminal, OutcomeOf),
   duration |-> Lasted(started, terminal),
   events |-> Ids(attempt),
   pointers |-> Cardinality(pointers),
   misclicks |-> Cardinality(misclicks),
   clicks |-> {attempt[i].id : i \in pointers \cup misclicks}]

Instance(rows, s, t) ==
  LET attempt == AttemptRows(rows, s, t)
  IN  InstanceOf(s, t, attempt, FirstOf(attempt, {"task_started"}), Terminal(rows, attempt))

Instances(rows) == {Instance(rows, a[1], a[2]) : a \in Attempts(rows)}

Eligible(i) == i.outcome # "technical_blocked"
Successful(i) == i.outcome \in {"success_direct", "success_indirect"}

(* aggregateAnalytics returns: the evidence of every derived row is there, *)
(* and no task ends before it starts.                                      *)
CanAggregate(read) ==
  LET rows == Accepted(read)
  IN  /\ \A e \in Elements(rows) : IsRaw(e) \/ Resolves(rows, e)
      /\ \A a \in Attempts(rows) :
           LET attempt == AttemptRows(rows, a[1], a[2])
           IN  ~DurationFails(FirstOf(attempt, {"task_started"}), Terminal(rows, attempt))

(* The ids a metric can be traced to: the events and what they were        *)
(* derived from.                                                           *)
Trace(rows, ids) ==
  ids \cup UNION {{r.id : r \in Sources(rows, e)} :
                    e \in {d \in Elements(rows) : d.id \in ids /\ ~IsRaw(d)}}

(* The start of the attempt is not referred to (faulty variant).           *)
EndIdsTerminal(i) == {e.id : e \in i.terminal}

EndIds(i) == {e.id : e \in i.started \cup i.terminal}

(* Values of a function on a set, in order.                                *)
Ordered(S, f(_)) ==
  [k \in 1 .. Cardinality(S) |->
     CHOOSE v \in {f(x) : x \in S} : /\ Cardinality({x \in S : f(x) < v}) < k
                                     /\ Cardinality({x \in S : f(x) <= v}) >= k]

(* percentile(values, p) with p = k/20, times 20, of values in order.      *)
Percentile20(values, k) ==
  IF values = <<>> THEN None
  ELSE LET place == (Len(values) - 1) * k
           lower == 1 + place \div 20
           weight == place % 20
       IN  IF weight = 0 THEN 20 * values[lower]
           ELSE values[lower] * (20 - weight) + values[lower + 1] * weight

Rate(numerator, denominator) ==
  IF denominator = 0 THEN None ELSE [of |-> numerator, among |-> denominator]

Durations(instances) ==
  Ordered({i \in instances : i.duration # None}, LAMBDA i : i.duration)

DurationSummary(values) ==
  [sample |-> Len(values), median |-> Percentile20(values, 10),
   p75 |-> Percentile20(values, 15), p90 |-> Percentile20(values, 18)]

(* A sum of natural numbers: as many as there are pairs of an element and  *)
(* a number up to its value.                                               *)
SumOver(S, f(_)) == Cardinality(UNION {{x} \X (1 .. f(x)) : x \in S})
-----------------------------------------------------------------------------
(* What the metrics of a task are traced to, of its started instances.     *)
TaskTrace(rows, started) ==
  [cohort |-> Trace(rows, UNION {i.events : i \in started}),
   completion |-> Trace(rows, UNION {EndIds(i) : i \in started}),
   timeOnTask |-> Trace(rows, UNION {EndIds(i) : i \in {j \in started : Successful(j)}}),
   misclick |-> Trace(rows, UNION {i.clicks : i \in {j \in started : Eligible(j)}})]

(* The metrics of a task, of its started instances.                        *)
MetricOf(t, started, trace) ==
  LET outcomes == [o \in TaskOutcomes |-> Cardinality({i \in started : i.outcome = o})]
      eligible == Cardinality(started) - outcomes["technical_blocked"]
      durations == Durations({i \in started : Successful(i)})
      counted == {i \in started : Eligible(i)}
      pointers == SumOver(counted, LAMBDA i : i.pointers)
      misclicks == SumOver(counted, LAMBDA i : i.misclicks)
  IN  [task |-> t,
       started |-> Cardinality(started),
       eligible |-> eligible,
       outcomes |-> outcomes,
       completionRate |-> Rate(outcomes["success_direct"] + outcomes["success_indirect"], eligible),
       failureRate |-> Rate(outcomes["failed"], eligible),
       giveUpRate |-> Rate(outcomes["give_up"], eligible),
       durations |-> durations,
       duration |-> DurationSummary(durations),
       pointers |-> pointers,
       misclicks |-> misclicks,
       misclickRate |-> Rate(misclicks, pointers),
       trace |-> trace]

TaskMetric(rows, t) ==
  LET started == {i \in Instances(rows) : i.task = t /\ i.started # {}}
  IN  MetricOf(t, started, TaskTrace(rows, started))

SessionTerminal(rows) ==
  IfAny(FirstOf(rows, DOMAIN SessionEnd), LAMBDA e : SessionEnd[e.type])

AggregateOf(s, start, end, started, trace) ==
  [session |-> s,
   startedAt |-> IfAny(start, LAMBDA e : e.at),
   terminal |-> end,
   taskStarted |-> Cardinality(started),
   taskTerminal |-> Cardinality({i \in started : i.terminal # {}}),
   eligible |-> Cardinality({i \in started : Eligible(i)}),
   technicalBlocked |-> Cardinality({i \in started : ~Eligible(i)}),
   successful |-> Cardinality({i \in started : Successful(i)}),
   trace |-> trace]

SessionAggregate(rows, s) ==
  LET own == SessionRows(rows, s)
  IN  AggregateOf(s, FirstOf(own, {"session_started"}), SessionTerminal(own),
                  {i \in Instances(rows) : i.session = s /\ i.started # {}},
                  Trace(rows, Ids(own)))

Analytics(read) ==
  LET rows == Accepted(read)
  IN  [tasks |-> {TaskMetric(rows, t) : t \in TasksOf(rows)},
       sessions |-> {SessionAggregate(rows, s) : s \in SessionsOf(rows)}]
=============================================================================
