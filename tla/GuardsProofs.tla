----------------------------- MODULE GuardsProofs -----------------------------
(***************************************************************************)
(* The three guards that admit one of several, for any number of callers   *)
(* and any delays.  ProviderBridges: that the lifecycle accepts one event  *)
(* for each number, from BridgeInv, and that a bridge stays in step with   *)
(* it, from StepInv.  TokenGate: that the gate lets a token through at     *)
(* most once, from GateInv, and by how much a window may hold more uses    *)
(* than the limit, from WindowInv.  ExecutionLease: that leases exclude    *)
(* each other, from LeaseInv.                                              *)
(***************************************************************************)
EXTENDS TokenGate, ExecutionLease, ProviderBridges, NaturalSets, FiniteSetTheorems, SequenceTheorems, TLAPS

-----------------------------------------------------------------------------
(* The numbering of events by the lifecycle and the bridges.               *)
USE BridgeAssumption

Life == [sequence : Nat \ {0}, terminal : BOOLEAN, task : Tasks \cup {0}, taskTerminal : BOOLEAN]
Bridge == [seq : Nat, task : Tasks \cup {0}, current : Shown]
Operation == [kind : {"start", "end", "external", "block"}, event : Events]
Waiting == [message : setting.messages, at : Nat]

\* Taking the only element leaves nothing.
LEMMA TailOfOne ==
  ASSUME NEW S, NEW q \in Seq(S), Len(q) <= 1, q # <<>>
  PROVE  Tail(q) = <<>> /\ Len(q) = 1
<1>1. Len(q) = 1
  <2> DEFINE n == Len(q)
  <2>1. n \in Nat \ {0}
    BY EmptySeq
  <2>2. n <= 1
    OBVIOUS
  <2> HIDE DEF n
  <2>3. n = 1
    BY <2>1, <2>2
  <2> QED
    BY <2>3 DEF n
<1>2. Tail(q) \in Seq(S) /\ Len(Tail(q)) = Len(q) - 1
  BY HeadTailProperties
<1>3. Len(Tail(q)) = 0
  BY <1>1, <1>2
<1> QED
  BY <1>1, <1>2, <1>3, EmptySeq

\* Nothing is under way behind the first enqueue.
LEMMA QueueLeft ==
  ASSUME BridgeTypeOK, BridgeInv, queue # <<>>
  PROVE  Tail(queue) = <<>>
<1>1. queue \in Seq(Operation) /\ Len(queue) <= 1
  BY DEF BridgeTypeOK, Operation, BridgeInv, UnderWay
<1> QED
  BY <1>1, TailOfOne

\* The values that stand for nothing are values like others.
LEMMA NoneShown == None \in Shown /\ StartScreen \in Shown /\ 0 \notin Tasks /\ NoBridge \in Bridge
BY DEF Shown, Tasks, NoBridge, Bridge

\* raw() makes an event of the next number.
LEMMA PlainTyped ==
  ASSUME BridgeTypeOK, NEW type \in EventTypes, NEW i \in Tasks \cup {0}, NEW n \in Nat
  PROVE  /\ Plain(type, i, n) \in Events /\ Plain(type, i, n).seq = n
         /\ Plain(type, i, n).at = received /\ Plain(type, i, n).type = type
BY NoneShown DEF Plain, Event, Events, BridgeTypeOK

\* A page that has nothing under way moves on.
LEMMA PageMoves ==
  ASSUME BridgeTypeOK, BridgeInv, Idle,
         UNCHANGED <<setting, waiting, queue, stored, received, refused, failures>>,
         index' \in Tasks, stage' \in Stages, life' \in Life, life'.sequence = life.sequence,
         bridge' \in Bridge, bridge'.seq \in {0, life.sequence, bridge.seq},
         bridge'.seq # 0 => stage' = "runner"
  PROVE  BridgeTypeOK' /\ BridgeInv'
<1>1. BridgeTypeOK'
  BY DEF BridgeTypeOK, Life, Bridge
<1>2. NumbersGapless' /\ UnderWay'
  BY DEF BridgeInv, NumbersGapless, Gapless, ArrivalOrder, UnderWay, Idle
<1>3. life.sequence = Len(stored) /\ (setting.provider = "figma" => bridge.seq <= life.sequence)
      /\ life.sequence \in Nat
  BY DEF BridgeInv, Counted, BridgeTypeOK
<1>4. Counted'
  BY <1>3 DEF Counted
<1>5. Younger'
  BY DEF BridgeInv, Younger, Idle
<1> QED
  BY <1>1, <1>2, <1>4, <1>5 DEF BridgeInv

\* The lifecycle enqueues what the page tells it.
LEMMA PageEmits ==
  ASSUME BridgeTypeOK, BridgeInv, Idle,
         NEW op \in Operation, queue' = Append(queue, op),
         op.event.seq = life.sequence + 1, op.event.at = received,
         \/ op.kind = "start" /\ stage = "task-intro"
         \/ op.kind = "end" /\ setting.ends,
         UNCHANGED <<setting, stage, index, bridge, waiting, stored, received, refused, failures>>,
         life' \in Life, life'.sequence = life.sequence
  PROVE  BridgeTypeOK' /\ BridgeInv'
<1>1. queue = <<>> /\ waiting = <<>> /\ queue' \in Seq(Operation) /\ Len(queue') = 1 /\ queue'[1] = op
  BY DEF Idle
<1>2. BridgeTypeOK'
  BY <1>1 DEF BridgeTypeOK, Life, Operation
<1>3. NumbersGapless'
  BY DEF BridgeInv, NumbersGapless, Gapless, ArrivalOrder
<1>4. UnderWay'
  BY <1>1 DEF UnderWay
<1>5. Counted'
  BY DEF BridgeInv, Counted
<1>6. \A k \in DOMAIN stored : stored[k].at <= received
  BY DEF BridgeInv, Younger
<1>7. received \in Nat
  BY DEF BridgeTypeOK
<1>8. Younger'
  BY <1>1, <1>6, <1>7 DEF Younger
<1> QED
  BY <1>2, <1>3, <1>4, <1>5, <1>8 DEF BridgeInv

\* A mounted bridge counts from the number it is given, on the runner page.
LEMMA MountTyped ==
  ASSUME NEW shown, NEW i \in Tasks, NEW n \in Nat, Mount(shown, i, n)
  PROVE  /\ bridge' \in Bridge /\ bridge'.seq \in {0, n}
         /\ bridge'.seq # 0 => shown = "runner"
BY NoneShown DEF Mount, Bridge, NoBridge

\* Changing the stage, which mounts or drops the bridge, is such a move.
LEMMA ShowMoves ==
  ASSUME BridgeTypeOK, BridgeInv, Idle, NEW next \in Stages, Show(next),
         UNCHANGED <<setting, index, waiting, queue, stored, received, refused, failures>>,
         life' \in Life, life'.sequence = life.sequence
  PROVE  BridgeTypeOK' /\ BridgeInv'
<1>1. index \in Tasks /\ life.sequence \in Nat
  BY DEF BridgeTypeOK
<1>2. stage' = next /\ Mount(next, index, life.sequence)
  BY DEF Show
<1>3. /\ bridge' \in Bridge /\ bridge'.seq \in {0, life.sequence}
      /\ bridge'.seq # 0 => next = "runner"
  BY <1>1, <1>2, MountTyped
<1> QED
  BY <1>1, <1>2, <1>3, PageMoves

\* What the page does by itself, when nothing is under way.
LEMMA PageSteps ==
  ASSUME BridgeTypeOK, BridgeInv,
         \/ StartTask \/ OpenDialog \/ CancelDialog \/ GiveUp \/ TimeOut \/ Sync
         \/ NextTask \/ Retry
  PROVE  BridgeTypeOK' /\ BridgeInv'
<1>0. /\ life \in Life /\ life.sequence \in Nat /\ life.sequence + 1 \in Nat /\ index \in Tasks
      /\ life.task \in Tasks \cup {0} /\ bridge \in Bridge
  BY DEF BridgeTypeOK, Life, Bridge
<1>1. CASE StartTask
  <2>1. CASE CanStart
    <3> DEFINE e == Plain("task_started", index, life.sequence + 1)
               op == Op("start", e)
    <3>1. e \in Events /\ e.seq = life.sequence + 1 /\ e.at = received
      BY <1>0, PlainTyped DEF EventTypes
    <3>2. op \in Operation /\ op.kind = "start" /\ op.event = e
      BY <3>1 DEF Op, Operation
    <3>3. /\ Idle /\ stage = "task-intro" /\ queue' = Append(queue, op)
          /\ life' = [life EXCEPT !.task = index, !.taskTerminal = FALSE]
          /\ UNCHANGED <<setting, stage, index, bridge, waiting, stored, received, refused, failures>>
      BY <1>1, <2>1 DEF StartTask, Enqueue
    <3>4. life' \in Life /\ life'.sequence = life.sequence
      BY <1>0, <3>3 DEF Life
    <3> HIDE DEF e, op
    <3> QED
      BY <3>1, <3>2, <3>3, <3>4, PageEmits
  <2>2. CASE ~CanStart
    BY <1>0, <1>1, <2>2, ShowMoves DEF StartTask, Stages
  <2> QED
    BY <2>1, <2>2
<1>2. CASE OpenDialog \/ CancelDialog
  BY <1>0, <1>2, ShowMoves DEF OpenDialog, CancelDialog, Stages
<1>3. CASE GiveUp \/ TimeOut
  <2>1. CASE GiveUp /\ ~CanEndTask
    BY <1>0, <2>1, ShowMoves DEF GiveUp, Stages
  <2>2. CASE ~(GiveUp /\ ~CanEndTask)
    <3> PICK type \in Ends : Raw("end", type)
      BY <1>3, <2>2 DEF GiveUp, TimeOut, Ends
    <3> DEFINE e == Plain(type, life.task, life.sequence + 1)
               op == Op("end", e)
    <3>1. e \in Events /\ e.seq = life.sequence + 1 /\ e.at = received
      <4>1. type \in EventTypes
        BY DEF EventTypes
      <4> QED
        BY <1>0, <4>1, PlainTyped
    <3>2. op \in Operation /\ op.kind = "end" /\ op.event = e
      BY <3>1 DEF Op, Operation
    <3>3. /\ Idle /\ setting.ends /\ queue' = Append(queue, op) /\ life' = life
          /\ UNCHANGED <<setting, stage, index, bridge, waiting, stored, received, refused, failures>>
      BY <1>3, <2>2 DEF GiveUp, TimeOut, Raw, Enqueue
    <3> HIDE DEF e, op
    <3> QED
      BY <1>0, <3>1, <3>2, <3>3, PageEmits
  <2> QED
    BY <2>1, <2>2
<1>4. CASE Sync
  <2>1. life' \in Life /\ life'.sequence = life.sequence
    BY <1>0, <1>4 DEF Sync, Life
  <2> QED
    BY <1>4, <2>1, ShowMoves DEF Sync, Stages
<1>5. CASE NextTask
  <2>1. index' \in Tasks /\ stage' \in Stages
    BY <1>0, <1>5 DEF NextTask, Tasks, Stages
  <2>2. bridge.seq = 0
    BY <1>5 DEF NextTask, BridgeInv, Counted
  <2> QED
    BY <1>0, <1>5, <2>1, <2>2, PageMoves DEF NextTask
<1>6. CASE Retry
  <2>1. PICK shown \in Stages, i \in Tasks :
          stage' = shown /\ index' = i /\ Mount(shown, i, life.sequence)
    <3> DEFINE open == {i \in Tasks : HasRow(i) /\ ~Decided(i)}
               passed == {i \in Tasks : \A j \in 1 .. i : Decided(j)}
               where == IF Blocked THEN <<"technical", index>>
                        ELSE IF open # {} THEN <<"runner", CHOOSE i \in open : TRUE>>
                        ELSE IF passed # {} THEN <<"transition", Cardinality(passed)>>
                        ELSE <<"task-intro", 1>>
    <3>1. stage' = where[1] /\ index' = where[2] /\ Mount(where[1], where[2], life.sequence)
      BY <1>6 DEF Retry
    <3>2. open # {} => (CHOOSE i \in open : TRUE) \in Tasks
      OBVIOUS
    <3>3. passed # {} => Cardinality(passed) \in Tasks
      <4>1. IsFiniteSet(Tasks) /\ Cardinality(Tasks) = NumTasks
        BY FS_Interval DEF Tasks
      <4>2. IsFiniteSet(passed) /\ Cardinality(passed) <= NumTasks
        BY <4>1, FS_Subset
      <4>3. passed # {} => Cardinality(passed) # 0
        BY <4>2, FS_EmptySet
      <4>4. Cardinality(passed) \in Nat
        BY <4>2, FS_CardinalityType
      <4> QED
        BY <4>2, <4>3, <4>4 DEF Tasks
    <3>4. 1 \in Tasks
      BY DEF Tasks
    <3> HIDE DEF open, passed
    <3>5. where[1] \in Stages /\ where[2] \in Tasks
      BY <1>0, <3>2, <3>3, <3>4 DEF Stages
    <3> HIDE DEF where
    <3> QED
      BY <3>1, <3>5
  <2>2. /\ bridge' \in Bridge /\ bridge'.seq \in {0, life.sequence}
        /\ bridge'.seq # 0 => shown = "runner"
    BY <1>0, <2>1, MountTyped
  <2> QED
    BY <1>0, <1>6, <2>1, <2>2, PageMoves DEF Retry
<1> QED
  BY <1>1, <1>2, <1>3, <1>4, <1>5, <1>6

-----------------------------------------------------------------------------
(* Messages come in.                                                       *)

\* The adapters make events.
LEMMA AdaptedTyped ==
  ASSUME BridgeTypeOK, NEW m \in setting.messages, m.kind \in Tracked,
         NEW n \in Nat, NEW t \in Nat
  PROVE  Adapted(m, n, t) \in Events /\ Adapted(m, n, t).seq = n /\ Adapted(m, n, t).at = t
<1>1. m.screen \in Shown /\ bridge.current \in Shown /\ bridge.task \in Tasks \cup {0}
  BY DEF BridgeTypeOK, Shown
<1>2. Type[m.kind] \in EventTypes
  BY DEF EventTypes
<1> QED
  BY <1>1, <1>2, NoneShown DEF Adapted, Event, Events

\* What is stored, waits and is under way carries times.
LEMMA TimesTyped ==
  ASSUME BridgeTypeOK
  PROVE  /\ \A k \in DOMAIN stored : stored[k] \in Events /\ stored[k].at \in Nat
         /\ \A i \in DOMAIN waiting : waiting[i] \in Waiting /\ waiting[i].at \in Nat
         /\ queue # <<>> => /\ queue[1] \in Operation /\ queue[1].event \in Events
                            /\ queue[1].event.at \in Nat /\ queue[1].event.seq \in Nat
<1>1. \A k \in DOMAIN stored : stored[k] \in Events
  BY DEF BridgeTypeOK
<1>2. \A i \in DOMAIN waiting : waiting[i] \in Waiting
  <2>1. waiting \in Seq(Waiting)
    BY DEF BridgeTypeOK, Waiting
  <2> QED
    BY <2>1
<1>3. queue # <<>> => queue[1] \in Operation
  <2>1. queue \in Seq(Operation)
    BY DEF BridgeTypeOK, Operation
  <2>2. queue # <<>> => Len(queue) \in Nat \ {0}
    BY <2>1, EmptySeq
  <2> QED
    BY <2>1, <2>2
<1>4. \A x \in Waiting : x.at \in Nat
  BY DEF Waiting
<1>5. \A x \in Operation : x.event \in Events
  BY DEF Operation
<1>6. \A x \in Events : x.at \in Nat /\ x.seq \in Nat
  BY DEF Events
<1> QED
  BY <1>1, <1>2, <1>3, <1>4, <1>5, <1>6

\* The message waits behind the ones before it: no start or end is under way.
LEMMA FigmaMessageStep ==
  ASSUME BridgeTypeOK, BridgeInv, OnlyMessagesOverlap,
         NEW m \in setting.messages, FigmaMessage(m)
  PROVE  BridgeTypeOK' /\ BridgeInv'
<1> DEFINE x == [message |-> m, at |-> received + 1]
<1>1. /\ setting.provider = "figma" /\ received' = received + 1 /\ received < MaxMessages
      /\ waiting' = Append(waiting, x) /\ bridge.seq # 0 /\ (setting.slow \/ Idle)
      /\ UNCHANGED <<setting, stage, index, life, bridge, queue, stored, refused, failures>>
  BY DEF FigmaMessage, Arrives, Chained
<1>2. x \in Waiting /\ received \in Nat /\ waiting \in Seq(Waiting) /\ setting \in Settings /\ x.at = received'
  BY <1>1 DEF BridgeTypeOK, Waiting
<1>3. /\ waiting' \in Seq(Waiting) /\ Len(waiting') = Len(waiting) + 1 /\ Len(waiting) \in Nat
      /\ waiting'[Len(waiting) + 1] = x /\ \A i \in 1..Len(waiting) : waiting'[i] = waiting[i]
      /\ DOMAIN waiting = 1..Len(waiting) /\ DOMAIN waiting' = 1..Len(waiting')
  BY <1>1, <1>2
<1> HIDE DEF x
<1>4. \A i \in DOMAIN waiting' : i \in DOMAIN waiting \/ i = Len(waiting) + 1
  BY <1>3
<1>5. BridgeTypeOK'
  BY <1>1, <1>2, <1>3 DEF BridgeTypeOK, Waiting
<1>6. NumbersGapless' /\ Counted'
  BY <1>1 DEF BridgeInv, NumbersGapless, Gapless, ArrivalOrder, Counted
<1>7. UnderWay'
  <2>1. queue # <<>> => queue[1].kind \notin {"start", "end"}
    <3>1. CASE Idle
      BY <3>1 DEF Idle
    <3>2. CASE setting.slow
      <4>1. ~setting.ends /\ stage = "runner"
        BY <1>1, <1>2, <3>2 DEF OnlyMessagesOverlap, BridgeInv, Counted
      <4> QED
        BY <4>1 DEF BridgeInv, UnderWay
    <3> QED
      BY <1>1, <3>1, <3>2
  <2> QED
    BY <1>1, <2>1 DEF BridgeInv, UnderWay
<1>8. Younger'
  <2>1. \A k \in DOMAIN stored : stored[k].at <= received /\ stored[k].at \in Nat
    BY TimesTyped DEF BridgeInv, Younger
  <2>2. \A i \in DOMAIN waiting : waiting[i].at <= received /\ waiting[i].at \in Nat
    BY TimesTyped DEF BridgeInv, Younger
  <2>3. queue # <<>> => queue[1].event.at <= received /\ queue[1].event.at \in Nat
    BY TimesTyped DEF BridgeInv, Younger
  <2>5. \A i, j \in DOMAIN waiting' : i < j => waiting'[i].at <= waiting'[j].at
    <3> SUFFICES ASSUME NEW i \in DOMAIN waiting', NEW j \in DOMAIN waiting', i < j
                 PROVE  waiting'[i].at <= waiting'[j].at
      OBVIOUS
    <3>1. CASE j = Len(waiting) + 1
      <4>1. i \in DOMAIN waiting
        BY <1>3, <3>1
      <4> QED
        BY <1>1, <1>2, <1>3, <2>2, <3>1, <4>1
    <3>2. CASE j \in DOMAIN waiting
      <4>1. i \in DOMAIN waiting
        BY <1>3, <3>2
      <4> QED
        BY <1>3, <3>2, <4>1 DEF BridgeInv, Younger
    <3> QED
      BY <1>4, <3>1, <3>2
  <2>6. \A i \in DOMAIN waiting' : waiting'[i].at <= received'
    BY <1>1, <1>2, <1>3, <1>4, <2>2
  <2>7. queue # <<>> /\ queue[1].kind = "external" =>
          \A i \in DOMAIN waiting' : queue[1].event.at <= waiting'[i].at
    BY <1>1, <1>2, <1>3, <1>4, <2>3 DEF BridgeInv, Younger
  <2>8. bridge.seq = life.sequence =>
          \A k \in DOMAIN stored : \A i \in DOMAIN waiting' : stored[k].at <= waiting'[i].at
    BY <1>1, <1>2, <1>3, <1>4, <2>1 DEF BridgeInv, Younger
  <2>9. \A k \in DOMAIN stored : stored[k].at <= received'
    BY <1>1, <1>2, <2>1
  <2>10. queue # <<>> => queue[1].event.at <= received'
    BY <1>1, <1>2, <2>3
  <2>11. queue # <<>> => \A k \in DOMAIN stored : stored[k].at <= queue[1].event.at
    BY DEF BridgeInv, Younger
  <2> QED
    BY <1>1, <2>5, <2>6, <2>7, <2>8, <2>9, <2>10, <2>11 DEF Younger
<1> QED
  BY <1>5, <1>6, <1>7, <1>8 DEF BridgeInv

\* What is left of the chain once a message was taken from it.
Chain(w) ==
  /\ w \in Seq(Waiting) /\ (w # <<>> => setting.provider = "figma")
  /\ \A i, j \in DOMAIN w : i < j => w[i].at <= w[j].at
  /\ \A i \in DOMAIN w : w[i].at <= received
  /\ bridge.seq = life.sequence =>
       \A k \in DOMAIN stored : \A i \in DOMAIN w : stored[k].at <= w[i].at

\* The chain of the Figma bridge without its first message is still in order.
LEMMA ChainTail ==
  ASSUME BridgeTypeOK, BridgeInv, waiting # <<>>
  PROVE  Chain(Tail(waiting)) /\ \A i \in DOMAIN Tail(waiting) : waiting[1].at <= Tail(waiting)[i].at
<1>1. waiting \in Seq(Waiting)
  BY DEF BridgeTypeOK, Waiting
<1>2. /\ Tail(waiting) \in Seq(Waiting) /\ Len(Tail(waiting)) = Len(waiting) - 1
      /\ \A i \in 1..Len(Tail(waiting)) : Tail(waiting)[i] = waiting[i + 1]
      /\ Len(waiting) \in Nat \ {0}
  BY <1>1, HeadTailProperties, EmptySeq
<1> DEFINE w == Tail(waiting)
<1>3. DOMAIN w = 1..(Len(waiting) - 1) /\ DOMAIN waiting = 1..Len(waiting)
  BY <1>1, <1>2
<1>4. \A i \in DOMAIN w : w[i] = waiting[i + 1] /\ i + 1 \in DOMAIN waiting /\ i \in Nat /\ 1 < i + 1
  BY <1>2, <1>3
<1>5. 1 \in DOMAIN waiting
  BY <1>2, <1>3
<1> HIDE DEF w
<1>6. \A i, j \in DOMAIN w : i < j => i + 1 < j + 1
  BY <1>4
<1> QED
  BY <1>2, <1>4, <1>5, <1>6 DEF BridgeInv, UnderWay, Younger, Chain, w

\* A message was taken from the chain while no enqueue was under way, and
\* begins one or none.
LEMMA Handled ==
  ASSUME BridgeTypeOK, BridgeInv, queue = <<>>, Chain(waiting'),
         \/ queue' = <<>>
         \/ \E op \in Operation :
              /\ queue' = <<op>> /\ op.event.seq = life.sequence + 1 /\ op.event.at <= received
              /\ op.kind \in {"external", "block"} /\ setting.provider = "figma"
              /\ op.kind = "block" => op.event.type \in Blocks
              /\ \A k \in DOMAIN stored : stored[k].at <= op.event.at
              /\ op.kind = "external" => \A i \in DOMAIN waiting' : op.event.at <= waiting'[i].at,
         UNCHANGED <<setting, stage, index, life, bridge, stored, received, failures>>,
         refused' \in BOOLEAN
  PROVE  BridgeTypeOK' /\ BridgeInv'
<1>1. BridgeTypeOK'
  <2>1. queue' \in Seq(Operation)
    <3>1. \A op \in Operation : <<op>> \in Seq(Operation)
      OBVIOUS
    <3>2. <<>> \in Seq(Operation)
      BY EmptySeq
    <3> QED
      BY <3>1, <3>2
  <2> QED
    BY <2>1 DEF BridgeTypeOK, Operation, Chain, Waiting
<1>2. NumbersGapless' /\ Counted'
  BY DEF BridgeInv, NumbersGapless, Gapless, ArrivalOrder, Counted
<1>3. \A k \in DOMAIN stored : stored[k].at <= received
  BY DEF BridgeInv, Younger
<1>4. CASE queue' = <<>>
  <2>1. UnderWay' /\ Younger'
    BY <1>3, <1>4 DEF UnderWay, Younger, Chain
  <2> QED
    BY <1>1, <1>2, <2>1 DEF BridgeInv
<1>5. CASE queue' # <<>>
  <2>1. PICK op \in Operation :
          /\ queue' = <<op>> /\ op.event.seq = life.sequence + 1 /\ op.event.at <= received
          /\ op.kind \in {"external", "block"} /\ setting.provider = "figma"
          /\ op.kind = "block" => op.event.type \in Blocks
          /\ \A k \in DOMAIN stored : stored[k].at <= op.event.at
          /\ op.kind = "external" => \A i \in DOMAIN waiting' : op.event.at <= waiting'[i].at
    BY <1>5
  <2>2. Len(queue') = 1 /\ queue'[1] = op
    BY <2>1
  <2>3. UnderWay'
    BY <2>1, <2>2 DEF UnderWay
  <2>4. Younger'
    BY <1>3, <2>1, <2>2 DEF Younger, Chain
  <2> QED
    BY <1>1, <1>2, <2>3, <2>4 DEF BridgeInv
<1> QED
  BY <1>4, <1>5

\* A message is handled only when no enqueue is under way.
LEMMA ChainFree ==
  ASSUME BridgeTypeOK, BridgeInv, FigmaHandle
  PROVE  queue = <<>> /\ setting.provider = "figma"
<1>1. waiting # <<>> /\ ChainIsFree
  BY DEF FigmaHandle
<1>2. setting.provider = "figma"
  BY <1>1 DEF BridgeInv, UnderWay
<1>3. ASSUME queue # <<>> PROVE FALSE
  <2>1. 1 \in DOMAIN queue
    <3>1. Len(queue) \in Nat \ {0}
      BY <1>3, EmptySeq DEF BridgeTypeOK
    <3> QED
      BY <3>1 DEF BridgeTypeOK
  <2>2. queue[1].kind \notin {"external", "block"}
    BY <1>1, <2>1 DEF ChainIsFree
  <2>3. queue[1].kind \notin {"start", "end"}
    BY <1>1, <1>3 DEF BridgeInv, UnderWay
  <2> QED
    BY <1>3, <2>2, <2>3, TimesTyped DEF Operation
<1> QED
  BY <1>2, <1>3

\* Handling the next message of the chain keeps the invariant.
LEMMA FigmaHandleStep ==
  ASSUME BridgeTypeOK, BridgeInv, FigmaHandle
  PROVE  BridgeTypeOK' /\ BridgeInv'
<1> DEFINE m == waiting[1].message
           e == Adapted(m, bridge.seq + 1, waiting[1].at)
           type == IF CanEndTask THEN "task_technical_blocked" ELSE "session_technical_blocked"
           i == IF CanEndTask THEN life.task ELSE 0
           block == Op("block", Plain(type, i, life.sequence + 1))
<1>1. /\ waiting # <<>> /\ ChainIsFree /\ waiting' = Tail(waiting)
      /\ UNCHANGED <<setting, stage, index, life, bridge, stored, received, failures>>
  BY DEF FigmaHandle
<1>2. waiting[1] \in Waiting /\ waiting[1].at \in Nat /\ m \in setting.messages
  <2>1. waiting \in Seq(Waiting)
    BY DEF BridgeTypeOK, Waiting
  <2>2. Len(waiting) \in Nat \ {0} /\ 1 \in DOMAIN waiting
    BY <1>1, <2>1, EmptySeq
  <2>3. waiting[1] \in Waiting
    BY <2>1, <2>2
  <2> QED
    BY <2>3 DEF Waiting
<1>3. queue = <<>> /\ setting.provider = "figma"
  BY ChainFree
<1>4. Chain(waiting') /\ \A j \in DOMAIN waiting' : waiting[1].at <= waiting'[j].at
  BY <1>1, ChainTail
<1>5. \/ queue' = Append(queue, block)
      \/ queue' = queue
      \/ m.kind \in Tracked /\ Accepts(e) /\ queue' = Append(queue, Op("external", e))
  BY DEF FigmaHandle, Enqueue
<1>6. refused' \in BOOLEAN
  <2>1. refused' = refused \/ refused' = (refused \/ ~life.terminal)
    BY DEF FigmaHandle
  <2> QED
    BY <2>1 DEF BridgeTypeOK
<1>7. bridge.seq + 1 \in Nat /\ life.sequence + 1 \in Nat /\ received \in Nat /\ bridge.seq \in Nat
      /\ life.sequence \in Nat
  BY DEF BridgeTypeOK
<1>8. CASE queue' = Append(queue, block)
  <2>1. type \in Blocks /\ type \in EventTypes /\ i \in Tasks \cup {0}
    BY DEF Blocks, EventTypes, BridgeTypeOK
  <2>2. /\ Plain(type, i, life.sequence + 1) \in Events
        /\ Plain(type, i, life.sequence + 1).seq = life.sequence + 1
        /\ Plain(type, i, life.sequence + 1).at = received
        /\ Plain(type, i, life.sequence + 1).type = type
    BY <1>7, <2>1, PlainTyped
  <2> HIDE DEF type, i
  <2>3. /\ block \in Operation /\ block.kind = "block"
        /\ block.event = Plain(type, i, life.sequence + 1)
    BY <2>2 DEF Op, Operation
  <2> HIDE DEF block
  <2>4. queue' = <<block>>
    BY <1>3, <1>8
  <2>5. \A k \in DOMAIN stored : stored[k].at <= received
    BY DEF BridgeInv, Younger
  <2> QED
    BY <1>1, <1>3, <1>4, <1>6, <1>7, <2>1, <2>2, <2>3, <2>4, <2>5, Handled
<1>9. CASE queue' = queue
  BY <1>1, <1>3, <1>4, <1>6, <1>9, Handled
<1>10. CASE m.kind \in Tracked /\ Accepts(e) /\ queue' = Append(queue, Op("external", e))
  <2>1. e \in Events /\ e.seq = bridge.seq + 1 /\ e.at = waiting[1].at
    BY <1>2, <1>7, <1>10, AdaptedTyped
  <2>2. e.seq = life.sequence + 1 /\ bridge.seq = life.sequence
    BY <1>7, <1>10, <2>1 DEF Accepts
  <2> DEFINE op == Op("external", e)
  <2> HIDE DEF e
  <2>3. op \in Operation /\ op.kind = "external" /\ op.event = e
    BY <2>1 DEF Op, Operation
  <2>4. queue' = <<op>>
    BY <1>3, <1>10
  <2> HIDE DEF op
  <2>5. 1 \in DOMAIN waiting
    <3>1. Len(waiting) \in Nat \ {0}
      BY <1>1, EmptySeq DEF BridgeTypeOK
    <3> QED
      BY <3>1 DEF BridgeTypeOK
  <2>6. (\A k \in DOMAIN stored : stored[k].at <= e.at) /\ e.at <= received
    BY <2>1, <2>2, <2>5 DEF BridgeInv, Younger
  <2> QED
    BY <1>1, <1>3, <1>4, <1>6, <2>1, <2>2, <2>3, <2>4, <2>6, Handled
<1> QED
  BY <1>5, <1>8, <1>9, <1>10

\* A first-party message is taken at once: what cannot have the next number is
\* refused.
LEMMA WebMessageStep ==
  ASSUME BridgeTypeOK, BridgeInv, OnlyMessagesOverlap,
         NEW m \in setting.messages, WebMessage(m)
  PROVE  BridgeTypeOK' /\ BridgeInv'
<1> DEFINE e == Adapted(m, bridge.seq + 1, received + 1)
           op == Op("external", e)
<1>1. /\ setting.provider = "web" /\ received' = received + 1 /\ received < MaxMessages
      /\ bridge.seq # 0 /\ (setting.slow \/ Idle)
      /\ UNCHANGED <<setting, stage, index, life, waiting, stored, failures>>
  BY DEF WebMessage, Arrives
<1>2. \/ bridge' = bridge /\ queue' = queue
      \/ bridge' = [bridge EXCEPT !.seq = @ + 1] /\ queue' = queue
      \/ /\ bridge' = [bridge EXCEPT !.seq = @ + 1]
         /\ m.kind \in Tracked /\ Accepts(e) /\ queue' = Append(queue, op)
  BY <1>1 DEF WebMessage, Enqueue
<1>3. refused' \in BOOLEAN
  <2>1. \/ refused' = refused
        \/ refused' = (refused \/ ~life.terminal)
    BY DEF WebMessage
  <2> QED
    BY <2>1 DEF BridgeTypeOK
<1>4. /\ waiting = <<>> /\ setting.provider # "figma" /\ setting \in Settings /\ stage = "runner"
      /\ bridge.seq \in Nat /\ life.sequence \in Nat /\ received \in Nat
  BY <1>1 DEF BridgeInv, UnderWay, Counted, BridgeTypeOK
<1>5. bridge' \in Bridge /\ bridge'.seq \in {bridge.seq, bridge.seq + 1}
  <2>1. bridge \in Bridge
    BY DEF BridgeTypeOK, Bridge
  <2> DEFINE n == bridge.seq
  <2>2. bridge' = bridge \/ bridge' = [bridge EXCEPT !.seq = n + 1]
    BY <1>2
  <2>3. n \in Nat /\ n + 1 \in Nat
    BY <1>4
  <2> HIDE DEF e, op
  <2>4. CASE bridge' = bridge
    BY <2>1, <2>4
  <2>5. CASE bridge' = [bridge EXCEPT !.seq = n + 1]
    BY <2>1, <2>3, <2>5 DEF Bridge
  <2> QED
    BY <2>2, <2>4, <2>5
<1>6. \A k \in DOMAIN stored : stored[k].at <= received /\ stored[k].at \in Nat
  BY TimesTyped DEF BridgeInv, Younger
<1>7. NumbersGapless' /\ Counted'
  BY <1>1, <1>4 DEF BridgeInv, NumbersGapless, Gapless, ArrivalOrder, Counted
<1> HIDE DEF e, op
<1>8. CASE queue' = queue
  <2>1. BridgeTypeOK'
    BY <1>1, <1>3, <1>4, <1>5, <1>8 DEF BridgeTypeOK, Bridge
  <2>2. UnderWay'
    <3>1. queue # <<>> => queue[1].event.seq \in Nat
      BY TimesTyped
    <3> QED
      BY <1>1, <1>4, <1>5, <1>8, <3>1 DEF BridgeInv, UnderWay
  <2>3. queue # <<>> => queue[1].event.at <= received'
    <3>1. queue # <<>> => queue[1].event.at \in Nat /\ queue[1].event.at <= received
      BY TimesTyped DEF BridgeInv, Younger
    <3> QED
      BY <1>1, <1>4, <3>1
  <2>4. \A k \in DOMAIN stored : stored[k].at <= received'
    BY <1>1, <1>4, <1>6
  <2>5. Younger'
    BY <1>1, <1>4, <1>8, <2>3, <2>4 DEF BridgeInv, Younger
  <2> QED
    BY <1>7, <2>1, <2>2, <2>5 DEF BridgeInv
<1>9. CASE /\ bridge' = [bridge EXCEPT !.seq = @ + 1]
           /\ m.kind \in Tracked /\ Accepts(e) /\ queue' = Append(queue, op)
  <2>1. e \in Events /\ e.seq = bridge.seq + 1 /\ e.at = received + 1
    <3>1. bridge.seq + 1 \in Nat /\ received + 1 \in Nat
      BY <1>4
    <3>2. m.kind \in Tracked
      BY <1>9
    <3>3. /\ Adapted(m, bridge.seq + 1, received + 1) \in Events
          /\ Adapted(m, bridge.seq + 1, received + 1).seq = bridge.seq + 1
          /\ Adapted(m, bridge.seq + 1, received + 1).at = received + 1
      BY <3>1, <3>2, AdaptedTyped
    <3> QED
      BY <3>3 DEF e
  <2>2. e.seq = life.sequence + 1 /\ bridge.seq = life.sequence
    <3>1. e.seq = life.sequence + 1
      BY <1>9 DEF Accepts
    <3> QED
      BY <1>4, <2>1, <3>1
  <2>3. op \in Operation /\ op.kind = "external" /\ op.event = e
    BY <2>1 DEF Op, Operation, op
  <2>4. queue = <<>>
    <3> SUFFICES ASSUME queue # <<>> PROVE FALSE
      OBVIOUS
    <3>1. ~setting.ends
      BY <1>1, <1>4 DEF OnlyMessagesOverlap, Idle
    <3>2. queue[1].kind = "external" /\ queue[1].event.seq = life.sequence + 1
      BY <1>4, <3>1, TimesTyped DEF BridgeInv, UnderWay, Operation
    <3>3. bridge.seq >= queue[1].event.seq
      BY <1>1, <3>2 DEF BridgeInv, UnderWay
    <3> QED
      BY <1>4, <2>2, <3>2, <3>3
  <2>5. queue' = <<op>> /\ queue' \in Seq(Operation) /\ Len(queue') = 1 /\ queue'[1] = op
    BY <1>9, <2>3, <2>4
  <2>6. BridgeTypeOK'
    BY <1>1, <1>3, <1>4, <1>5, <2>5 DEF BridgeTypeOK, Bridge, Operation
  <2>7. bridge'.seq = e.seq
    <3>1. bridge \in Bridge
      BY DEF BridgeTypeOK, Bridge
    <3> QED
      BY <1>4, <1>9, <2>1, <3>1 DEF Bridge
  <2>8. UnderWay'
    BY <1>1, <1>4, <2>1, <2>2, <2>3, <2>5, <2>7 DEF UnderWay
  <2>9. Younger'
    BY <1>1, <1>4, <1>6, <2>1, <2>3, <2>5 DEF Younger
  <2> QED
    BY <1>7, <2>6, <2>8, <2>9 DEF BridgeInv
<1> QED
  BY <1>2, <1>8, <1>9

-----------------------------------------------------------------------------
(* The enqueue under way ends.                                             *)

\* Storing the event under way gives it its own place as number.
LEMMA StoredGapless ==
  ASSUME BridgeTypeOK, BridgeInv, queue # <<>>, stored' = Append(stored, queue[1].event)
  PROVE  /\ NumbersGapless' /\ stored' \in Seq(Events) /\ Len(stored') = Len(stored) + 1
         /\ queue[1].event.seq = Len(stored')
         /\ \A k \in DOMAIN stored' : stored'[k].at <= queue[1].event.at
<1> DEFINE e == queue[1].event
<1>1. e \in Events /\ e.at \in Nat /\ e.seq \in Nat
  BY TimesTyped
<1>2. e.seq = Len(stored) + 1 /\ \A k \in DOMAIN stored : stored[k].at <= e.at
  BY DEF BridgeInv, UnderWay, Counted, Younger
<1>3. stored \in Seq(Events) /\ stored' = Append(stored, e)
  BY DEF BridgeTypeOK
<1> HIDE DEF e
<1>4. /\ stored' \in Seq(Events) /\ Len(stored') = Len(stored) + 1 /\ Len(stored) \in Nat
      /\ stored'[Len(stored) + 1] = e /\ \A k \in 1..Len(stored) : stored'[k] = stored[k]
      /\ DOMAIN stored = 1..Len(stored) /\ DOMAIN stored' = 1..(Len(stored) + 1)
  BY <1>1, <1>3
<1>5. \A k \in DOMAIN stored' : k \in DOMAIN stored \/ k = Len(stored) + 1
  BY <1>4
<1>6. \A k \in DOMAIN stored' : stored'[k].at <= e.at
  BY <1>1, <1>2, <1>4, <1>5
<1>7. Gapless'
  BY <1>2, <1>4, <1>5 DEF BridgeInv, NumbersGapless, Gapless
<1>8. ArrivalOrder'
  <2> SUFFICES ASSUME NEW j \in DOMAIN stored', NEW k \in DOMAIN stored', j < k
               PROVE  stored'[j].at <= stored'[k].at
    BY DEF ArrivalOrder
  <2>1. CASE k = Len(stored) + 1
    BY <1>4, <1>6, <2>1
  <2>2. CASE k \in DOMAIN stored
    <3>1. j \in DOMAIN stored
      BY <1>4, <2>2
    <3> QED
      BY <1>4, <2>2, <3>1 DEF BridgeInv, NumbersGapless, ArrivalOrder
  <2> QED
    BY <1>5, <2>1, <2>2
<1> QED
  BY <1>2, <1>4, <1>6, <1>7, <1>8 DEF NumbersGapless, e

\* It was stored, and the page, the lifecycle and the bridge go on from there.
LEMMA StoredKeeps ==
  ASSUME BridgeTypeOK, BridgeInv, queue # <<>>, stored' = Append(stored, queue[1].event),
         UNCHANGED <<setting, index, waiting, received, refused, failures>>,
         life' \in Life, life'.sequence = queue[1].event.seq,
         bridge' \in Bridge, stage' \in Stages, bridge'.seq # 0 => stage' = "runner",
         setting.provider = "figma" => bridge'.seq <= queue[1].event.seq,
         \/ queue' = <<>>
         \/ \E op \in Operation :
              /\ queue' = <<op>> /\ op.kind = "block" /\ op.event.type \in Blocks
              /\ setting.provider = "figma"
              /\ op.event.seq = queue[1].event.seq + 1 /\ op.event.at = received,
         \/ waiting = <<>>
         \/ bridge'.seq # queue[1].event.seq
         \/ \A i \in DOMAIN waiting : queue[1].event.at <= waiting[i].at
  PROVE  BridgeTypeOK' /\ BridgeInv'
<1>1. /\ NumbersGapless' /\ stored' \in Seq(Events) /\ queue[1].event.seq = Len(stored')
      /\ \A k \in DOMAIN stored' : stored'[k].at <= queue[1].event.at
  BY StoredGapless
<1>2. /\ queue[1].event.at \in Nat /\ queue[1].event.at <= received /\ received \in Nat
      /\ queue[1].event.seq \in Nat
  BY TimesTyped DEF BridgeInv, Younger, BridgeTypeOK
<1>3. \A k \in DOMAIN stored' : stored'[k].at \in Nat /\ stored'[k].at <= received
  <2>1. \A x \in Events : x.at \in Nat
    BY DEF Events
  <2>2. \A k \in DOMAIN stored' : stored'[k] \in Events
    BY <1>1
  <2> QED
    BY <1>1, <1>2, <2>1, <2>2
<1>4. \A i \in DOMAIN waiting : waiting[i].at \in Nat
  BY TimesTyped
<1>5. Counted'
  BY <1>1 DEF Counted
<1>6. bridge'.seq = life'.sequence =>
        \A k \in DOMAIN stored' : \A i \in DOMAIN waiting : stored'[k].at <= waiting[i].at
  <2> SUFFICES ASSUME bridge'.seq = life'.sequence, NEW k \in DOMAIN stored', NEW i \in DOMAIN waiting
               PROVE  stored'[k].at <= waiting[i].at
    OBVIOUS
  <2>1. queue[1].event.at <= waiting[i].at
    OBVIOUS
  <2> QED
    BY <1>1, <1>2, <1>3, <1>4, <2>1
<1>7. (waiting # <<>> => setting.provider = "figma")
      /\ (\A i, j \in DOMAIN waiting : i < j => waiting[i].at <= waiting[j].at)
      /\ (\A i \in DOMAIN waiting : waiting[i].at <= received)
  BY DEF BridgeInv, UnderWay, Younger
<1>8. CASE queue' = <<>>
  <2>1. BridgeTypeOK'
    BY <1>1, <1>8, EmptySeq DEF BridgeTypeOK, Life, Bridge
  <2>2. UnderWay'
    BY <1>7, <1>8 DEF UnderWay
  <2>3. Younger'
    BY <1>3, <1>6, <1>7, <1>8 DEF Younger
  <2> QED
    BY <1>1, <1>5, <2>1, <2>2, <2>3 DEF BridgeInv
<1>9. CASE queue' # <<>>
  <2>1. PICK op \in Operation :
          /\ queue' = <<op>> /\ op.kind = "block" /\ op.event.type \in Blocks
          /\ setting.provider = "figma"
          /\ op.event.seq = queue[1].event.seq + 1 /\ op.event.at = received
    BY <1>9
  <2>2. Len(queue') = 1 /\ queue'[1] = op /\ queue' \in Seq(Operation)
    BY <2>1
  <2>3. BridgeTypeOK'
    BY <1>1, <2>2 DEF BridgeTypeOK, Life, Bridge, Operation
  <2>4. UnderWay'
    BY <1>7, <2>1, <2>2 DEF UnderWay
  <2>5. Younger'
    BY <1>2, <1>3, <1>6, <1>7, <2>1, <2>2 DEF Younger
  <2> QED
    BY <1>1, <1>5, <2>3, <2>4, <2>5 DEF BridgeInv
<1> QED
  BY <1>8, <1>9

\* An enqueue that succeeds keeps the invariant.
LEMMA StoredStep ==
  ASSUME BridgeTypeOK, BridgeInv, Stored
  PROVE  BridgeTypeOK' /\ BridgeInv'
<1> DEFINE op == queue[1]
           e == op.event
           n == e.seq
           counted == [life EXCEPT !.sequence = n]
           block == Op("block", Event("session_technical_blocked", 0, n + 1, None, None, received))
<1>1. /\ queue # <<>> /\ stored' = Append(stored, queue[1].event)
      /\ UNCHANGED <<setting, index, waiting, received, refused, failures>>
  BY DEF Stored
<1>2. op \in Operation /\ e \in Events /\ n \in Nat
  BY <1>1, TimesTyped
<1>3. Tail(queue) = <<>>
  BY <1>1, QueueLeft
<1>4. /\ n = life.sequence + 1 /\ n \in Nat \ {0} /\ life \in Life /\ life.sequence \in Nat \ {0}
      /\ bridge \in Bridge /\ bridge.seq \in Nat /\ stage \in Stages /\ index \in Tasks
      /\ bridge.seq # 0 => stage = "runner"
      /\ setting.provider = "figma" => bridge.seq <= life.sequence
  BY <1>1 DEF BridgeInv, UnderWay, Counted, BridgeTypeOK, Life, Bridge
<1>5. counted \in Life /\ counted.sequence = n
  BY <1>4 DEF Life
<1>6. CASE op.kind = "external"
  <2>1. life' = counted /\ bridge' = Advanced(e) /\ queue' = <<>> /\ stage' = stage
    BY <1>3, <1>6 DEF Stored
  <2>2. /\ bridge' \in Bridge
        /\ bridge' = bridge \/ (bridge.seq # 0 /\ bridge'.seq = n)
        /\ setting.provider = "figma" => bridge'.seq \in {0, n}
    <3>1. e.screen \in Shown
      BY <1>2 DEF Events
    <3> HIDE DEF e, n, op
    <3>2. CASE setting.provider = "web" \/ bridge.seq = 0
      BY <1>4, <2>1, <3>2 DEF Advanced
    <3>3. CASE ~(setting.provider = "web" \/ bridge.seq = 0)
      <4>1. bridge' = [bridge EXCEPT !.seq = e.seq,
                                     !.current = IF e.type = "screen_view" THEN e.screen ELSE @]
        BY <2>1, <3>3 DEF Advanced
      <4> QED
        BY <1>2, <1>4, <3>1, <3>3, <4>1 DEF Bridge, n
    <3> QED
      BY <3>2, <3>3
  <2>3. waiting = <<>> \/ \A i \in DOMAIN waiting : e.at <= waiting[i].at
    BY <1>1, <1>6 DEF BridgeInv, Younger
  <2>4. setting.provider = "figma" => bridge'.seq <= n
    BY <1>4, <2>2
  <2>5. bridge'.seq # 0 => stage' = "runner"
    BY <1>4, <2>1, <2>2
  <2> HIDE DEF counted
  <2> QED
    BY <1>1, <1>4, <1>5, <2>1, <2>2, <2>3, <2>4, <2>5, StoredKeeps
<1>7. CASE op.kind \in {"start", "end"}
  <2>1. /\ queue' = <<>> /\ life' \in Life /\ life'.sequence = n
    <3>1. queue' = <<>> /\ (life' = counted \/ life' = [counted EXCEPT !.taskTerminal = TRUE])
      BY <1>3, <1>7 DEF Stored
    <3> HIDE DEF counted
    <3> QED
      BY <1>5, <3>1 DEF Life
  <2>2. PICK next \in Stages : stage' = next /\ Mount(next, index, n)
    <3>1. \E next \in {"runner", "recovery", "transition"} : stage' = next /\ Mount(next, index, n)
      BY <1>7 DEF Stored
    <3> QED
      BY <3>1 DEF Stages
  <2>3. /\ bridge' \in Bridge /\ bridge'.seq \in {0, n}
        /\ bridge'.seq # 0 => stage' = "runner"
    BY <1>2, <1>4, <2>2, MountTyped
  <2>4. waiting = <<>>
    BY <1>1, <1>7 DEF BridgeInv, UnderWay
  <2>5. bridge'.seq <= n
    BY <1>4, <2>3
  <2> HIDE DEF counted
  <2> QED
    BY <1>1, <2>1, <2>2, <2>3, <2>4, <2>5, StoredKeeps
<1>8. CASE op.kind = "block" /\ e.type = "task_technical_blocked"
  <2>1. /\ life' = [counted EXCEPT !.taskTerminal = TRUE]
        /\ queue' = Append(Tail(queue), block) /\ stage' = stage /\ bridge' = bridge
    BY <1>8 DEF Stored
  <2>2. life' \in Life /\ life'.sequence = n
    <3> HIDE DEF counted
    <3> QED
      BY <1>5, <2>1 DEF Life
  <2>3. /\ block \in Operation /\ block.kind = "block" /\ block.event.seq = n + 1
        /\ block.event.at = received /\ block.event.type \in Blocks
    <3>1. n + 1 \in Nat /\ received \in Nat
      BY <1>2 DEF BridgeTypeOK
    <3> HIDE DEF n
    <3> QED
      BY <3>1, NoneShown DEF Op, Operation, Event, Events, EventTypes, Blocks
  <2>4. setting.provider = "figma"
    BY <1>1, <1>8 DEF BridgeInv, UnderWay
  <2>5. bridge'.seq # n /\ bridge'.seq <= n
    BY <1>4, <2>1, <2>4
  <2>6. queue' = <<block>>
    <3>1. queue' = Append(<<>>, block)
      BY <1>3, <2>1
    <3> HIDE DEF block, counted
    <3> QED
      BY <2>3, <3>1
  <2> HIDE DEF block, counted
  <2>7. \E x \in Operation :
          /\ queue' = <<x>> /\ x.kind = "block" /\ x.event.type \in Blocks
          /\ setting.provider = "figma" /\ x.event.seq = n + 1 /\ x.event.at = received
    BY <2>3, <2>4, <2>6
  <2> QED
    BY <1>1, <1>4, <2>1, <2>2, <2>5, <2>7, StoredKeeps
<1>9. CASE op.kind = "block" /\ e.type = "session_technical_blocked"
  <2>1. /\ life' = [counted EXCEPT !.terminal = TRUE] /\ queue' = <<>>
        /\ stage' = "technical" /\ bridge' = NoBridge
    BY <1>3, <1>9 DEF Stored
  <2>2. life' \in Life /\ life'.sequence = n
    <3> HIDE DEF counted
    <3> QED
      BY <1>5, <2>1 DEF Life
  <2>3. bridge' \in Bridge /\ bridge'.seq = 0 /\ stage' \in Stages
    BY <2>1, NoneShown DEF NoBridge, Stages
  <2>4. bridge'.seq # n /\ bridge'.seq <= n
    BY <1>4, <2>3
  <2> HIDE DEF counted
  <2> QED
    BY <1>1, <2>1, <2>2, <2>3, <2>4, StoredKeeps
<1>10. op.kind \in {"start", "end", "external", "block"} /\ (op.kind = "block" => e.type \in Blocks)
  BY <1>1, <1>2 DEF Operation, BridgeInv, UnderWay
<1> QED
  BY <1>6, <1>7, <1>8, <1>9, <1>10 DEF Blocks

\* An enqueue that fails keeps the invariant.
LEMMA FailedStep ==
  ASSUME BridgeTypeOK, BridgeInv, Failed
  PROVE  BridgeTypeOK' /\ BridgeInv'
<1>1. /\ queue # <<>> /\ queue' = Tail(queue) /\ failures < MaxFailures /\ failures' = failures + 1
      /\ UNCHANGED <<setting, index, life, waiting, stored, received, refused>>
      /\ (stage' = stage /\ bridge' = bridge) \/ (stage' = "recovery" /\ bridge' = NoBridge)
  BY DEF Failed
<1>2. queue' = <<>>
  BY <1>1, QueueLeft
<1>3. /\ bridge' \in Bridge /\ stage' \in Stages /\ bridge'.seq \in {0, bridge.seq}
      /\ bridge'.seq # 0 => stage' = "runner"
  BY <1>1, NoneShown DEF BridgeTypeOK, Bridge, NoBridge, Stages, BridgeInv, Counted
<1>4. BridgeTypeOK'
  BY <1>1, <1>2, <1>3, EmptySeq DEF BridgeTypeOK, Bridge
<1>5. NumbersGapless' /\ UnderWay'
  BY <1>1, <1>2 DEF BridgeInv, NumbersGapless, Gapless, ArrivalOrder, UnderWay
<1>6. life.sequence \in Nat \ {0}
  BY DEF BridgeTypeOK
<1>7. Counted'
  BY <1>1, <1>3, <1>6 DEF BridgeInv, Counted
<1>8. Younger'
  BY <1>1, <1>2, <1>3, <1>6 DEF BridgeInv, Younger
<1> QED
  BY <1>4, <1>5, <1>7, <1>8 DEF BridgeInv

-----------------------------------------------------------------------------

\* A new session satisfies the invariant.
LEMMA BridgeBegins == BridgeInit => BridgeTypeOK /\ BridgeInv
<1> SUFFICES ASSUME BridgeInit PROVE BridgeTypeOK /\ BridgeInv
  OBVIOUS
<1> DEFINE e == Event("session_started", 0, 1, None, None, 0)
<1>1. e \in Events /\ e.seq = 1 /\ e.at = 0
  BY NoneShown DEF Event, Events, EventTypes
<1>2. stored = <<e>>
  BY DEF BridgeInit
<1> HIDE DEF e
<1>3. stored \in Seq(Events) /\ Len(stored) = 1 /\ stored[1] = e /\ DOMAIN stored = {1}
  BY <1>1, <1>2
<1>4. BridgeTypeOK
  <2>1. life \in Life /\ bridge \in Bridge
    BY NoneShown DEF BridgeInit, Life
  <2>2. index \in Tasks
    BY DEF BridgeInit, Tasks
  <2>3. /\ waiting \in Seq(Waiting)
        /\ queue \in Seq(Operation)
    BY EmptySeq DEF BridgeInit
  <2>4. setting \in Settings /\ stage \in Stages /\ refused \in BOOLEAN
    BY DEF BridgeInit, Stages
  <2>5. received \in 0 .. MaxMessages /\ failures \in 0 .. MaxFailures
    BY DEF BridgeInit
  <2> QED
    BY <1>3, <2>1, <2>2, <2>3, <2>4, <2>5 DEF BridgeTypeOK, Life, Bridge, Waiting, Operation
<1>5. NumbersGapless
  BY <1>1, <1>3 DEF NumbersGapless, Gapless, ArrivalOrder
<1>6. UnderWay
  BY DEF BridgeInit, UnderWay
<1>7. Counted
  BY <1>3 DEF BridgeInit, Counted, NoBridge
<1>8. Younger
  BY <1>1, <1>3 DEF BridgeInit, Younger
<1> QED
  BY <1>4, <1>5, <1>6, <1>7, <1>8 DEF BridgeInv

\* Every step keeps the invariant.
LEMMA BridgeStays ==
  ASSUME OnlyMessagesOverlap
  PROVE  BridgeTypeOK /\ BridgeInv /\ [BridgeNext]_bridgeVars => BridgeTypeOK' /\ BridgeInv'
<1> SUFFICES ASSUME BridgeTypeOK, BridgeInv, [BridgeNext]_bridgeVars PROVE BridgeTypeOK' /\ BridgeInv'
  OBVIOUS
<1>1. CASE StartTask \/ OpenDialog \/ CancelDialog \/ GiveUp \/ TimeOut \/ Sync \/ NextTask \/ Retry
  BY <1>1, PageSteps
<1>2. CASE Message
  <2>1. PICK m \in setting.messages : FigmaMessage(m) \/ WebMessage(m)
    BY <1>2 DEF Message
  <2> QED
    BY <2>1, FigmaMessageStep, WebMessageStep
<1>3. CASE FigmaHandle
  BY <1>3, FigmaHandleStep
<1>4. CASE Stored
  BY <1>4, StoredStep
<1>5. CASE Failed
  BY <1>5, FailedStep
<1>6. CASE UNCHANGED bridgeVars
  BY <1>6 DEF bridgeVars, BridgeTypeOK, BridgeInv, NumbersGapless, Gapless, ArrivalOrder, UnderWay,
     Counted, Younger
<1> QED
  BY <1>1, <1>2, <1>3, <1>4, <1>5, <1>6 DEF BridgeNext

(* At most one enqueue is under way, with the next number, and what waits  *)
(* is handled in order or refused; over localStorage, or as long as only   *)
(* messages overlap.                                                       *)
THEOREM BridgeInvariant ==
  ASSUME OnlyMessagesOverlap
  PROVE  BridgeSpec => [](BridgeTypeOK /\ BridgeInv)
<1>1. BridgeInit => BridgeTypeOK /\ BridgeInv
  BY BridgeBegins
<1>2. BridgeTypeOK /\ BridgeInv /\ [BridgeNext]_bridgeVars => BridgeTypeOK' /\ BridgeInv'
  BY BridgeStays
<1> QED
  BY <1>1, <1>2, PTL DEF BridgeSpec

(* acceptExternalRaw and raw() number the events of a session without gap  *)
(* or duplicate and in the order of their messages, whatever storage       *)
(* refuses and however often a bridge is mounted.                          *)
THEOREM NumberingIsGapless ==
  ASSUME OnlyMessagesOverlap
  PROVE  BridgeSpec => []NumbersGapless
<1>1. BridgeTypeOK /\ BridgeInv => NumbersGapless
  BY DEF BridgeInv
<1>2. BridgeSpec => [](BridgeTypeOK /\ BridgeInv)
  BY BridgeInvariant
<1> QED
  BY <1>1, <1>2, PTL
-----------------------------------------------------------------------------
(* The copies the bridge keeps.                                            *)

\* The last view is one of those looked at.
LEMMA LastIsView ==
  ASSUME NEW i, NEW n \in Nat, NEW events, ViewsOf(i, n, events) # {}
  PROVE  /\ Max(ViewsOf(i, n, events)) \in ViewsOf(i, n, events)
         /\ Max(ViewsOf(i, n, events)) \in 1 .. n
         /\ \A k \in ViewsOf(i, n, events) : k <= Max(ViewsOf(i, n, events))
<1> DEFINE V == ViewsOf(i, n, events)
<1>1. V \in SUBSET (0 .. n) /\ V # {} /\ V \subseteq 1 .. n
  BY DEF ViewsOf
<1> HIDE DEF V
<1>2. Max(V) \in V /\ \A k \in V : k <= Max(V)
  BY <1>1, GreatestElement
<1> QED
  BY <1>1, <1>2 DEF V

\* An event stored later does not change what was shown.
LEMMA LastUnchanged ==
  ASSUME NEW events \in Seq(Events), NEW e \in Events, NEW i, NEW n \in 0 .. Len(events)
  PROVE  LastScreen(i, n, Append(events, e)) = LastScreen(i, n, events)
<1> DEFINE more == Append(events, e)
<1>1. \A j \in 1 .. n : more[j] = events[j]
  OBVIOUS
<1> HIDE DEF more
<1>2. ViewsOf(i, n, more) = ViewsOf(i, n, events)
  BY <1>1 DEF ViewsOf
<1>3. ViewsOf(i, n, events) # {} => Max(ViewsOf(i, n, events)) \in 1 .. n
  BY LastIsView
<1>4. LastScreen(i, n, more) = LastScreen(i, n, events)
  BY <1>1, <1>2, <1>3 DEF LastScreen
<1> QED
  BY <1>4 DEF more

\* A view is the last one of its task once it is stored, and other events
\* change nothing.
LEMMA LastAppended ==
  ASSUME NEW events \in Seq(Events), NEW e \in Events, NEW i
  PROVE  LastScreen(i, Len(events) + 1, Append(events, e)) =
           IF e.type = "screen_view" /\ e.task = i THEN e.screen ELSE LastScreen(i, Len(events), events)
<1> DEFINE more == Append(events, e)
           n == Len(events)
           V == ViewsOf(i, n + 1, more)
<1>1. n \in Nat /\ more[n + 1] = e
  OBVIOUS
<1>2. LastScreen(i, n, more) = LastScreen(i, n, events)
  BY LastUnchanged
<1> HIDE DEF more, n
<1>3. CASE e.type = "screen_view" /\ e.task = i
  <2>1. n + 1 \in V
    BY <1>1, <1>3 DEF ViewsOf
  <2>2. V # {}
    BY <2>1
  <2>3. LastScreen(i, n + 1, more) = more[Max(V)].screen
    BY <2>2 DEF LastScreen
  <2>4. n + 1 \in Nat
    BY <1>1
  <2>5. Max(V) \in 1 .. (n + 1) /\ \A k \in V : k <= Max(V)
    BY <2>2, <2>4, LastIsView
  <2>6. Max(V) = n + 1
    BY <1>1, <2>1, <2>5
  <2> QED
    BY <1>1, <1>3, <2>3, <2>6 DEF more, n
<1>4. CASE ~(e.type = "screen_view" /\ e.task = i)
  <2>1. \A j \in 1 .. (n + 1) : j \in 1 .. n \/ j = n + 1
    BY <1>1
  <2>2. 1 .. n \subseteq 1 .. (n + 1)
    BY <1>1
  <2>3. V = ViewsOf(i, n, more)
    BY <1>1, <1>4, <2>1, <2>2 DEF ViewsOf
  <2>4. LastScreen(i, n + 1, more) = LastScreen(i, n, more)
    BY <2>3 DEF LastScreen
  <2> QED
    BY <1>2, <1>4, <2>4 DEF more, n
<1> QED
  BY <1>3, <1>4

\* What was stored stays; a start makes a task known, an end decides it.
LEMMA EvidenceGrows ==
  ASSUME BridgeTypeOK, NEW e \in Events, stored' = Append(stored, e)
  PROVE  /\ \A i : HasRow(i) => HasRow(i)'
         /\ \A i : Decided(i) => Decided(i)'
         /\ \A i : e.type = "task_started" /\ e.task = i => HasRow(i)'
         /\ \A i : HasRow(i) /\ e.task = i /\ e.type \in Ends \cup {"task_technical_blocked"} => Decided(i)'
         /\ \A k \in DOMAIN stored' : stored'[k] = e \/ \E j \in DOMAIN stored : stored'[k] = stored[j]
<1>1. /\ DOMAIN stored = 1 .. Len(stored) /\ DOMAIN stored' = 1 .. (Len(stored) + 1) /\ Len(stored) \in Nat
      /\ stored'[Len(stored) + 1] = e /\ \A k \in 1 .. Len(stored) : stored'[k] = stored[k]
  BY DEF BridgeTypeOK
<1>2. \A k \in DOMAIN stored : k \in DOMAIN stored' /\ stored'[k] = stored[k]
  BY <1>1
<1>3. Len(stored) + 1 \in DOMAIN stored' /\ stored'[Len(stored) + 1] = e
  BY <1>1
<1>4. \A k \in DOMAIN stored' : k \in DOMAIN stored \/ k = Len(stored) + 1
  BY <1>1
<1>5. \A i : HasRow(i) => HasRow(i)'
  BY <1>2 DEF HasRow
<1>6. \A i : Decided(i) => Decided(i)'
  BY <1>2, <1>5 DEF Decided
<1>7. \A i : e.type = "task_started" /\ e.task = i => HasRow(i)'
  BY <1>3 DEF HasRow
<1>8. \A i : HasRow(i) /\ e.task = i /\ e.type \in Ends \cup {"task_technical_blocked"} => Decided(i)'
  BY <1>3, <1>5 DEF Decided, Ends
<1> QED
  BY <1>2, <1>3, <1>4, <1>5, <1>6, <1>7, <1>8

\* The evidence of a task is what is stored.
LEMMA EvidenceSame ==
  ASSUME UNCHANGED stored
  PROVE  (\A i : HasRow(i)' <=> HasRow(i)) /\ (\A i : Decided(i)' <=> Decided(i))
BY DEF HasRow, Decided

\* A page that has nothing under way moves on, to a page that shows the same.
LEMMA MovesFollow ==
  ASSUME BridgeTypeOK, Follows, Idle,
         UNCHANGED <<setting, waiting, queue, stored, received, refused, failures>>,
         life'.task = life.task, life'.terminal = life.terminal, life'.sequence = life.sequence,
         life'.taskTerminal => life.taskTerminal \/ Decided(life.task),
         PageFollows', stage' # "recovery",
         \/ bridge'.seq = 0
         \/ /\ bridge'.task = index' /\ bridge'.seq = life.sequence
            /\ setting.provider = "figma" /\ ~setting.dialogs =>
                 bridge'.current = LastScreen(index', Len(stored), stored)
  PROVE  Follows'
<1>1. queue = <<>> /\ waiting = <<>> /\ ~Starting /\ ~Starting'
  BY DEF Idle, Starting
<1>2. (\A i : HasRow(i)' <=> HasRow(i)) /\ (\A i : Decided(i)' <=> Decided(i))
  BY EvidenceSame
<1>3. EvidenceFollows'
  <2>1. \A k \in DOMAIN stored : stored[k].task <= life.task
    BY DEF Follows, EvidenceFollows
  <2>2. \A i \in 1 .. life.task : HasRow(i)
    BY <1>1 DEF Follows, EvidenceFollows
  <2>3. life.task \in Nat
    BY DEF BridgeTypeOK, Tasks
  <2>4. \A i \in 1 .. life.task : i < life.task \/ life'.taskTerminal => Decided(i)
    <3> SUFFICES ASSUME NEW i \in 1 .. life.task, i < life.task \/ life'.taskTerminal PROVE Decided(i)
      OBVIOUS
    <3>1. CASE i < life.task \/ life.taskTerminal
      BY <3>1 DEF Follows, EvidenceFollows
    <3>2. CASE ~(i < life.task) /\ ~life.taskTerminal
      <4>1. i = life.task
        BY <2>3, <3>2
      <4>2. Decided(life.task)
        BY <3>2
      <4> QED
        BY <4>1, <4>2
    <3> QED
      BY <3>1, <3>2
  <2> QED
    BY <1>1, <1>2, <2>1, <2>2, <2>4 DEF EvidenceFollows
<1>4. EnqueuedFollows'
  BY <1>1 DEF EnqueuedFollows
<1>5. BridgeFollows'
  BY <1>1 DEF Follows, BridgeFollows
<1>6. ScreenFollows'
  BY <1>1 DEF ScreenFollows
<1> QED
  BY <1>3, <1>4, <1>5, <1>6 DEF Follows

\* An event of the task shown is to be stored.
LEMMA EmitsFollow ==
  ASSUME BridgeTypeOK, BridgeInv, Follows, Idle, ~life.terminal,
         NEW op \in Operation, queue' = <<op>>, op.event.task = life'.task,
         op.event.type \in {"task_started"} \cup Ends,
         \/ /\ op.kind = "start" /\ op.event.type = "task_started" /\ stage = "task-intro"
            /\ life' = [life EXCEPT !.task = index, !.taskTerminal = FALSE]
         \/ /\ op.kind = "end" /\ op.event.type \in Ends
            /\ stage \in {"runner", "give-up-confirm"} /\ life' = life,
         UNCHANGED <<setting, stage, index, bridge, waiting, stored, received, refused, failures>>
  PROVE  Follows'
<1>1. queue = <<>> /\ waiting = <<>> /\ queue' # <<>> /\ queue'[1] = op /\ ~Starting
  <2>1. queue = <<>> /\ waiting = <<>>
    BY DEF Idle
  <2>2. queue' # <<>> /\ queue'[1] = op
    OBVIOUS
  <2> QED
    BY <2>1, <2>2 DEF Starting
<1>2. (\A i : HasRow(i)' <=> HasRow(i)) /\ (\A i : Decided(i)' <=> Decided(i))
  BY EvidenceSame
<1>3. life.task \in Nat /\ index \in Nat /\ life \in Life
  BY DEF BridgeTypeOK, Tasks, Life
<1>4. EnqueuedFollows' /\ ScreenFollows'
  <2>1. op.event.type # "session_technical_blocked" /\ op.event.type # "screen_view"
    BY DEF Ends
  <2>2. EnqueuedFollows'
    BY <1>1, <2>1 DEF EnqueuedFollows, Ends
  <2>3. ScreenFollows'
    BY <1>1, <2>1 DEF Follows, ScreenFollows
  <2> QED
    BY <2>2, <2>3
<1>5. CASE /\ op.kind = "start" /\ op.event.type = "task_started" /\ stage = "task-intro"
           /\ life' = [life EXCEPT !.task = index, !.taskTerminal = FALSE]
  <2>1. /\ Starting' /\ life'.task = index /\ ~life'.taskTerminal /\ ~life'.terminal
        /\ life'.sequence = life.sequence
    BY <1>1, <1>3, <1>5 DEF Starting, Life
  <2>2. index = life.task + 1 /\ (life.task # 0 => life.taskTerminal)
    BY <1>1, <1>5 DEF Follows, PageFollows
  <2>3. PageFollows'
    BY <1>5, <2>1 DEF PageFollows
  <2>4. bridge.seq = 0
    BY <1>5 DEF BridgeInv, Counted
  <2>5. BridgeFollows'
    BY <1>1, <2>4 DEF Follows, BridgeFollows
  <2>6. \A i \in 1 .. index : i = index \/ (i \in 1 .. life.task /\ (i < life.task \/ life.taskTerminal))
    BY <1>3, <2>2
  <2>7. \A k \in DOMAIN stored : stored[k].task <= index /\ stored[k].task # index
    <3>1. \A k \in DOMAIN stored : stored[k].task <= life.task /\ stored[k].task \in Nat
      <4>1. \A k \in DOMAIN stored : stored[k] \in Events
        BY TimesTyped
      <4> QED
        BY <4>1 DEF Follows, EvidenceFollows, Events, Tasks
    <3> QED
      BY <1>3, <2>2, <3>1
  <2>8. \A i \in 1 .. index : HasRow(i) \/ i = index
    BY <1>1, <2>6 DEF Follows, EvidenceFollows
  <2>9. \A i \in 1 .. index : i < index => Decided(i)
    BY <1>3, <2>6 DEF Follows, EvidenceFollows
  <2>10. EvidenceFollows'
    BY <1>2, <1>5, <2>1, <2>7, <2>8, <2>9 DEF EvidenceFollows
  <2> QED
    BY <1>4, <2>3, <2>5, <2>10 DEF Follows
<1>6. CASE op.kind = "end" /\ stage \in {"runner", "give-up-confirm"} /\ life' = life
  <2>1. ~Starting'
    BY <1>1, <1>6 DEF Starting
  <2>2. PageFollows'
    BY <1>6 DEF Follows, PageFollows
  <2>3. EvidenceFollows'
    BY <1>1, <1>2, <1>6, <2>1 DEF Follows, EvidenceFollows
  <2>4. BridgeFollows'
    BY <1>1, <1>6 DEF Follows, BridgeFollows
  <2> QED
    BY <1>4, <2>2, <2>3, <2>4 DEF Follows
<1> QED
  BY <1>5, <1>6

\* The stages the page may go to from where it is.
LEMMA ShowFollows ==
  ASSUME BridgeTypeOK, Follows, Idle, NEW next, Show(next),
         UNCHANGED <<setting, index, waiting, queue, stored, received, refused, failures>>,
         index = life.task, ~life.terminal,
         \/ life' = life
         \/ life' = [life EXCEPT !.taskTerminal = TRUE] /\ Decided(life.task),
         \/ next \in {"runner", "give-up-confirm"} /\ setting.dialogs
         \/ next = "transition" /\ life'.taskTerminal
  PROVE  Follows'
<1>1. stage' = next /\ Mount(next, index, life.sequence)
  BY DEF Show
<1>2. life \in Life
  BY DEF BridgeTypeOK, Life
<1>3. /\ life'.task = life.task /\ life'.terminal = life.terminal /\ life'.sequence = life.sequence
      /\ life'.taskTerminal => life.taskTerminal \/ Decided(life.task)
  BY <1>2 DEF Life
<1>4. PageFollows'
  BY <1>1, <1>3 DEF PageFollows
<1>5. \/ bridge'.seq = 0
      \/ bridge'.task = index' /\ bridge'.seq = life.sequence /\ setting.dialogs
  <2>1. CASE next = "runner"
    BY <1>1, <2>1 DEF Mount
  <2>2. CASE next # "runner"
    BY <1>1, <2>2 DEF Mount, NoBridge
  <2> QED
    BY <2>1, <2>2
<1>6. stage' # "recovery"
  BY <1>1
<1> QED
  BY <1>3, <1>4, <1>5, <1>6, MovesFollow

\* The recovery page goes where the evidence says: to the task that is open,
\* unused, or past the one that ended.
LEMMA RetryFollows ==
  ASSUME BridgeTypeOK, BridgeInv, Follows, Retry
  PROVE  Follows'
<1> DEFINE open == {i \in Tasks : HasRow(i) /\ ~Decided(i)}
           passed == {i \in Tasks : \A j \in 1 .. i : Decided(j)}
           where == IF Blocked THEN <<"technical", index>>
                    ELSE IF open # {} THEN <<"runner", CHOOSE i \in open : TRUE>>
                    ELSE IF passed # {} THEN <<"transition", Cardinality(passed)>>
                    ELSE <<"task-intro", 1>>
           t == life.task
<1>1. /\ stage = "recovery" /\ Idle
      /\ stage' = where[1] /\ index' = where[2] /\ Mount(where[1], where[2], life.sequence)
      /\ UNCHANGED <<setting, life, waiting, queue, stored, received, refused, failures>>
  BY DEF Retry
<1>2. /\ t \in Tasks /\ ~life.terminal /\ ~Starting
      /\ life.taskTerminal \/ \A k \in DOMAIN stored : stored[k].task = t => stored[k].type = "task_started"
  BY <1>1 DEF Follows, PageFollows, EvidenceFollows, BridgeTypeOK, Starting, Idle
<1>3. \A i \in Tasks : HasRow(i) => i \in 1 .. t
  BY <1>2 DEF Follows, EvidenceFollows, HasRow, Tasks
<1>4. \A i \in 1 .. t : HasRow(i) /\ (i < t \/ life.taskTerminal => Decided(i))
  BY <1>2 DEF Follows, EvidenceFollows
<1>5. \A i \in Tasks : Decided(i) => HasRow(i)
  BY DEF Decided
<1>6. t \in Nat /\ 1 <= t /\ t \in 1 .. t /\ Tasks \subseteq Nat /\ 1 .. t \subseteq Tasks
      /\ \A i \in Tasks : i \in Nat /\ i \in 1 .. i /\ 1 <= i
  BY <1>2 DEF Tasks
<1>7. CASE Blocked
  <2>1. stage' = "technical" /\ Mount("technical", index, life.sequence)
    BY <1>1, <1>7
  <2>2. bridge'.seq = 0
    BY <2>1 DEF Mount, NoBridge
  <2>3. PageFollows'
    BY <2>1 DEF PageFollows
  <2> QED
    BY <1>1, <2>1, <2>2, <2>3, MovesFollow
<1>8. CASE ~Blocked /\ life.taskTerminal
  <2>1. open = {}
    BY <1>3, <1>4, <1>8
  <2>2. passed = 1 .. t
    <3>1. \A i \in passed : i \in 1 .. t
      BY <1>3, <1>5, <1>6
    <3>2. \A i \in 1 .. t : Decided(i)
      BY <1>4, <1>8
    <3>3. \A i \in 1 .. t : \A j \in 1 .. i : j \in 1 .. t
      BY <1>6
    <3> HIDE DEF t
    <3> QED
      BY <1>6, <3>1, <3>2, <3>3
  <2>3. Cardinality(passed) = t /\ passed # {}
    <3> HIDE DEF passed, t
    <3>1. Cardinality(1 .. t) = t /\ 1 .. t # {}
      BY <1>6, FS_Interval
    <3> QED
      BY <2>2, <3>1
  <2> HIDE DEF open, passed, t
  <2>4. where = <<"transition", t>>
    BY <1>8, <2>1, <2>3
  <2> HIDE DEF where
  <2>5. stage' = "transition" /\ index' = t /\ Mount("transition", t, life.sequence)
    BY <1>1, <2>4
  <2>6. bridge'.seq = 0
    BY <2>5 DEF Mount, NoBridge
  <2>7. PageFollows'
    BY <1>1, <1>2, <1>8, <2>5 DEF PageFollows, t
  <2> QED
    BY <1>1, <2>5, <2>6, <2>7, MovesFollow
<1>9. CASE ~Blocked /\ ~life.taskTerminal
  <2>1. ~Decided(t)
    BY <1>2, <1>9 DEF Decided
  <2>2. open = {t}
    <3>1. \A i \in open : i = t
      <4> SUFFICES ASSUME NEW i \in open PROVE i = t
        OBVIOUS
      <4>1. i \in 1 .. t
        BY <1>3
      <4>2. ~(i < t)
        BY <1>4, <4>1
      <4> QED
        BY <1>6, <4>1, <4>2
    <3>2. t \in open
      BY <1>2, <1>4, <1>6, <2>1
    <3> QED
      BY <3>1, <3>2
  <2> HIDE DEF open, passed, t
  <2>3. where = <<"runner", t>>
    BY <1>9, <2>2
  <2> HIDE DEF where
  <2>4. stage' = "runner" /\ index' = t /\ Mount("runner", t, life.sequence)
    BY <1>1, <2>3
  <2>5. bridge'.task = index' /\ bridge'.seq = life.sequence /\ bridge'.current = StartScreen
    BY <2>4 DEF Mount
  <2>6. LastScreen(t, Len(stored), stored) = StartScreen
    <3>1. \A k \in 1 .. Len(stored) : ~(stored[k].type = "screen_view" /\ stored[k].task = t)
      BY <1>2, <1>9 DEF BridgeTypeOK, t
    <3> QED
      BY <3>1 DEF LastScreen, ViewsOf
  <2>7. PageFollows'
    BY <1>1, <1>2, <2>4 DEF PageFollows, t
  <2> QED
    BY <1>1, <2>4, <2>5, <2>6, <2>7, MovesFollow
<1> QED
  BY <1>7, <1>8, <1>9

\* What the page does by itself.
LEMMA PageStepsFollow ==
  ASSUME BridgeTypeOK, BridgeInv, Follows,
         \/ StartTask \/ OpenDialog \/ CancelDialog \/ GiveUp \/ TimeOut \/ Sync
         \/ NextTask \/ Retry
  PROVE  Follows'
<1>1. index \in Tasks /\ index # 0 /\ life \in Life /\ life.sequence + 1 \in Nat
      /\ life.task \in Tasks \cup {0}
  BY NoneShown DEF BridgeTypeOK, Life
<1>2. /\ stage \in {"runner", "give-up-confirm"} => index = life.task
      /\ stage # "technical" => ~life.terminal
  BY DEF Follows, PageFollows
<1>3. CASE StartTask
  <2>1. stage = "task-intro" /\ Idle /\ ~Starting
    BY <1>3 DEF StartTask, Starting, Idle
  <2>2. CanStart
    BY <1>2, <2>1 DEF CanStart, Follows, PageFollows
  <2> DEFINE e == Plain("task_started", index, life.sequence + 1)
             op == Op("start", e)
  <2>3. e \in Events /\ e.type = "task_started" /\ e.task = index
    BY <1>1, PlainTyped DEF EventTypes, Plain, Event
  <2>4. op \in Operation /\ op.kind = "start" /\ op.event = e
    BY <2>3 DEF Op, Operation
  <2>5. /\ queue' = Append(queue, op)
        /\ life' = [life EXCEPT !.task = index, !.taskTerminal = FALSE]
        /\ UNCHANGED <<setting, stage, index, bridge, waiting, stored, received, refused, failures>>
    BY <1>3, <2>2 DEF StartTask, Enqueue
  <2>6. life'.task = index
    BY <1>1, <2>5 DEF Life
  <2> HIDE DEF e, op
  <2>7. queue' = <<op>>
    BY <2>1, <2>4, <2>5 DEF Idle
  <2> QED
    BY <1>2, <2>1, <2>3, <2>4, <2>5, <2>6, <2>7, EmitsFollow
<1>4. CASE OpenDialog \/ CancelDialog
  <2>1. CASE OpenDialog
    BY <1>2, <2>1, ShowFollows DEF OpenDialog
  <2>2. CASE CancelDialog
    <3>1. setting.dialogs
      BY <2>2 DEF CancelDialog, Follows, PageFollows
    <3> QED
      BY <1>2, <2>2, <3>1, ShowFollows DEF CancelDialog
  <2> QED
    BY <1>4, <2>1, <2>2
<1>5. CASE GiveUp \/ TimeOut
  <2>1. Idle /\ stage \in {"runner", "give-up-confirm"}
    BY <1>5 DEF GiveUp, TimeOut
  <2>2. CASE GiveUp /\ ~CanEndTask
    <3>1. life.taskTerminal
      BY <1>1, <1>2, <2>1, <2>2 DEF CanEndTask
    <3> QED
      BY <1>2, <2>1, <2>2, <3>1, ShowFollows DEF GiveUp
  <2>3. CASE ~(GiveUp /\ ~CanEndTask)
    <3>1. PICK type \in Ends : Raw("end", type)
      BY <1>5, <2>3 DEF GiveUp, TimeOut, Ends
    <3> DEFINE e == Plain(type, life.task, life.sequence + 1)
               op == Op("end", e)
    <3>2. e \in Events /\ e.type = type /\ e.task = life.task
      <4>1. type \in EventTypes
        BY DEF EventTypes
      <4>2. e \in Events /\ e.type = type
        BY <1>1, <4>1, PlainTyped
      <4> QED
        BY <4>2 DEF Plain, Event
    <3>3. op \in Operation /\ op.kind = "end" /\ op.event = e
      BY <3>2 DEF Op, Operation
    <3>4. /\ queue' = Append(queue, op) /\ life' = life
          /\ UNCHANGED <<setting, stage, index, bridge, waiting, stored, received, refused, failures>>
      BY <1>5, <2>3, <3>1 DEF GiveUp, TimeOut, Raw, Enqueue
    <3> HIDE DEF e, op
    <3>5. queue' = <<op>>
      BY <2>1, <3>3, <3>4 DEF Idle
    <3> QED
      BY <1>2, <2>1, <3>2, <3>3, <3>4, <3>5, EmitsFollow
  <2> QED
    BY <2>2, <2>3
<1>6. CASE Sync
  <2>1. life'.taskTerminal
    BY <1>1, <1>6 DEF Sync, Life
  <2> QED
    BY <1>2, <1>6, <2>1, ShowFollows DEF Sync
<1>7. CASE NextTask
  <2>1. bridge'.seq = 0
    BY <1>7 DEF NextTask, BridgeInv, Counted
  <2>2. PageFollows'
    BY <1>7 DEF NextTask, Follows, PageFollows, Starting, Idle
  <2> QED
    BY <1>7, <2>1, <2>2, MovesFollow DEF NextTask
<1>8. CASE Retry
  BY <1>8, RetryFollows
<1> QED
  BY <1>3, <1>4, <1>5, <1>6, <1>7, <1>8

\* A message that waits changes nothing yet.
LEMMA FigmaMessageFollows ==
  ASSUME BridgeTypeOK, Follows, NEW m \in setting.messages, FigmaMessage(m)
  PROVE  Follows'
<1>1. bridge.seq # 0 /\ UNCHANGED <<setting, stage, index, life, bridge, queue, stored, refused>>
  BY DEF FigmaMessage, Arrives
<1>2. (\A i : HasRow(i)' <=> HasRow(i)) /\ (\A i : Decided(i)' <=> Decided(i)) /\ (Starting' <=> Starting)
  BY <1>1 DEF HasRow, Decided, Starting
<1>3. PageFollows' /\ EvidenceFollows' /\ EnqueuedFollows'
  BY <1>1, <1>2 DEF Follows, PageFollows, EvidenceFollows, EnqueuedFollows
<1>4. BridgeFollows' /\ ScreenFollows'
  BY <1>1 DEF Follows, BridgeFollows, ScreenFollows
<1> QED
  BY <1>3, <1>4 DEF Follows

\* What is made of a message of the task shown.
LEMMA AdaptedFollows ==
  ASSUME BridgeTypeOK, BridgeInv, Follows, bridge.seq # 0,
         NEW m \in setting.messages, m.kind \in Tracked, NEW n \in Nat, NEW t \in Nat
  PROVE  /\ Adapted(m, n, t).task = life.task
         /\ Adapted(m, n, t).type \in {Type[x] : x \in Tracked}
         /\ Adapted(m, n, t).type \notin Blocks
         /\ ~life.terminal /\ stage = "runner" /\ index = life.task
         /\ Adapted(m, n, t).type = "screen_view" /\ setting.provider = "figma" =>
              Adapted(m, n, t).prev = bridge.current
<1>1. stage = "runner"
  BY DEF BridgeInv, Counted
<1>2. index = life.task /\ bridge.task = index /\ ~life.terminal
  BY <1>1 DEF Follows, PageFollows, BridgeFollows
<1>3. Type[m.kind] = "screen_view" <=> m.kind = "screen"
  BY DEF Type, Tracked
<1>4. Type[m.kind] \notin Blocks /\ Type[m.kind] \in {Type[x] : x \in Tracked}
  BY DEF Type, Tracked, Blocks
<1> QED
  BY <1>1, <1>2, <1>3, <1>4 DEF Adapted, Event

\* An operation of a bridge begins, or none does.
LEMMA BeginsFollow ==
  ASSUME BridgeTypeOK, BridgeInv, Follows, queue = <<>>, bridge.seq # 0,
         UNCHANGED <<setting, stage, index, life, stored>>, refused' = refused,
         bridge'.seq # 0 /\ bridge'.task = bridge.task /\ bridge'.current = bridge.current,
         \/ queue' = <<>> /\ bridge' = bridge
         \/ \E op \in Operation :
              /\ queue' = <<op>> /\ op.kind \in {"external", "block"}
              /\ op.event.task = (IF op.event.type = "session_technical_blocked" THEN 0 ELSE life.task)
              /\ op.kind = "external" => op.event.type \in {Type[x] : x \in Tracked}
              /\ op.event.type = "screen_view" /\ setting.provider = "figma" => op.event.prev = bridge.current
              /\ \/ bridge' = bridge
                 \/ /\ setting.provider = "web" /\ op.kind = "external"
                    /\ bridge'.seq = op.event.seq
  PROVE  Follows'
<1>1. ~Starting /\ ~Starting'
  BY DEF Starting
<1>2. (\A i : HasRow(i)' <=> HasRow(i)) /\ (\A i : Decided(i)' <=> Decided(i))
  BY EvidenceSame
<1>3. PageFollows' /\ EvidenceFollows'
  BY <1>1, <1>2 DEF Follows, PageFollows, EvidenceFollows
<1>4. stage = "runner" /\ bridge.task = index /\ bridge.seq = life.sequence /\ index = life.task
  BY DEF BridgeInv, Counted, Follows, BridgeFollows, PageFollows
<1>5. CASE queue' = <<>> /\ bridge' = bridge
  <2>1. EnqueuedFollows' /\ ScreenFollows'
    BY <1>4, <1>5 DEF Follows, EnqueuedFollows, ScreenFollows
  <2>2. BridgeFollows'
    BY <1>4, <1>5 DEF Follows, BridgeFollows
  <2> QED
    BY <1>3, <2>1, <2>2 DEF Follows
<1>6. ASSUME NEW op \in Operation,
              queue' = <<op>>, op.kind \in {"external", "block"},
              op.event.task = (IF op.event.type = "session_technical_blocked" THEN 0 ELSE life.task),
              op.kind = "external" => op.event.type \in {Type[x] : x \in Tracked},
              op.event.type = "screen_view" /\ setting.provider = "figma" => op.event.prev = bridge.current,
              \/ bridge' = bridge
              \/ /\ setting.provider = "web" /\ op.kind = "external"
                 /\ bridge'.seq = op.event.seq
       PROVE  Follows'
  <2>1. queue'[1] = op /\ queue' # <<>>
    BY <1>6
  <2>2. EnqueuedFollows'
    BY <1>6, <2>1 DEF EnqueuedFollows
  <2>3. BridgeFollows'
    BY <1>4, <1>6, <2>1 DEF Follows, BridgeFollows
  <2>4. ScreenFollows'
    BY <1>4, <1>6, <2>1 DEF Follows, ScreenFollows
  <2> QED
    BY <1>3, <2>2, <2>3, <2>4 DEF Follows
<1> QED
  BY <1>5, <1>6

\* A first-party message, when nothing is under way, is accepted.
LEMMA WebMessageFollows ==
  ASSUME BridgeTypeOK, BridgeInv, Follows, OnlyChainsOverlap, NEW m \in setting.messages, WebMessage(m)
  PROVE  Follows'
<1> DEFINE e == Adapted(m, bridge.seq + 1, received + 1)
           op == Op("external", e)
<1>1. /\ setting.provider = "web" /\ bridge.seq # 0 /\ (setting.slow \/ Idle)
      /\ received' = received + 1
      /\ UNCHANGED <<setting, stage, index, life, waiting, stored>>
  BY DEF WebMessage, Arrives
<1>2. queue = <<>> /\ waiting = <<>>
  BY <1>1 DEF OnlyChainsOverlap, BridgeTypeOK, Idle
<1>3. bridge \in Bridge /\ bridge.seq + 1 \in Nat /\ received + 1 \in Nat /\ bridge.seq + 1 # 0
  BY DEF BridgeTypeOK, Bridge
<1>4. CASE m.kind \notin Tracked
  <2>1. UNCHANGED <<queue, bridge, refused>>
    BY <1>4 DEF WebMessage
  <2> QED
    BY <1>1, <1>2, <2>1, BeginsFollow
<1>5. CASE m.kind \in Tracked
  <2>1. e \in Events /\ e.seq = bridge.seq + 1
    BY <1>3, <1>5, AdaptedTyped
  <2>2. /\ e.task = life.task /\ e.type \in {Type[x] : x \in Tracked} /\ e.type \notin Blocks
        /\ ~life.terminal
    BY <1>1, <1>3, <1>5, AdaptedFollows
  <2>3. bridge.seq = life.sequence
    BY <1>1, <1>2 DEF Follows, BridgeFollows
  <2>4. Accepts(e)
    BY <2>1, <2>2, <2>3 DEF Accepts
  <2>5. bridge' = [bridge EXCEPT !.seq = @ + 1] /\ queue' = Append(queue, op) /\ refused' = refused
    BY <1>1, <1>5, <2>4 DEF WebMessage, Enqueue
  <2>6. bridge'.seq = e.seq /\ bridge'.seq # 0 /\ bridge'.task = bridge.task /\ bridge'.current = bridge.current
    BY <1>3, <2>1, <2>5 DEF Bridge
  <2> HIDE DEF e
  <2>7. op \in Operation /\ op.kind = "external" /\ op.event = e
    BY <2>1 DEF Op, Operation
  <2> HIDE DEF op
  <2>8. queue' = <<op>>
    BY <1>2, <2>5, <2>7
  <2>9. e.type # "session_technical_blocked"
    BY <2>2 DEF Blocks
  <2> QED
    BY <1>1, <1>2, <2>2, <2>5, <2>6, <2>7, <2>8, <2>9, BeginsFollow
<1> QED
  BY <1>4, <1>5

\* The next message of the chain is accepted, unless the session is blocked.
LEMMA FigmaHandleFollows ==
  ASSUME BridgeTypeOK, BridgeInv, Follows, FigmaHandle
  PROVE  Follows'
<1> DEFINE m == waiting[1].message
           e == Adapted(m, bridge.seq + 1, waiting[1].at)
           type == IF CanEndTask THEN "task_technical_blocked" ELSE "session_technical_blocked"
           i == IF CanEndTask THEN life.task ELSE 0
           block == Op("block", Plain(type, i, life.sequence + 1))
<1>1. /\ waiting # <<>> /\ ChainIsFree /\ waiting' = Tail(waiting)
      /\ UNCHANGED <<setting, stage, index, life, bridge, stored>>
  BY DEF FigmaHandle
<1>2. waiting[1].at \in Nat /\ m \in setting.messages
  <2>1. waiting \in Seq(Waiting)
    BY DEF BridgeTypeOK, Waiting
  <2>2. Len(waiting) \in Nat \ {0} /\ 1 \in DOMAIN waiting
    BY <1>1, <2>1, EmptySeq
  <2>3. waiting[1] \in Waiting
    BY <2>1, <2>2
  <2> QED
    BY <2>3 DEF Waiting
<1>3. queue = <<>> /\ setting.provider = "figma"
  BY ChainFree
<1>4. bridge.seq + 1 \in Nat /\ life.sequence + 1 \in Nat /\ bridge.seq \in Nat
  BY DEF BridgeTypeOK
<1>5. CASE bridge.seq = 0
  <2>1. life.terminal
    BY <1>1, <1>5 DEF Follows, BridgeFollows
  <2>2. ~Accepts(e)
    BY <2>1 DEF Accepts
  <2>3. queue' = queue /\ refused' = refused
    <3>1. queue' = queue /\ (refused' = refused \/ refused' = (refused \/ ~life.terminal))
      BY <2>1, <2>2 DEF FigmaHandle
    <3>2. refused \in BOOLEAN
      BY DEF BridgeTypeOK
    <3>3. (refused \/ ~life.terminal) = refused
      BY <2>1, <3>2
    <3> QED
      BY <3>1, <3>3
  <2>4. (\A j : HasRow(j)' <=> HasRow(j)) /\ (\A j : Decided(j)' <=> Decided(j)) /\ (Starting' <=> Starting)
    BY <1>1, <2>3 DEF HasRow, Decided, Starting
  <2>5. PageFollows' /\ EvidenceFollows' /\ EnqueuedFollows'
    BY <1>1, <2>3, <2>4 DEF Follows, PageFollows, EvidenceFollows, EnqueuedFollows
  <2>6. BridgeFollows' /\ ScreenFollows'
    BY <1>1, <1>5, <2>1, <2>3 DEF Follows, BridgeFollows, ScreenFollows
  <2> QED
    BY <2>5, <2>6 DEF Follows
<1>6. CASE bridge.seq # 0
  <2>1. stage = "runner" /\ ~life.terminal /\ index = life.task /\ bridge.seq = life.sequence
    BY <1>3, <1>6 DEF BridgeInv, Counted, Follows, PageFollows, BridgeFollows
  <2>2. CASE m.kind = "login"
    <3>1. queue' = Append(queue, block) /\ refused' = refused
      BY <2>1, <2>2 DEF FigmaHandle, Enqueue
    <3>2. type \in Blocks /\ type \in EventTypes /\ i \in Tasks \cup {0}
          /\ i = IF type = "session_technical_blocked" THEN 0 ELSE life.task
      BY DEF Blocks, EventTypes, BridgeTypeOK
    <3> HIDE DEF type, i
    <3> DEFINE b == Plain(type, i, life.sequence + 1)
    <3>3. b \in Events /\ b.type = type /\ b.task = i
      <4>1. b \in Events /\ b.type = type
        BY <1>4, <3>2, PlainTyped
      <4> QED
        BY <4>1 DEF Plain, Event
    <3> HIDE DEF b
    <3>4. block \in Operation /\ block.kind = "block" /\ block.event = b
      BY <3>3 DEF Op, Operation, b
    <3> HIDE DEF block
    <3>5. queue' = <<block>>
      BY <1>3, <3>1, <3>4
    <3>6. type # "screen_view"
      BY <3>2 DEF Blocks
    <3> QED
      BY <1>1, <1>3, <1>6, <3>1, <3>2, <3>3, <3>4, <3>5, <3>6, BeginsFollow
  <2>3. CASE m.kind # "login" /\ m.kind \notin Tracked
    <3>1. queue' = queue /\ refused' = refused
      BY <2>3 DEF FigmaHandle
    <3> QED
      BY <1>1, <1>3, <1>6, <3>1, BeginsFollow
  <2>4. CASE m.kind # "login" /\ m.kind \in Tracked
    <3>1. e \in Events /\ e.seq = bridge.seq + 1
      BY <1>2, <1>4, <2>4, AdaptedTyped
    <3>2. /\ e.task = life.task /\ e.type \in {Type[x] : x \in Tracked} /\ e.type \notin Blocks
          /\ e.type = "screen_view" => e.prev = bridge.current
      <4> DEFINE n == bridge.seq + 1
                 t == waiting[1].at
      <4>1. n \in Nat /\ t \in Nat
        BY <1>2, <1>4
      <4> HIDE DEF n, t, type, i, block
      <4>2. /\ Adapted(m, n, t).task = life.task /\ Adapted(m, n, t).type \in {Type[x] : x \in Tracked}
            /\ Adapted(m, n, t).type \notin Blocks
            /\ Adapted(m, n, t).type = "screen_view" => Adapted(m, n, t).prev = bridge.current
        BY <1>2, <1>3, <1>6, <2>4, <4>1, AdaptedFollows
      <4> QED
        BY <4>2 DEF n, t
    <3>3. Accepts(e)
      BY <2>1, <3>1, <3>2 DEF Accepts
    <3>4. queue' = Append(queue, Op("external", e)) /\ refused' = refused
      BY <2>4, <3>3 DEF FigmaHandle, Enqueue
    <3> DEFINE op == Op("external", e)
    <3> HIDE DEF e
    <3>5. op \in Operation /\ op.kind = "external" /\ op.event = e
      BY <3>1 DEF Op, Operation
    <3>6. queue' = <<op>>
      BY <1>3, <3>4, <3>5
    <3> HIDE DEF op
    <3>7. e.type # "session_technical_blocked"
      BY <3>2 DEF Blocks
    <3> QED
      BY <1>1, <1>3, <1>6, <3>2, <3>4, <3>5, <3>6, <3>7, BeginsFollow
  <2> QED
    BY <2>2, <2>3, <2>4
<1> QED
  BY <1>5, <1>6

-----------------------------------------------------------------------------
(* What is stored, and what goes on from there.                            *)

\* The event under way is of the task shown.
LEMMA EnqueuedTyped ==
  ASSUME BridgeTypeOK, Follows, queue # <<>>
  PROVE  /\ queue[1] \in Operation /\ queue[1].event \in Events
         /\ queue[1].event.task = (IF queue[1].event.type = "session_technical_blocked" THEN 0 ELSE life.task)
         /\ life.task \in Tasks \cup {0} /\ life.task \in Nat /\ 0 <= life.task
         /\ life \in Life /\ stored \in Seq(Events) /\ Len(stored) \in Nat
<1>1. queue[1] \in Operation /\ queue[1].event \in Events
  BY TimesTyped
<1>2. queue[1].event.task = (IF queue[1].event.type = "session_technical_blocked" THEN 0 ELSE life.task)
  BY DEF Follows, EnqueuedFollows
<1>3. life.task \in Tasks \cup {0} /\ life.task \in Nat /\ 0 <= life.task
  BY DEF BridgeTypeOK, Tasks
<1> QED
  BY <1>1, <1>2, <1>3 DEF BridgeTypeOK, Life

\* The evidence is in order again, with the event in its place.
LEMMA EvidenceStored ==
  ASSUME BridgeTypeOK, BridgeInv, Follows, queue # <<>>, stored' = Append(stored, queue[1].event),
         life'.task = life.task, ~Starting',
         \/ life'.taskTerminal = life.taskTerminal
         \/ queue[1].event.type \in Ends \cup {"task_technical_blocked"},
         stage' = "recovery" => \/ Starting
                                \/ life'.taskTerminal /\ life.task # 0
  PROVE  EvidenceFollows'
<1> DEFINE e == queue[1].event
<1>1. /\ e \in Events /\ e.task = (IF e.type = "session_technical_blocked" THEN 0 ELSE life.task)
      /\ life.task \in Nat /\ 0 <= life.task
  BY EnqueuedTyped
<1>2. Starting => e.type = "task_started" /\ life.task # 0
  <2>1. Starting => queue[1].kind = "start" /\ stage = "task-intro"
    BY DEF Starting, BridgeInv, UnderWay
  <2>2. Starting => index = life.task /\ index # 0
    BY <2>1, NoneShown DEF Follows, PageFollows, BridgeTypeOK
  <2> QED
    BY <2>1, <2>2 DEF Starting, Follows, EnqueuedFollows
<1>3. /\ \A i : HasRow(i) => HasRow(i)'
      /\ \A i : Decided(i) => Decided(i)'
      /\ \A i : e.type = "task_started" /\ e.task = i => HasRow(i)'
      /\ \A i : HasRow(i) /\ e.task = i /\ e.type \in Ends \cup {"task_technical_blocked"} => Decided(i)'
      /\ \A n \in DOMAIN stored' : stored'[n] = e \/ \E j \in DOMAIN stored : stored'[n] = stored[j]
  <2>1. stored' = Append(stored, e)
    OBVIOUS
  <2> HIDE DEF e
  <2> QED
    BY <1>1, <2>1, EvidenceGrows
<1>4. e.type \in Ends \cup {"task_technical_blocked"} =>
        ~Starting /\ e.type # "session_technical_blocked"
  BY <1>2 DEF Ends
<1>5. e.type = "task_started" => e.task = life.task
  BY <1>1
<1>6. e.task = 0 \/ e.task = life.task
  BY <1>1
<1> HIDE DEF e
<1>7. \A n \in DOMAIN stored' : stored'[n].task <= life.task
  <2>1. \A j \in DOMAIN stored : stored[j].task <= life.task
    BY DEF Follows, EvidenceFollows
  <2> QED
    BY <1>1, <1>3, <1>6, <2>1
<1>8. \A i \in 1 .. life.task : HasRow(i)'
  <2>1. \A i \in 1 .. life.task : HasRow(i) \/ (Starting /\ i = life.task)
    BY DEF Follows, EvidenceFollows
  <2> QED
    BY <1>2, <1>3, <1>5, <2>1
<1>9. \A i \in 1 .. life.task : i < life.task \/ life'.taskTerminal => Decided(i)'
  <2> SUFFICES ASSUME NEW i \in 1 .. life.task, i < life.task \/ life'.taskTerminal PROVE Decided(i)'
    OBVIOUS
  <2>1. CASE i < life.task \/ life.taskTerminal
    BY <1>3, <2>1 DEF Follows, EvidenceFollows
  <2>2. CASE ~(i < life.task) /\ ~life.taskTerminal
    <3>1. i = life.task
      BY <1>1, <2>2
    <3>2. e.type \in Ends \cup {"task_technical_blocked"}
      BY <2>2 DEF e
    <3>3. HasRow(i)
      BY <1>4, <3>2 DEF Follows, EvidenceFollows
    <3> QED
      BY <1>1, <1>3, <1>4, <3>1, <3>2, <3>3
  <2> QED
    BY <2>1, <2>2
<1>10. stage' = "recovery" =>
         /\ life.task # 0
         /\ life'.taskTerminal \/ \A n \in DOMAIN stored' :
                                    stored'[n].task = life.task => stored'[n].type = "task_started"
  <2>1. Starting => \A j \in DOMAIN stored : stored[j].task # life.task
    BY DEF Follows, EvidenceFollows
  <2>2. Starting => \A n \in DOMAIN stored' :
                      stored'[n].task = life.task => stored'[n].type = "task_started"
    BY <1>2, <1>3, <2>1
  <2> QED
    BY <1>2, <2>2
<1> QED
  BY <1>7, <1>8, <1>9, <1>10 DEF EvidenceFollows

\* A stored view names the last one before it.
LEMMA ViewStored ==
  ASSUME BridgeTypeOK, Follows, PreviousTold, TakesAll,
         queue # <<>>, stored' = Append(stored, queue[1].event), setting' = setting
  PROVE  PreviousTold'
<1> DEFINE e == queue[1].event
           n == Len(stored)
<1>1. /\ e \in Events /\ stored \in Seq(Events) /\ n \in Nat
      /\ e.task = (IF e.type = "session_technical_blocked" THEN 0 ELSE life.task)
  BY EnqueuedTyped
<1>2. stored' = Append(stored, e)
  OBVIOUS
<1> SUFFICES ASSUME setting.provider = "figma", ~setting.dialogs,
                    NEW k \in DOMAIN stored', stored'[k].type = "screen_view"
             PROVE  stored'[k].prev = LastScreen(stored'[k].task, k - 1, stored')
  BY DEF PreviousTold
<1>3. e.type = "screen_view" => e.prev = LastScreen(e.task, n, stored)
  BY <1>1 DEF Follows, ScreenFollows
<1> HIDE DEF e
<1>4. /\ k \in 1 .. n \/ k = n + 1
      /\ stored'[n + 1] = e /\ \A j \in 1 .. n : stored'[j] = stored[j]
      /\ DOMAIN stored = 1 .. n
  BY <1>1, <1>2
<1>5. k - 1 \in 0 .. n
  BY <1>1, <1>4
<1>6. LastScreen(stored'[k].task, k - 1, stored') = LastScreen(stored'[k].task, k - 1, stored)
  BY <1>1, <1>2, <1>5, LastUnchanged
<1>7. CASE k \in 1 .. n
  BY <1>4, <1>6, <1>7 DEF PreviousTold
<1>8. CASE k = n + 1
  <2>1. k - 1 = n
    BY <1>1, <1>8
  <2> QED
    BY <1>3, <1>4, <1>6, <1>8, <2>1
<1> QED
  BY <1>4, <1>7, <1>8

\* What a task shows after the event was stored.
LEMMA LastStored ==
  ASSUME BridgeTypeOK, Follows, queue # <<>>, stored' = Append(stored, queue[1].event), NEW i
  PROVE  LastScreen(i, Len(stored'), stored') =
           IF queue[1].event.type = "screen_view" /\ queue[1].event.task = i THEN queue[1].event.screen
           ELSE LastScreen(i, Len(stored), stored)
<1>1. queue[1].event \in Events /\ stored \in Seq(Events)
  BY EnqueuedTyped
<1>2. Len(stored') = Len(stored) + 1
  BY <1>1
<1> QED
  BY <1>1, <1>2, LastAppended

\* An event of a bridge was stored.
LEMMA ExternalFollows ==
  ASSUME BridgeTypeOK, BridgeInv, Follows, Stored, queue[1].kind = "external"
  PROVE  Follows'
<1> DEFINE e == queue[1].event
<1>1. /\ queue # <<>> /\ stored' = Append(stored, e) /\ life' = [life EXCEPT !.sequence = e.seq]
      /\ bridge' = Advanced(e) /\ queue' = Tail(queue)
      /\ UNCHANGED <<setting, stage, index, waiting, refused>>
  BY DEF Stored
<1>2. queue' = <<>>
  BY <1>1, QueueLeft
<1>3. /\ stage = "runner" /\ bridge.seq # 0 /\ bridge.task = index /\ index = life.task /\ index # 0
      /\ ~life.terminal /\ bridge \in Bridge
  BY <1>1, NoneShown DEF BridgeInv, Counted, Follows, PageFollows, BridgeFollows, EnqueuedFollows, BridgeTypeOK, Bridge
<1>4. /\ e \in Events /\ e.task = (IF e.type = "session_technical_blocked" THEN 0 ELSE life.task)
      /\ life \in Life
  BY <1>1, EnqueuedTyped
<1>5. /\ life'.task = life.task /\ life'.taskTerminal = life.taskTerminal /\ life'.terminal = life.terminal
      /\ life'.sequence = e.seq
  BY <1>1, <1>4 DEF Life
<1>6. ~Starting /\ ~Starting'
  BY <1>2 DEF Starting
<1>7. EvidenceFollows'
  BY <1>1, <1>3, <1>5, <1>6, EvidenceStored
<1>8. PageFollows' /\ EnqueuedFollows'
  BY <1>1, <1>2, <1>3, <1>5 DEF PageFollows, EnqueuedFollows
<1>9. e.seq = life.sequence + 1 /\ life.sequence \in Nat
  BY <1>1 DEF BridgeInv, UnderWay, BridgeTypeOK
<1>10. bridge'.seq = e.seq /\ bridge'.task = index
  <2>1. CASE setting.provider = "web"
    <3>1. bridge.seq = e.seq
      <4>1. bridge.seq \in Nat /\ bridge.seq >= e.seq
        BY <1>1, <1>3, <2>1 DEF BridgeInv, UnderWay, Bridge
      <4> QED
        BY <1>1, <1>3, <1>9, <4>1 DEF Follows, BridgeFollows
    <3> QED
      BY <1>1, <1>3, <2>1, <3>1 DEF Advanced
  <2>2. CASE setting.provider # "web"
    BY <1>1, <1>3, <2>2 DEF Advanced, Bridge
  <2> QED
    BY <2>1, <2>2
<1>11. BridgeFollows'
  BY <1>1, <1>5, <1>9, <1>10 DEF Follows, BridgeFollows
<1>12. ScreenFollows'
  <2> SUFFICES ASSUME setting.provider = "figma", ~setting.dialogs
               PROVE  bridge'.current = LastScreen(index, Len(stored'), stored')
    BY <1>1, <1>2 DEF ScreenFollows
  <2>1. bridge.current = LastScreen(index, Len(stored), stored)
    BY <1>3 DEF Follows, ScreenFollows
  <2>2. bridge'.current = IF e.type = "screen_view" THEN e.screen ELSE bridge.current
    BY <1>1, <1>3 DEF Advanced, Bridge
  <2>3. LastScreen(index, Len(stored'), stored') =
          IF e.type = "screen_view" /\ e.task = index THEN e.screen ELSE LastScreen(index, Len(stored), stored)
    BY <1>1, LastStored
  <2>4. e.type = "screen_view" => e.task = index
    BY <1>3, <1>4
  <2> QED
    BY <2>1, <2>2, <2>3, <2>4
<1> QED
  BY <1>7, <1>8, <1>11, <1>12 DEF Follows

\* A start or an end of a task was stored: the page goes on with the task.
LEMMA TaskEventFollows ==
  ASSUME BridgeTypeOK, BridgeInv, Follows, Stored, queue[1].kind \in {"start", "end"}
  PROVE  Follows'
<1> DEFINE e == queue[1].event
<1>1. /\ queue # <<>> /\ stored' = Append(stored, e) /\ queue' = Tail(queue)
      /\ UNCHANGED <<setting, index, waiting, refused>>
  BY DEF Stored
<1>2. queue' = <<>> /\ waiting = <<>>
  BY <1>1, QueueLeft DEF BridgeInv, UnderWay
<1>3. /\ e \in Events /\ e.task = (IF e.type = "session_technical_blocked" THEN 0 ELSE life.task)
      /\ life \in Life
  BY <1>1, EnqueuedTyped
<1>4. index \in Tasks /\ index # 0 /\ ~Starting' /\ index = life.task /\ ~life.terminal
  <2>1. queue[1].kind = "start" => Starting /\ stage = "task-intro"
    BY <1>1 DEF Starting, BridgeInv, UnderWay
  <2>2. queue[1].kind = "end" => stage \in {"runner", "give-up-confirm"}
    BY <1>1 DEF Follows, EnqueuedFollows
  <2>3. index = life.task /\ ~life.terminal
    BY <2>1, <2>2 DEF Follows, PageFollows
  <2>4. ~Starting'
    BY <1>2 DEF Starting
  <2> QED
    BY <2>3, <2>4, NoneShown DEF BridgeTypeOK
<1>5. CASE queue[1].kind = "start"
  <2>1. /\ life' = [life EXCEPT !.sequence = e.seq]
        /\ \E next \in {"runner", "recovery"} : stage' = next /\ Mount(next, index, e.seq)
    BY <1>5 DEF Stored
  <2>2. PICK next \in {"runner", "recovery"} : stage' = next /\ Mount(next, index, e.seq)
    BY <2>1
  <2>3. /\ life'.task = life.task /\ life'.taskTerminal = life.taskTerminal /\ life'.terminal = life.terminal
        /\ life'.sequence = e.seq
    BY <1>3, <2>1 DEF Life
  <2>4. Starting /\ e.type = "task_started"
    BY <1>1, <1>5 DEF Starting, Follows, EnqueuedFollows
  <2>5. EvidenceFollows'
    BY <1>1, <1>4, <2>3, <2>4, EvidenceStored
  <2>6. PageFollows' /\ EnqueuedFollows'
    BY <1>1, <1>2, <1>4, <2>2, <2>3 DEF PageFollows, EnqueuedFollows
  <2>7. bridge'.seq # 0 => bridge'.task = index /\ bridge'.seq = e.seq /\ bridge'.current = StartScreen
    <3>1. CASE next = "runner"
      BY <2>2, <3>1 DEF Mount
    <3>2. CASE next # "runner"
      BY <2>2, <3>2 DEF Mount, NoBridge
    <3> QED
      BY <3>1, <3>2
  <2>8. BridgeFollows'
    BY <1>1, <1>2, <2>3, <2>7 DEF Follows, BridgeFollows
  <2>9. LastScreen(index, Len(stored'), stored') = StartScreen
    <3>1. LastScreen(index, Len(stored), stored) = StartScreen
      <4>1. \A k \in 1 .. Len(stored) : stored[k].task # life.task
        BY <2>4 DEF Follows, EvidenceFollows, BridgeTypeOK
      <4> QED
        BY <1>4, <4>1 DEF LastScreen, ViewsOf
    <3> QED
      BY <1>1, <2>4, <3>1, LastStored
  <2>10. ScreenFollows'
    BY <1>1, <1>2, <2>7, <2>9 DEF ScreenFollows
  <2> QED
    BY <2>5, <2>6, <2>8, <2>10 DEF Follows
<1>6. CASE queue[1].kind = "end"
  <2>1. /\ life' = [life EXCEPT !.sequence = e.seq, !.taskTerminal = TRUE]
        /\ \E next \in {"transition", "recovery"} : stage' = next /\ Mount(next, index, e.seq)
    BY <1>6 DEF Stored
  <2>2. PICK next \in {"transition", "recovery"} : stage' = next /\ Mount(next, index, e.seq)
    BY <2>1
  <2>3. life'.task = life.task /\ life'.taskTerminal /\ life'.terminal = life.terminal
    BY <1>3, <2>1 DEF Life
  <2>4. e.type \in Ends
    BY <1>1, <1>6 DEF Follows, EnqueuedFollows
  <2>5. EvidenceFollows'
    BY <1>1, <1>4, <2>3, <2>4, EvidenceStored
  <2>6. PageFollows' /\ EnqueuedFollows'
    BY <1>1, <1>2, <1>4, <2>2, <2>3 DEF PageFollows, EnqueuedFollows
  <2>7. bridge'.seq = 0
    BY <2>2 DEF Mount, NoBridge
  <2>8. BridgeFollows' /\ ScreenFollows'
    BY <1>1, <1>2, <2>7 DEF Follows, BridgeFollows, ScreenFollows
  <2> QED
    BY <2>5, <2>6, <2>8 DEF Follows
<1> QED
  BY <1>5, <1>6

\* A login was asked for: the task is blocked, then the session.
LEMMA BlockFollows ==
  ASSUME BridgeTypeOK, BridgeInv, Follows, Stored, queue[1].kind = "block"
  PROVE  Follows'
<1> DEFINE e == queue[1].event
           block == Op("block", Event("session_technical_blocked", 0, e.seq + 1, None, None, received))
<1>1. queue # <<>> /\ stored' = Append(stored, e) /\ UNCHANGED <<setting, index, waiting, refused>>
  BY DEF Stored
<1>2. /\ e \in Events /\ e.task = (IF e.type = "session_technical_blocked" THEN 0 ELSE life.task)
      /\ life \in Life /\ e.type \in Blocks /\ setting.provider = "figma"
  BY <1>1, EnqueuedTyped DEF BridgeInv, UnderWay
<1>3. Tail(queue) = <<>>
  BY <1>1, QueueLeft
<1>4. /\ stage = "runner" /\ bridge.seq # 0 /\ bridge.task = index /\ index = life.task /\ ~life.terminal
  BY <1>1 DEF BridgeInv, Counted, Follows, PageFollows, BridgeFollows, EnqueuedFollows
<1>5. CASE e.type = "task_technical_blocked"
  <2>1. /\ life' = [life EXCEPT !.sequence = e.seq, !.taskTerminal = TRUE]
        /\ queue' = Append(Tail(queue), block) /\ UNCHANGED <<stage, bridge>>
    BY <1>5 DEF Stored
  <2>2. life'.task = life.task /\ life'.taskTerminal /\ life'.terminal = life.terminal
    BY <1>2, <2>1 DEF Life
  <2>3. block.kind = "block" /\ block.event.type = "session_technical_blocked" /\ block.event.task = 0
    BY DEF Op, Event
  <2>4. queue' # <<>> /\ queue'[1] = block
    <3>1. queue' = Append(<<>>, block)
      BY <1>3, <2>1
    <3> HIDE DEF block
    <3> QED
      BY <3>1
  <2> HIDE DEF block
  <2>5. ~Starting'
    BY <2>3, <2>4 DEF Starting
  <2>6. EvidenceFollows'
    BY <1>1, <1>4, <1>5, <2>1, <2>2, <2>5, EvidenceStored
  <2>7. PageFollows' /\ EnqueuedFollows'
    BY <1>1, <1>4, <2>1, <2>2, <2>3, <2>4 DEF PageFollows, EnqueuedFollows
  <2>8. BridgeFollows'
    BY <1>1, <1>4, <2>1, <2>3, <2>4 DEF Follows, BridgeFollows
  <2>9. ScreenFollows'
    <3>1. LastScreen(index, Len(stored'), stored') = LastScreen(index, Len(stored), stored)
      BY <1>1, <1>5, LastStored
    <3> QED
      BY <1>1, <1>4, <2>1, <2>3, <2>4, <3>1 DEF Follows, ScreenFollows
  <2> QED
    BY <2>6, <2>7, <2>8, <2>9 DEF Follows
<1>6. CASE e.type = "session_technical_blocked"
  <2>1. /\ life' = [life EXCEPT !.sequence = e.seq, !.terminal = TRUE]
        /\ queue' = Tail(queue) /\ stage' = "technical" /\ bridge' = NoBridge
    BY <1>6 DEF Stored
  <2>2. life'.task = life.task /\ life'.taskTerminal = life.taskTerminal /\ life'.terminal
    BY <1>2, <2>1 DEF Life
  <2>3. queue' = <<>> /\ bridge'.seq = 0 /\ ~Starting'
    BY <1>3, <2>1 DEF NoBridge, Starting
  <2>4. EvidenceFollows'
    BY <1>1, <2>1, <2>2, <2>3, EvidenceStored
  <2>5. PageFollows' /\ EnqueuedFollows'
    BY <2>1, <2>3 DEF PageFollows, EnqueuedFollows
  <2>6. BridgeFollows' /\ ScreenFollows'
    BY <1>1, <2>2, <2>3 DEF Follows, BridgeFollows, ScreenFollows
  <2> QED
    BY <2>4, <2>5, <2>6 DEF Follows
<1> QED
  BY <1>2, <1>5, <1>6 DEF Blocks

\* An event of a bridge that storage refused: only evidence may be.
LEMMA FailedFollows ==
  ASSUME BridgeTypeOK, BridgeInv, Follows, TakesAll, Failed
  PROVE  Follows'
<1>1. /\ queue # <<>> /\ queue[1].kind \in setting.fails /\ queue' = Tail(queue)
      /\ UNCHANGED <<setting, index, life, waiting, stored, refused>>
  BY DEF Failed
<1>2. setting.provider = "figma" /\ queue[1].kind = "external"
  BY <1>1 DEF TakesAll
<1>3. queue' = <<>> /\ ~Starting /\ ~Starting'
  BY <1>1, <1>2, QueueLeft DEF Starting
<1>4. UNCHANGED <<stage, bridge>>
  <2>1. queue[1].event.type # "task_give_up"
    BY <1>1, <1>2 DEF Follows, EnqueuedFollows, Type, Tracked
  <2> QED
    BY <1>2, <2>1 DEF Failed
<1>5. (\A i : HasRow(i)' <=> HasRow(i)) /\ (\A i : Decided(i)' <=> Decided(i))
  BY <1>1, EvidenceSame
<1>6. PageFollows' /\ EvidenceFollows' /\ EnqueuedFollows'
  BY <1>1, <1>3, <1>4, <1>5 DEF Follows, PageFollows, EvidenceFollows, EnqueuedFollows
<1>7. BridgeFollows' /\ ScreenFollows'
  BY <1>1, <1>2, <1>3, <1>4 DEF Follows, BridgeFollows, ScreenFollows
<1> QED
  BY <1>6, <1>7 DEF Follows

\* A new session begins in step.
LEMMA FollowsBegins == BridgeInit => StepInv
<1> SUFFICES ASSUME BridgeInit PROVE PreviousTold /\ Follows
  BY DEF StepInv
<1> DEFINE e == Event("session_started", 0, 1, None, None, 0)
<1>1. /\ e \in Events /\ e.type = "session_started" /\ e.task = 0
  BY NoneShown DEF Event, Events, EventTypes
<1>2. stored = <<e>>
  BY DEF BridgeInit
<1> HIDE DEF e
<1>3. DOMAIN stored = {1} /\ stored[1] = e
  BY <1>1, <1>2
<1>4. PreviousTold
  BY <1>1, <1>3 DEF PreviousTold
<1>5. /\ queue = <<>> /\ waiting = <<>> /\ bridge.seq = 0 /\ refused = FALSE /\ ~Starting
      /\ stage = "task-intro" /\ index = 1 /\ life.task = 0 /\ life.terminal = FALSE /\ life.taskTerminal = FALSE
  BY DEF BridgeInit, NoBridge, Starting
<1>6. PageFollows /\ EnqueuedFollows /\ BridgeFollows /\ ScreenFollows
  BY <1>5 DEF PageFollows, EnqueuedFollows, BridgeFollows, ScreenFollows
<1>7. EvidenceFollows
  BY <1>1, <1>3, <1>5 DEF EvidenceFollows
<1> QED
  BY <1>4, <1>6, <1>7 DEF Follows

\* Every step keeps page, lifecycle, bridge and evidence in step.
LEMMA FollowsStays ==
  ASSUME OnlyChainsOverlap
  PROVE  BridgeTypeOK /\ BridgeInv /\ StepInv /\ [BridgeNext]_bridgeVars => StepInv'
<1> SUFFICES ASSUME BridgeTypeOK, BridgeInv, StepInv, [BridgeNext]_bridgeVars PROVE StepInv'
  OBVIOUS
<1>1. setting' = setting
  BY DEF BridgeNext, StartTask, OpenDialog, CancelDialog, GiveUp, TimeOut, Sync, NextTask, Retry,
     Message, FigmaMessage, WebMessage, FigmaHandle, Stored, Failed, bridgeVars
<1>2. CASE ~TakesAll
  BY <1>1, <1>2 DEF StepInv, PreviousTold, TakesAll
<1>3. CASE TakesAll
  <2>1. Follows /\ PreviousTold
    BY <1>3 DEF StepInv
  <2> SUFFICES Follows' /\ PreviousTold'
    BY DEF StepInv
  <2>2. UNCHANGED stored => PreviousTold'
    BY <1>1, <2>1 DEF PreviousTold, TakesAll
  <2>3. CASE StartTask \/ OpenDialog \/ CancelDialog \/ GiveUp \/ TimeOut \/ Sync \/ NextTask \/ Retry
    <3>1. UNCHANGED stored
      BY <2>3 DEF StartTask, OpenDialog, CancelDialog, GiveUp, TimeOut, Sync, NextTask, Retry
    <3> QED
      BY <2>1, <2>2, <2>3, <3>1, PageStepsFollow
  <2>4. CASE Message
    <3>1. PICK m \in setting.messages : FigmaMessage(m) \/ WebMessage(m)
      BY <2>4 DEF Message
    <3>2. UNCHANGED stored
      BY <3>1 DEF FigmaMessage, WebMessage
    <3> QED
      BY <2>1, <2>2, <3>1, <3>2, FigmaMessageFollows, WebMessageFollows
  <2>5. CASE FigmaHandle
    <3>1. UNCHANGED stored
      BY <2>5 DEF FigmaHandle
    <3> QED
      BY <2>1, <2>2, <2>5, <3>1, FigmaHandleFollows
  <2>6. CASE Stored
    <3>1. queue # <<>> /\ stored' = Append(stored, queue[1].event)
      BY <2>6 DEF Stored
    <3>2. PreviousTold'
      BY <1>1, <1>3, <2>1, <3>1, ViewStored
    <3>3. queue[1].kind \in {"start", "end", "external", "block"}
      BY <2>1, <3>1, EnqueuedTyped DEF Operation
    <3> QED
      BY <2>1, <2>6, <3>2, <3>3, ExternalFollows, TaskEventFollows, BlockFollows
  <2>7. CASE Failed
    <3>1. UNCHANGED stored
      BY <2>7 DEF Failed
    <3> QED
      BY <1>3, <2>1, <2>2, <2>7, <3>1, FailedFollows
  <2>8. CASE UNCHANGED bridgeVars
    BY <2>1, <2>2, <2>8 DEF bridgeVars, Follows, PageFollows, EvidenceFollows, EnqueuedFollows,
       BridgeFollows, ScreenFollows, Starting, HasRow, Decided
  <2> QED
    BY <2>3, <2>4, <2>5, <2>6, <2>7, <2>8 DEF BridgeNext
<1> QED
  BY <1>2, <1>3

(* The bridge and the lifecycle agree about the next number and the task,  *)
(* and each view of a Figma target names the one before it; over           *)
(* localStorage, or as long as only the messages of a Figma target overlap.*)
THEOREM BridgeStaysInStep ==
  ASSUME OnlyMessagesOverlap, OnlyChainsOverlap
  PROVE  BridgeSpec => []BridgeInStep
<1>1. BridgeInit => StepInv
  BY FollowsBegins
<1>2. BridgeTypeOK /\ BridgeInv /\ StepInv /\ [BridgeNext]_bridgeVars => StepInv'
  BY FollowsStays
<1>3. StepInv => BridgeInStep
  BY DEF StepInv, BridgeInStep, NoneRefused, Follows, BridgeFollows
<1>4. BridgeSpec => [](BridgeTypeOK /\ BridgeInv)
  BY BridgeInvariant
<1> QED
  BY <1>1, <1>2, <1>3, <1>4, PTL DEF BridgeSpec

HIDE BridgeAssumption
-----------------------------------------------------------------------------
(* The ingestion token.                                                    *)
USE GateAssumption

(* The state keeps its types, and no use outlives its session.             *)
THEOREM GateTypes == Spec => []TypeOK
<1>1. Init => TypeOK
  BY DEF Init, TypeOK, Steps
<1>2. TypeOK /\ [Next]_vars => TypeOK'
  <2> SUFFICES ASSUME TypeOK, [Next]_vars PROVE TypeOK'
    OBVIOUS
  <2> USE DEF TypeOK, Steps, To, Answered
  <2>1. ASSUME NEW t \in Tokens, Mint(t) PROVE TypeOK'
    BY <2>1 DEF Mint
  <2>2. ASSUME NEW t \in Tokens, NEW s \in Slots, Arrive(s, t) PROVE TypeOK'
    BY <2>2 DEF Arrive
  <2>3. ASSUME NEW s \in Slots, Look(s) PROVE TypeOK'
    BY <2>3 DEF Look
  <2>4. ASSUME NEW s \in Slots, Count(s) PROVE TypeOK'
    BY <2>4 DEF Count
  <2>5. ASSUME NEW s \in Slots, Insert(s) PROVE TypeOK'
    BY <2>5 DEF Insert, CanInsert
  <2>6. ASSUME NEW s \in Slots, Serve(s) PROVE TypeOK'
    BY <2>6 DEF Serve
  <2>7. ASSUME NEW s \in Slots, Lose(s) PROVE TypeOK'
    BY <2>7 DEF Lose
  <2>8. CASE Purge
    BY <2>8 DEF Purge, UsesPurged
  <2>9. CASE Tick
    BY <2>9 DEF Tick
  <2>10. CASE UNCHANGED vars
    BY <2>10 DEF vars
  <2> QED
    BY <2>1, <2>2, <2>3, <2>4, <2>5, <2>6, <2>7, <2>8, <2>9, <2>10 DEF Next
<1> QED
  BY <1>1, <1>2, PTL DEF Spec

(* A step that moves one request to a step other than "accepted", and      *)
(* leaves uses, session and collector alone, keeps the invariant.          *)
LEMMA MovingOnIsSafe ==
  ASSUME TypeOK, GateInv, NEW s \in Slots, UNCHANGED <<uses, live, served>>,
         request' \in [Slots -> [step : Steps, token : Tokens, at : Nat]],
         request'[s].step # "accepted",
         \A r \in Slots : r # s => request'[r] = request[r]
  PROVE  GateInv'
<1>1. \A r \in Slots : request'[r].step = "accepted" => request'[r] = request[r]
  OBVIOUS
<1>2. \A t \in Tokens : Used(t)' = Used(t)
  BY DEF Used
<1> QED
  BY <1>1, <1>2 DEF GateInv, TypeOK

\* Requests that were accepted hold different tokens, whatever is delayed.
LEMMA GateInvHolds == Spec => []GateInv
<1>1. Init => GateInv
  BY DEF Init, GateInv
<1>2. TypeOK /\ TypeOK' /\ GateInv /\ [Next]_vars => GateInv'
  <2> SUFFICES ASSUME TypeOK, TypeOK', GateInv, [Next]_vars PROVE GateInv'
    OBVIOUS
  <2>1. ASSUME NEW t \in Tokens, Mint(t) PROVE GateInv'
    BY <2>1 DEF Mint, GateInv, Used
  <2>2. ASSUME NEW t \in Tokens, NEW s \in Slots, Arrive(s, t) PROVE GateInv'
    BY <2>2, MovingOnIsSafe DEF Arrive, TypeOK
  <2>3. ASSUME NEW s \in Slots, Look(s) PROVE GateInv'
    BY <2>3, MovingOnIsSafe DEF Look, To, TypeOK
  <2>4. ASSUME NEW s \in Slots, Count(s) PROVE GateInv'
    BY <2>4, MovingOnIsSafe DEF Count, To, TypeOK
  <2>5. ASSUME NEW s \in Slots, Insert(s) PROVE GateInv'
    <3>0. PICK t \in Tokens : t = request[s].token
      BY DEF TypeOK
    <3>1. CASE CanInsert(t)
      <4>1. /\ uses' = uses \cup {[token |-> t, at |-> request[s].at]}
            /\ request' = [request EXCEPT ![s].step = "accepted"]
            /\ live' = live /\ served' = served
        BY <2>5, <3>0, <3>1 DEF Insert, To
      <4>2. /\ request'[s].token = t /\ \A r \in Slots : request'[r].token = request[r].token
            /\ \A r \in Slots : r # s => request'[r] = request[r]
        BY <3>0, <4>1 DEF TypeOK
      <4>3. Used(t)' /\ \A k \in Tokens : Used(k) => Used(k)'
        <5>1. [token |-> t, at |-> request[s].at] \in uses' /\ uses \subseteq uses'
          BY <4>1
        <5>2. Used(t)'
          BY <5>1 DEF Used
        <5>3. \A k \in Tokens : Used(k) => Used(k)'
          BY <5>1 DEF Used
        <5> QED
          BY <5>2, <5>3
      <4>4. served[t] = 0
        <5>1. served[t] \in Nat /\ served[t] <= 1 /\ served[t] # 1
          BY <3>1 DEF CanInsert, GateInv, TypeOK
        <5> QED
          BY <5>1
      <4>5. \A r \in Slots : request[r].step = "accepted" => request[r].token # t
        BY <3>1 DEF CanInsert, GateInv
      <4>6. ASSUME NEW r \in Slots, request'[r].step = "accepted"
            PROVE  (served[request[r].token] = 0 /\ (live => Used(request[r].token)))'
        <5>1. PICK k \in Tokens : k = request[r].token
          BY DEF TypeOK
        <5>2. served[k] = 0 /\ (live => Used(k)')
          <6>1. CASE r = s
            BY <3>0, <4>3, <4>4, <5>1, <6>1
          <6>2. CASE r # s
            BY <4>2, <4>3, <4>6, <5>1, <6>2 DEF GateInv
          <6> QED
            BY <6>1, <6>2
        <5> QED
          BY <4>1, <4>2, <5>1, <5>2 DEF Used
      <4>7. \A q, r \in Slots :
              request'[q].step = "accepted" /\ request'[r].step = "accepted" =>
                q = r \/ request'[q].token # request'[r].token
        BY <3>0, <4>2, <4>5 DEF GateInv
      <4>8. \A k \in Tokens : served'[k] <= 1 /\ (served'[k] = 1 /\ live' => Used(k)')
        BY <4>1, <4>3 DEF GateInv
      <4> QED
        BY <4>6, <4>7, <4>8 DEF GateInv
    <3>2. CASE ~CanInsert(t)
      BY <2>5, <3>0, <3>2, MovingOnIsSafe DEF Insert, Answered, To, TypeOK
    <3> QED
      BY <3>1, <3>2
  <2>6. ASSUME NEW s \in Slots, Serve(s) PROVE GateInv'
    <3> DEFINE t == request[s].token
    <3>1. /\ t \in Tokens /\ request[s].step = "accepted" /\ served[t] = 0
          /\ live => Used(t)
      BY <2>6 DEF Serve, GateInv, TypeOK
    <3>2. /\ served' = [served EXCEPT ![t] = 1]
          /\ request' = [request EXCEPT ![s].step = "idle"]
          /\ uses' = uses /\ live' = live
      BY <2>6, <3>1 DEF Serve, Answered, To, TypeOK
    <3>3. \A r \in Slots : request'[r].step = "accepted" => r # s /\ request'[r] = request[r]
      BY <3>2 DEF TypeOK
    <3>4. \A k \in Tokens : /\ served'[k] = IF k = t THEN 1 ELSE served[k]
                            /\ Used(k)' = Used(k)
      BY <3>2 DEF TypeOK, Used
    <3>5. \A r \in Slots : request'[r].step = "accepted" =>
            request'[r].token \in Tokens /\ request'[r].token # t
      BY <3>1, <3>3 DEF GateInv, TypeOK
    <3> QED
      BY <3>1, <3>2, <3>3, <3>4, <3>5 DEF GateInv
  <2>7. ASSUME NEW s \in Slots, Lose(s) PROVE GateInv'
    BY <2>7, MovingOnIsSafe DEF Lose, Answered, To, TypeOK
  <2>8. CASE Purge
    BY <2>8 DEF Purge, GateInv
  <2>9. CASE Tick
    BY <2>9 DEF Tick, GateInv, Used
  <2>10. CASE UNCHANGED vars
    BY <2>10 DEF vars, GateInv, Used
  <2> QED
    BY <2>1, <2>2, <2>3, <2>4, <2>5, <2>6, <2>7, <2>8, <2>9, <2>10 DEF Next
<1> QED
  BY <1>1, <1>2, GateTypes, PTL DEF Spec

(* The collector is called at most once for a token.                       *)
THEOREM GateServesOnce == Spec => []ServedOnce
<1>1. GateInv => ServedOnce
  BY DEF GateInv, ServedOnce
<1> QED
  BY <1>1, GateInvHolds, PTL
-----------------------------------------------------------------------------
Bounded == IsFiniteSet(uses) /\ \A w \in Nat : WindowInv(w)

\* The requests that have counted are at most the parallel ones.
LEMMA CountedFinite ==
  ASSUME NEW w \in Nat
  PROVE  /\ IsFiniteSet(CountedIn(w)) /\ Cardinality(CountedIn(w)) \in Nat
         /\ Cardinality(CountedIn(w)) <= Cardinality(Slots)
<1>1. CountedIn(w) \in SUBSET Slots
  BY DEF CountedIn
<1> QED
  BY <1>1, FS_Subset, FS_CardinalityType

\* The uses in a window are finitely many.
LEMMA WindowFinite ==
  ASSUME IsFiniteSet(uses), NEW w \in Nat
  PROVE  IsFiniteSet(InWindow(w)) /\ Cardinality(InWindow(w)) \in Nat
<1>1. InWindow(w) \in SUBSET uses
  BY DEF InWindow
<1> QED
  BY <1>1, FS_Subset, FS_CardinalityType

(* A step that adds no use and after which no other request has counted    *)
(* keeps the bound: a purge, a reply, a request that gets lost.            *)
LEMMA FewerKeepBound ==
  ASSUME Bounded, uses' \subseteq uses,
         \A w \in Nat : CountedIn(w)' \subseteq CountedIn(w)
  PROVE  Bounded'
<1>1. IsFiniteSet(uses)'
  BY FS_Subset DEF Bounded
<1>2. ASSUME NEW w \in Nat PROVE WindowInv(w)'
  <2>1. InWindow(w)' \in SUBSET InWindow(w)
    BY DEF InWindow
  <2>2. /\ IsFiniteSet(InWindow(w)') /\ Cardinality(InWindow(w)') \in Nat
        /\ Cardinality(InWindow(w)') <= Cardinality(InWindow(w))
    BY <2>1, WindowFinite, FS_Subset, FS_CardinalityType DEF Bounded
  <2>3. /\ Cardinality(CountedIn(w)') \in Nat
        /\ Cardinality(CountedIn(w)') <= Cardinality(CountedIn(w))
    BY CountedFinite, FS_Subset, FS_CardinalityType
  <2>4. Cardinality(InWindow(w)) \in Nat /\ Cardinality(CountedIn(w)) \in Nat
    BY WindowFinite, CountedFinite DEF Bounded
  <2>5. Cardinality(InWindow(w)) + Cardinality(CountedIn(w)) < Limit + Cardinality(Slots)
    BY DEF Bounded, WindowInv
  <2>6. Cardinality(Slots) \in Nat
    BY FS_CardinalityType
  <2>7. Cardinality(InWindow(w)') + Cardinality(CountedIn(w)') < Limit + Cardinality(Slots)
    BY <2>2, <2>3, <2>4, <2>5, <2>6
  <2> QED
    BY <2>7 DEF WindowInv
<1> QED
  BY <1>1, <1>2 DEF Bounded

\* A count that stays under the limit adds one request to those counted.
LEMMA CountKeepsBound ==
  ASSUME TypeOK, Bounded, NEW s \in Slots, Count(s) PROVE Bounded'
<1> DEFINE at == request[s].at
<1>1. uses' = uses /\ at \in Nat /\ at - Window \in Int
  BY DEF Count, TypeOK
<1>2. \A r \in Slots : r # s => request'[r] = request[r]
  BY DEF Count, To, TypeOK
<1>3. CASE MayPass(at)
  <2>1. ASSUME NEW w \in Nat PROVE WindowInv(w)'
    <3>1. InWindow(w)' = InWindow(w)
      BY <1>1 DEF InWindow
    <3>2. Cardinality(InWindow(w)) \in Nat /\ Cardinality(Slots) \in Nat
      BY WindowFinite, FS_CardinalityType DEF Bounded
    <3>3. CASE w <= at /\ at <= w + Window
      <4>1. InWindow(w) \in SUBSET Recent(at)
        BY <1>1, <3>3 DEF InWindow, Recent, TypeOK
      <4>2. Recent(at) \in SUBSET uses
        BY DEF Recent
      <4>3. IsFiniteSet(Recent(at)) /\ Cardinality(Recent(at)) \in Nat
        BY <4>2, FS_Subset, FS_CardinalityType DEF Bounded
      <4>4. Cardinality(InWindow(w)) <= Cardinality(Recent(at))
        BY <4>1, <4>3, FS_Subset
      <4>5. Cardinality(Recent(at)) < Limit
        BY <1>3 DEF MayPass
      <4>6. CountedIn(w)' \in SUBSET Slots
        BY DEF CountedIn
      <4>7. /\ Cardinality(CountedIn(w)') \in Nat
            /\ Cardinality(CountedIn(w)') <= Cardinality(Slots)
        BY <4>6, FS_Subset, FS_CardinalityType
      <4>8. Cardinality(InWindow(w)) + Cardinality(CountedIn(w)') < Limit + Cardinality(Slots)
        BY <3>2, <4>3, <4>4, <4>5, <4>7
      <4> QED
        BY <3>1, <4>8 DEF WindowInv
    <3>4. CASE ~(w <= at /\ at <= w + Window)
      <4>1. request'[s].at = at
        BY DEF Count, To, TypeOK
      <4>2. CountedIn(w)' = CountedIn(w)
        BY <1>2, <3>4, <4>1 DEF CountedIn
      <4> QED
        BY <3>1, <4>2 DEF Bounded, WindowInv
    <3> QED
      BY <3>3, <3>4
  <2> QED
    BY <1>1, <2>1 DEF Bounded
<1>4. CASE ~MayPass(at)
  <2>1. request'[s].step = "idle"
    BY <1>4 DEF Count, To, TypeOK
  <2>2. \A w \in Nat : CountedIn(w)' \subseteq CountedIn(w)
    BY <1>2, <2>1 DEF CountedIn
  <2> QED
    BY <1>1, <2>2, FewerKeepBound
<1> QED
  BY <1>3, <1>4

(* A use that is added was counted before, and is not any more.            *)
LEMMA InsertKeepsBound ==
  ASSUME TypeOK, Bounded, NEW s \in Slots, Insert(s) PROVE Bounded'
<1> DEFINE at == request[s].at
           use == [token |-> request[s].token, at |-> at]
<1>1. /\ request[s].step = "counted" /\ request'[s].step # "counted" /\ at \in Nat
      /\ \A r \in Slots : r # s => request'[r] = request[r]
  BY DEF Insert, To, Answered, TypeOK
<1>2. \A w \in Nat : CountedIn(w)' = CountedIn(w) \ {s}
  BY <1>1 DEF CountedIn
<1>3. CASE uses' = uses \cup {use}
  <2>1. IsFiniteSet(uses')
    BY <1>3, FS_AddElement DEF Bounded
  <2>2. ASSUME NEW w \in Nat PROVE WindowInv(w)'
    <3>1. /\ Cardinality(InWindow(w)) \in Nat /\ IsFiniteSet(InWindow(w))
          /\ Cardinality(CountedIn(w)) \in Nat /\ IsFiniteSet(CountedIn(w))
          /\ Cardinality(Slots) \in Nat
      BY WindowFinite, CountedFinite, FS_CardinalityType DEF Bounded
    <3>2. Cardinality(InWindow(w)) + Cardinality(CountedIn(w)) < Limit + Cardinality(Slots)
      BY DEF Bounded, WindowInv
    <3>3. CASE w <= at /\ at <= w + Window
      <4>1. InWindow(w)' = InWindow(w) \cup {use}
        BY <1>3, <3>3 DEF InWindow
      <4>2. s \in CountedIn(w)
        BY <1>1, <3>3 DEF CountedIn
      <4>3. /\ Cardinality(InWindow(w)') \in Nat
            /\ Cardinality(InWindow(w)') <= Cardinality(InWindow(w)) + 1
        <5>1. /\ IsFiniteSet(InWindow(w) \cup {use})
              /\ Cardinality(InWindow(w) \cup {use}) =
                   IF use \in InWindow(w) THEN Cardinality(InWindow(w))
                   ELSE Cardinality(InWindow(w)) + 1
          BY <3>1, FS_AddElement
        <5> HIDE DEF use
        <5> QED
          BY <3>1, <4>1, <5>1
      <4>4. Cardinality(CountedIn(w)') = Cardinality(CountedIn(w)) - 1
        BY <1>2, <3>1, <4>2, FS_RemoveElement
      <4>5. Cardinality(InWindow(w)') + Cardinality(CountedIn(w)') < Limit + Cardinality(Slots)
        BY <3>1, <3>2, <4>3, <4>4
      <4> QED
        BY <4>5 DEF WindowInv
    <3>4. CASE ~(w <= at /\ at <= w + Window)
      <4>1. InWindow(w)' = InWindow(w)
        BY <1>3, <3>4 DEF InWindow
      <4>2. CountedIn(w)' = CountedIn(w)
        BY <1>2, <3>4 DEF CountedIn
      <4> QED
        BY <3>2, <4>1, <4>2 DEF WindowInv
    <3> QED
      BY <3>3, <3>4
  <2> QED
    BY <2>1, <2>2 DEF Bounded
<1>4. CASE uses' = uses
  BY <1>2, <1>4, FewerKeepBound
<1> QED
  BY <1>3, <1>4 DEF Insert

(* A window holds fewer uses than the limit and the parallel requests.     *)
THEOREM OverrunIsBounded == Spec => []OverrunBounded
<1>1. Init => Bounded
  <2> SUFFICES ASSUME Init PROVE Bounded
    OBVIOUS
  <2>1. \A w \in Nat : InWindow(w) = {} /\ CountedIn(w) = {}
    BY DEF Init, InWindow, CountedIn
  <2>2. \A w \in Nat : WindowInv(w)
    <3>1. Cardinality(Slots) \in Nat /\ Cardinality({}) = 0
      BY FS_EmptySet, FS_CardinalityType
    <3> QED
      BY <2>1, <3>1 DEF WindowInv
  <2> QED
    BY <2>2, FS_EmptySet DEF Init, Bounded
<1>2. TypeOK /\ Bounded /\ [Next]_vars => Bounded'
  <2> SUFFICES ASSUME TypeOK, Bounded, [Next]_vars PROVE Bounded'
    OBVIOUS
  <2>1. ASSUME NEW s \in Slots, request'[s].step # "counted", uses' \subseteq uses,
               \A r \in Slots : r # s => request'[r] = request[r]
        PROVE  Bounded'
    <3>1. \A w \in Nat : CountedIn(w)' \subseteq CountedIn(w)
      BY <2>1 DEF CountedIn
    <3> QED
      BY <2>1, <3>1, FewerKeepBound
  <2>2. ASSUME UNCHANGED request, uses' \subseteq uses PROVE Bounded'
    <3>1. \A w \in Nat : CountedIn(w)' = CountedIn(w)
      BY <2>2 DEF CountedIn
    <3> QED
      BY <2>2, <3>1, FewerKeepBound
  <2>3. ASSUME NEW t \in Tokens, Mint(t) PROVE Bounded'
    BY <2>2, <2>3 DEF Mint
  <2>4. ASSUME NEW t \in Tokens, NEW s \in Slots, Arrive(s, t) PROVE Bounded'
    BY <2>1, <2>4 DEF Arrive, TypeOK
  <2>5. ASSUME NEW s \in Slots, Look(s) \/ Serve(s) \/ Lose(s) PROVE Bounded'
    BY <2>1, <2>5 DEF Look, Serve, Lose, Answered, To, TypeOK
  <2>6. ASSUME NEW s \in Slots, Count(s) PROVE Bounded'
    BY <2>6, CountKeepsBound
  <2>7. ASSUME NEW s \in Slots, Insert(s) PROVE Bounded'
    BY <2>7, InsertKeepsBound
  <2>8. CASE Purge
    BY <2>2, <2>8 DEF Purge, UsesPurged
  <2>9. CASE Tick
    BY <2>2, <2>9 DEF Tick
  <2>10. CASE UNCHANGED vars
    BY <2>2, <2>10 DEF vars
  <2> QED
    BY <2>3, <2>4, <2>5, <2>6, <2>7, <2>8, <2>9, <2>10 DEF Next
<1>3. TypeOK /\ Bounded => OverrunBounded
  <2> SUFFICES ASSUME TypeOK, Bounded, NEW w \in 0 .. now
               PROVE  Cardinality(InWindow(w)) < Limit + Cardinality(Slots)
    BY DEF OverrunBounded
  <2>1. w \in Nat
    BY DEF TypeOK
  <2>2. /\ Cardinality(InWindow(w)) + Cardinality(CountedIn(w)) < Limit + Cardinality(Slots)
        /\ Cardinality(InWindow(w)) \in Nat /\ Cardinality(CountedIn(w)) \in Nat
        /\ Cardinality(Slots) \in Nat
    BY <2>1, WindowFinite, CountedFinite, FS_CardinalityType DEF Bounded, WindowInv
  <2> QED
    BY <2>2
<1> QED
  BY <1>1, <1>2, <1>3, GateTypes, PTL DEF Spec
-----------------------------------------------------------------------------
(* The requested length is cut to the bounds, so it is positive.            *)
LEMMA LengthPositive == Length \in Nat /\ Length > 0
BY LeaseAssumption DEF Length

USE LengthPositive, LeaseAssumption

(* The state keeps its types.                                              *)
THEOREM LeaseTypes == LeaseSpec => []LeaseTypeOK
<1>1. LeaseInit => LeaseTypeOK
  BY DEF LeaseInit, LeaseTypeOK, NoLease
<1>2. LeaseTypeOK /\ [LeaseNext]_leaseVars => LeaseTypeOK'
  <2> SUFFICES ASSUME LeaseTypeOK, [LeaseNext]_leaseVars PROVE LeaseTypeOK'
    OBVIOUS
  <2> USE DEF LeaseTypeOK
  <2>1. ASSUME NEW w \in Workers, SendClaim(w) PROVE LeaseTypeOK'
    BY <2>1 DEF SendClaim, Send
  <2>2. ASSUME NEW w \in Workers, SendRefresh(w) PROVE LeaseTypeOK'
    BY <2>2 DEF SendRefresh, Send
  <2>3. ASSUME NEW w \in Workers, SendRelease(w) PROVE LeaseTypeOK'
    BY <2>3 DEF SendRelease, Send
  <2>4. ASSUME NEW c \in calls, NEW at \in c.sent .. clock, RunClaim(c, at),
               calls' = calls \ {c}, UNCHANGED clock
        PROVE LeaseTypeOK'
    <3>1. at \in Nat /\ c.by \in Workers /\ c.sent + Length \in Nat
      OBVIOUS
    <3>2. /\ Row(c.by, at) \in [holder : Workers \cup {"none"}, from : Nat, until : Nat]
          /\ Row(c.by, at).until > Row(c.by, at).from
      BY <3>1 DEF Row
    <3>3. lease' = lease \/ lease' = Row(c.by, at)
      BY <2>4 DEF RunClaim
    <3>4. /\ known' \in [Workers -> Nat] /\ working' \in SUBSET Workers
          /\ done' \in SUBSET Workers
      BY <2>4, <3>1 DEF RunClaim, Learns, LearnsNothing
    <3> QED
      BY <2>4, <3>2, <3>3, <3>4
  <2>5. ASSUME NEW c \in calls, NEW at \in c.sent .. clock, RunRefresh(c, at),
               calls' = calls \ {c}, UNCHANGED clock
        PROVE LeaseTypeOK'
    <3>1. at \in Nat /\ at + Length \in Nat /\ c.by \in Workers /\ c.sent + Length \in Nat
      OBVIOUS
    <3> QED
      BY <2>5, <3>1 DEF RunRefresh, Learns, Loses, LearnsNothing
  <2>6. ASSUME NEW c \in calls, RunRelease(c), calls' = calls \ {c}, UNCHANGED clock
        PROVE LeaseTypeOK'
    BY <2>6 DEF RunRelease, LearnsNothing, NoLease
  <2>7. CASE LeaseTick
    BY <2>7 DEF LeaseTick
  <2>8. CASE UNCHANGED leaseVars
    BY <2>8 DEF leaseVars
  <2> QED
    BY <2>1, <2>2, <2>3, <2>4, <2>5, <2>6, <2>7, <2>8 DEF LeaseNext, Run
<1> QED
  BY <1>1, <1>2, PTL DEF LeaseSpec

\* What a worker was told never reaches beyond the row.
LEMMA LeaseInvHolds == LeaseSpec => []LeaseInv
<1>1. LeaseInit => LeaseInv
  BY DEF LeaseInit, LeaseInv
<1>2. LeaseTypeOK /\ LeaseInv /\ [LeaseNext]_leaseVars => LeaseInv'
  <2> SUFFICES ASSUME LeaseTypeOK, LeaseInv, [LeaseNext]_leaseVars PROVE LeaseInv'
    OBVIOUS
  <2> USE DEF LeaseTypeOK
  <2>1. ASSUME NEW w \in Workers, SendClaim(w) PROVE LeaseInv'
    BY <2>1 DEF SendClaim, Send, Busy, LeaseInv
  <2>2. ASSUME NEW w \in Workers, SendRefresh(w) PROVE LeaseInv'
    BY <2>2 DEF SendRefresh, Send, Busy, LeaseInv
  <2>3. ASSUME NEW w \in Workers, SendRelease(w) PROVE LeaseInv'
    BY <2>3 DEF SendRelease, Send, Busy, LeaseInv
  <2>4. ASSUME NEW c \in calls, NEW at \in c.sent .. clock, RunClaim(c, at),
               calls' = calls \ {c}, UNCHANGED clock
        PROVE LeaseInv'
    <3>1. CASE MayClaim(c.by, at)
      <4>1. lease' = Row(c.by, at) /\ (Learns(c) \/ LearnsNothing)
        BY <2>4, <3>1 DEF RunClaim
      <4>2. \A w \in Workers : w # c.by => ~(clock < known[w])
        BY <3>1 DEF MayClaim, NoLease, LeaseInv
      <4>3. \A w \in Workers : known'[w] = known[w] \/ (w = c.by /\ known'[w] = c.sent + Length)
        BY <4>1 DEF Learns, LearnsNothing
      <4>4. known'[c.by] <= c.sent + Length
        BY <4>3 DEF LeaseInv
      <4>5. \A w \in Workers : clock < known'[w] => lease'.holder = w /\ known'[w] <= lease'.until
        BY <4>1, <4>2, <4>3, <4>4 DEF Row
      <4>6. \A d \in calls' : d \in calls /\ d.by # c.by
        BY <2>4 DEF LeaseInv
      <4>7. done' = done
        BY <4>1 DEF Learns, LearnsNothing
      <4> QED
        BY <2>4, <4>3, <4>4, <4>5, <4>6, <4>7 DEF LeaseInv
    <3>2. CASE ~MayClaim(c.by, at)
      BY <2>4, <3>2 DEF RunClaim, LearnsNothing, LeaseInv
    <3> QED
      BY <3>1, <3>2
  <2>5. ASSUME NEW c \in calls, NEW at \in c.sent .. clock, RunRefresh(c, at),
               calls' = calls \ {c}, UNCHANGED clock
        PROVE LeaseInv'
    <3>1. \A d \in calls' : d \in calls /\ d.by # c.by
      BY <2>5 DEF LeaseInv
    <3>2. CASE MayRefresh(c.by, at) /\ at + Length > lease.from
      <4>1. lease' = [lease EXCEPT !.until = at + Length] /\ (Learns(c) \/ LearnsNothing)
        BY <2>5, <3>2 DEF RunRefresh
      <4>2. lease.holder = c.by /\ lease'.holder = c.by /\ lease'.until = at + Length
        BY <3>2, <4>1 DEF MayRefresh
      <4>3. \A w \in Workers : known'[w] = known[w] \/ (w = c.by /\ known'[w] = c.sent + Length)
        BY <4>1 DEF Learns, LearnsNothing
      <4>4. known'[c.by] <= c.sent + Length
        BY <4>3 DEF LeaseInv
      <4>5. \A w \in Workers : clock < known'[w] => lease'.holder = w /\ known'[w] <= lease'.until
        BY <4>2, <4>3, <4>4 DEF LeaseInv
      <4>6. done' = done
        BY <4>1 DEF Learns, LearnsNothing
      <4> QED
        BY <2>5, <3>1, <4>3, <4>4, <4>5, <4>6 DEF LeaseInv
    <3>3. CASE ~(MayRefresh(c.by, at) /\ at + Length > lease.from)
      <4>1. lease' = lease /\ (Loses(c) \/ LearnsNothing)
        BY <2>5, <3>3 DEF RunRefresh
      <4>2. \A w \in Workers : known'[w] = known[w] \/ known'[w] = 0
        BY <4>1 DEF Loses, LearnsNothing
      <4>3. done \subseteq done'
        BY <4>1 DEF Loses, LearnsNothing
      <4> QED
        BY <2>5, <3>1, <4>1, <4>2, <4>3 DEF LeaseInv
    <3> QED
      BY <3>2, <3>3
  <2>6. ASSUME NEW c \in calls, RunRelease(c), calls' = calls \ {c}, UNCHANGED clock
        PROVE LeaseInv'
    <3>1. known' = known /\ known[c.by] = 0 /\ done' = done
      BY <2>6 DEF RunRelease, LearnsNothing, LeaseInv
    <3>2. \A w \in Workers : clock < known[w] => lease' = lease
      BY <2>6, <3>1 DEF RunRelease, MayRelease, LeaseInv
    <3> QED
      BY <2>6, <3>1, <3>2 DEF LeaseInv
  <2>7. CASE LeaseTick
    BY <2>7 DEF LeaseTick, LeaseInv
  <2>8. CASE UNCHANGED leaseVars
    BY <2>8 DEF leaseVars, LeaseInv
  <2> QED
    BY <2>1, <2>2, <2>3, <2>4, <2>5, <2>6, <2>7, <2>8 DEF LeaseNext, Run
<1> QED
  BY <1>1, <1>2, LeaseTypes, PTL DEF LeaseSpec

(* No two workers are sure of the lease at a time.                         *)
THEOREM LeasesExclude == LeaseSpec => []OneKnows
<1>1. LeaseTypeOK /\ LeaseInv => OneKnows
  BY DEF LeaseTypeOK, LeaseInv, OneKnows
<1> QED
  BY <1>1, LeaseTypes, LeaseInvHolds, PTL
(* A live lease is only ended by its holder.                               *)
THEOREM LeasesAreKept == LeaseSpec => LiveLeaseIsKept
<1> DEFINE Kept == lease # NoLease /\ lease.until > clock =>
                     \/ lease'.holder = lease.holder
                     \/ lease' = NoLease /\ lease.holder \in done
<1>1. LeaseTypeOK /\ LeaseInv /\ [LeaseNext]_leaseVars => [Kept]_leaseVars
  <2> SUFFICES ASSUME LeaseTypeOK, LeaseInv, LeaseNext, lease # NoLease, lease.until > clock
               PROVE  \/ lease'.holder = lease.holder
                      \/ lease' = NoLease /\ lease.holder \in done
    BY DEF leaseVars
  <2>1. CASE UNCHANGED lease
    BY <2>1
  <2>2. ASSUME NEW c \in calls, NEW at \in c.sent .. clock, RunClaim(c, at)
        PROVE  lease'.holder = lease.holder
    <3>1. lease.until \in Int /\ clock \in Int /\ at \in Int /\ at <= clock
      BY DEF LeaseTypeOK
    <3>2. ~(lease.until <= at)
      BY <3>1
    <3>3. MayClaim(c.by, at) => lease.holder = c.by
      BY <3>2 DEF MayClaim
    <3> QED
      BY <2>2, <3>3 DEF RunClaim, Row
  <2>3. ASSUME NEW c \in calls, NEW at \in c.sent .. clock, RunRefresh(c, at)
        PROVE  lease'.holder = lease.holder
    BY <2>3 DEF RunRefresh, LeaseTypeOK
  <2>4. ASSUME NEW c \in calls, RunRelease(c)
        PROVE  lease' = lease \/ (lease' = NoLease /\ lease.holder \in done)
    BY <2>4 DEF RunRelease, MayRelease, LeaseInv
  <2> QED
    BY <2>1, <2>2, <2>3, <2>4 DEF LeaseNext, Run, SendClaim, SendRefresh, SendRelease, LeaseTick
<1> QED
  BY <1>1, LeaseTypes, LeaseInvHolds, PTL DEF LeaseSpec, LiveLeaseIsKept
=============================================================================
