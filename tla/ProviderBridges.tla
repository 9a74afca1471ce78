--------------------------- MODULE ProviderBridges ---------------------------
(***************************************************************************)
(* From a message of the target to a stored raw event: the Figma bridge    *)
(* and its adapter, the first-party message bridge and its instrumentation,*)
(* the runner lifecycle they share the sequence with, and the enqueue of   *)
(* the outbox behind them, which may be slow and may fail (the browser's   *)
(* storage is full).  Both count: the lifecycle the events it stored, a    *)
(* bridge those it made since the runner page mounted it.                  *)
(*                                                                         *)
(* ParticipantRunner has the page's flows and EvidenceDelivery the rest of *)
(* the outbox; here the delivery is a choice between success and failure.  *)
(*                                                                         *)
(* A page has one setting: the provider of its target, what the target may *)
(* send ([kind, screen]), the kinds of operation whose enqueue may fail,   *)
(* whether the participant opens and cancels the give-up dialog, and       *)
(* whether tasks are given up or time out.  With localStorage an enqueue   *)
(* ends before the next message arrives (slow = FALSE).  An OutboxStorage  *)
(* that really waits, such as the one of the concurrency tests, is slow.   *)
(***************************************************************************)
EXTENDS Integers, Sequences, FiniteSets, FiniteSetsExt

CONSTANTS
  Settings,      \* the kinds of target and storage a page may have, see Setting
  Screens,       \* of the prototype
  StartScreen,   \* where a target starts
  NumTasks,
  MaxFailures,   \* bound on failed enqueues
  MaxEvents,     \* bound on stored events
  MaxMessages,   \* bound on messages received
  MaxWaiting     \* bound on messages and enqueues under way

Tasks == 1 .. NumTasks
None == "none"

ASSUME BridgeAssumption ==
  /\ \A s \in Settings :
       /\ s.provider \in {"figma", "web"}
       /\ s.messages \subseteq [kind : STRING, screen : Screens \cup {None}]
       /\ s.fails \subseteq {"start", "end", "external", "block"}
       /\ {s.slow, s.dialogs, s.ends} \subseteq BOOLEAN
  /\ StartScreen \in Screens /\ None \notin Screens
  /\ NumTasks \in Nat \ {0}
  /\ MaxFailures \in Nat /\ MaxEvents \in Nat /\ MaxMessages \in Nat
  /\ MaxWaiting \in Nat \ {0}

VARIABLES
  setting,   \* of the page, fixed
  stage,     \* of the page
  index,     \* its task
  life,      \* the lifecycle object
  bridge,    \* the mounted bridge: [seq, task, current], seq 0 when there is none
  waiting,   \* messages in the promise chain of the Figma bridge
  queue,     \* enqueues in the promise chain of the outbox
  stored,    \* the events that were enqueued, delivered ones included
  received,  \* messages received so far
  refused,   \* whether the lifecycle refused a good event of the open task
  failures

bridgeVars == <<setting, stage, index, life, bridge, waiting, queue, stored, received, refused, failures>>

NoBridge == [seq |-> 0, task |-> 0, current |-> None]

Event(type, task, seq, screen, prev, at) ==
  [type |-> type, task |-> task, seq |-> seq, screen |-> screen, prev |-> prev, at |-> at]

Plain(type, task, seq) == Event(type, task, seq, None, None, received)

BridgeInit ==
  /\ setting \in Settings
  /\ stage = "task-intro" /\ index = 1
  /\ life = [sequence |-> 1, terminal |-> FALSE, task |-> 0, taskTerminal |-> FALSE]
  /\ bridge = NoBridge /\ waiting = <<>> /\ queue = <<>>
  /\ received = 0 /\ refused = FALSE /\ failures = 0
  /\ stored = <<Event("session_started", 0, 1, None, None, 0)>>
-----------------------------------------------------------------------------
(* The lifecycle.                                                          *)
Idle == waiting = <<>> /\ queue = <<>>
Room == Len(queue) + Len(waiting) < MaxWaiting /\ Len(stored) + Len(queue) < MaxEvents

CanStart == ~life.terminal /\ ~(life.task # 0 /\ ~life.taskTerminal)
CanEndTask == life.task # 0 /\ ~life.taskTerminal /\ ~life.terminal

(* acceptExternalRaw lets an event of a bridge pass.                       *)
Accepts(e) ==
  ~life.terminal /\ e.seq = life.sequence + 1 /\ (life.task # 0 => e.task = life.task)

(* An enqueue under way, and what continues after it.                      *)
Op(kind, e) == [kind |-> kind, event |-> e]
Enqueue(op) == queue' = Append(queue, op)

(* The lifecycle counts when it numbers (faulty variant).                  *)
NumberedAtOnce(kind, type) ==
  /\ life' = [life EXCEPT !.sequence = @ + 1]
  /\ Enqueue(Op(kind, Plain(type, life.task, life.sequence + 1)))

(* raw() of the lifecycle: the number is taken now, and counted once the   *)
(* event is stored.                                                        *)
Raw(kind, type) ==
  /\ UNCHANGED life
  /\ Enqueue(Op(kind, Plain(type, life.task, life.sequence + 1)))
-----------------------------------------------------------------------------
(* The page.                                                               *)

(* The effect that mounts a bridge whenever the stage becomes "runner".    *)
Mount(shown, task, sequence) ==
  bridge' = IF shown # "runner" THEN NoBridge
            ELSE [seq |-> sequence, task |-> task, current |-> StartScreen]

Show(next) == stage' = next /\ Mount(next, index, life.sequence)

(* Terminal outcome of a task in the database, once all is delivered: of a *)
(* raw end, or of a view of the last screen.                               *)
HasRow(i) == \E k \in DOMAIN stored : stored[k].type = "task_started" /\ stored[k].task = i

Decided(i) ==
  /\ HasRow(i)
  /\ \E k \in DOMAIN stored :
       /\ stored[k].task = i
       /\ \/ stored[k].type \in {"task_give_up", "task_timeout", "task_technical_blocked"}
          \/ stored[k].type = "screen_view" /\ stored[k].screen = "done"

Blocked == \E k \in DOMAIN stored : stored[k].type = "session_technical_blocked"

(* startTask() of the page: nothing is emitted when the lifecycle declines,*)
(* and the page goes on all the same.                                      *)
StartTask ==
  /\ stage = "task-intro" /\ Idle /\ Room
  /\ IF CanStart
     THEN /\ life' = [life EXCEPT !.task = index, !.taskTerminal = FALSE]
          /\ Enqueue(Op("start", Plain("task_started", index, life.sequence + 1)))
          /\ UNCHANGED <<stage, bridge>>
     ELSE /\ \E next \in {"runner", "recovery"} : Show(next)
          /\ UNCHANGED <<life, queue>>
  /\ UNCHANGED <<setting, index, waiting, stored, received, refused, failures>>

OpenDialog ==
  /\ setting.dialogs /\ stage = "runner" /\ Idle
  /\ Show("give-up-confirm")
  /\ UNCHANGED <<setting, index, life, waiting, queue, stored, received, refused, failures>>

CancelDialog ==
  /\ stage = "give-up-confirm" /\ Idle
  /\ Show("runner")
  /\ UNCHANGED <<setting, index, life, waiting, queue, stored, received, refused, failures>>

(* confirmGiveUp: when the lifecycle declines, nothing is emitted and the   *)
(* page goes on all the same.                                              *)
GiveUp ==
  /\ setting.ends /\ stage = "give-up-confirm" /\ Idle /\ Room
  /\ IF CanEndTask THEN Raw("end", "task_give_up") /\ UNCHANGED <<stage, bridge>>
     ELSE UNCHANGED <<life, queue>> /\ Show("transition")
  /\ UNCHANGED <<setting, index, waiting, stored, received, refused, failures>>

(* The timer of the task, which also runs behind the dialog.               *)
TimeOut ==
  /\ setting.ends /\ stage \in {"runner", "give-up-confirm"} /\ Idle /\ Room /\ CanEndTask
  /\ Raw("end", "task_timeout")
  /\ UNCHANGED <<setting, stage, index, bridge, waiting, stored, received, refused, failures>>

(* syncTerminalState: the task was decided by a rule.                      *)
Sync ==
  /\ stage \in {"runner", "give-up-confirm"} /\ Idle /\ Decided(index) /\ life.task = index
  /\ life' = [life EXCEPT !.taskTerminal = TRUE]
  /\ Show("transition")
  /\ UNCHANGED <<setting, index, waiting, queue, stored, received, refused, failures>>

NextTask ==
  /\ stage = "transition" /\ Idle /\ index < NumTasks
  /\ stage' = "task-intro" /\ index' = index + 1
  /\ UNCHANGED <<setting, life, bridge, waiting, queue, stored, received, refused, failures>>

(* retryRecovery: what was stored is delivered, and the page goes where    *)
(* the state of the session says (inferStageFromState).                    *)
Retry ==
  /\ stage = "recovery" /\ Idle
  /\ LET open == {i \in Tasks : HasRow(i) /\ ~Decided(i)}
         done == {i \in Tasks : \A j \in 1 .. i : Decided(j)}
         where == IF Blocked THEN <<"technical", index>>
                  ELSE IF open # {} THEN <<"runner", CHOOSE i \in open : TRUE>>
                  ELSE IF done # {} THEN <<"transition", Cardinality(done)>>
                  ELSE <<"task-intro", 1>>
     IN  stage' = where[1] /\ index' = where[2] /\ Mount(where[1], where[2], life.sequence)
  /\ UNCHANGED <<setting, life, waiting, queue, stored, received, refused, failures>>
-----------------------------------------------------------------------------
(* The bridges.                                                            *)
Tracked == {"screen", "pointer", "state", "scroll", "signal"}
Type == [screen |-> "screen_view", pointer |-> "pointer_interaction",
         state |-> "component_state_changed", scroll |-> "scroll", signal |-> "completion_signal"]

(* adaptFigmaEmbedEvent, first-party recordX: a screen view tells the      *)
(* screen before (Figma: the bridge remembers it; web: the target does), a *)
(* component change is where the participant is.                           *)
Adapted(m, seq, at) ==
  Event(Type[m.kind], bridge.task, seq,
        IF m.kind = "state" THEN bridge.current ELSE m.screen,
        IF m.kind = "screen" /\ setting.provider = "figma" THEN bridge.current ELSE None, at)

Arrives ==
  /\ bridge.seq # 0 /\ Room /\ (setting.slow \/ Idle)
  /\ received < MaxMessages /\ received' = received + 1

Chained(m) == Append(waiting, [message |-> m, at |-> received'])

FigmaMessage(m) ==
  /\ setting.provider = "figma" /\ Arrives
  /\ waiting' = Chained(m)
  /\ UNCHANGED <<setting, stage, index, life, bridge, queue, stored, refused, failures>>

(* A chain that ends with the first failure (faulty variant).              *)
ChainIsFreePoisoned ==
  failures = 0 /\ ~\E k \in DOMAIN queue : queue[k].kind \in {"external", "block"}

(* A handler waits for the one before it, however that ended.              *)
ChainIsFree == ~\E k \in DOMAIN queue : queue[k].kind \in {"external", "block"}

(* The next message of the chain is handled.                               *)
FigmaHandle ==
  /\ waiting # <<>> /\ ChainIsFree
  /\ LET m == waiting[1].message
         e == Adapted(m, bridge.seq + 1, waiting[1].at)
     IN  IF m.kind = "login"
         THEN IF life.terminal THEN UNCHANGED <<queue, refused>>
              ELSE /\ Enqueue(Op("block", Plain(IF CanEndTask THEN "task_technical_blocked"
                                                ELSE "session_technical_blocked",
                                                IF CanEndTask THEN life.task ELSE 0,
                                                life.sequence + 1)))
                   /\ UNCHANGED refused
         ELSE IF m.kind \notin Tracked THEN UNCHANGED <<queue, refused>>
         ELSE IF Accepts(e) THEN Enqueue(Op("external", e)) /\ UNCHANGED refused
         ELSE refused' = (refused \/ ~life.terminal) /\ UNCHANGED queue
  /\ waiting' = Tail(waiting)
  /\ UNCHANGED <<setting, stage, index, life, bridge, stored, received, failures>>

(* The first-party bridge numbers an event before it is accepted.          *)
WebMessage(m) ==
  /\ setting.provider = "web" /\ Arrives
  /\ LET e == Adapted(m, bridge.seq + 1, received')
     IN  IF m.kind \notin Tracked THEN UNCHANGED <<queue, bridge, refused>>
         ELSE /\ bridge' = [bridge EXCEPT !.seq = @ + 1]
              /\ IF Accepts(e) THEN Enqueue(Op("external", e)) /\ UNCHANGED refused
                 ELSE refused' = (refused \/ ~life.terminal) /\ UNCHANGED queue
  /\ UNCHANGED <<setting, stage, index, life, waiting, stored, failures>>

Message == \E m \in setting.messages : FigmaMessage(m) \/ WebMessage(m)
-----------------------------------------------------------------------------
(* The enqueue at the head of the chain ends.                              *)
(* A bridge that does not count what it made (faulty variant).             *)
AdvancedUncounted(e) ==
  [bridge EXCEPT !.current = IF e.type = "screen_view" THEN e.screen ELSE @]

(* A Figma bridge after its event was stored.                              *)
Advanced(e) ==
  IF setting.provider = "web" \/ bridge.seq = 0 THEN bridge
  ELSE [bridge EXCEPT !.seq = e.seq, !.current = IF e.type = "screen_view" THEN e.screen ELSE @]

Stored ==
  /\ queue # <<>>
  /\ LET op == queue[1]
         e == op.event
         counted == [life EXCEPT !.sequence = e.seq]
     IN  /\ stored' = Append(stored, e)
         /\ CASE op.kind = "external" ->
                   life' = counted /\ bridge' = Advanced(e) /\ queue' = Tail(queue) /\ UNCHANGED stage
              [] op.kind = "start" ->
                   /\ life' = counted /\ queue' = Tail(queue)
                   /\ \E next \in {"runner", "recovery"} :
                        stage' = next /\ Mount(next, index, e.seq)
              [] op.kind = "end" ->
                   /\ life' = [counted EXCEPT !.taskTerminal = TRUE] /\ queue' = Tail(queue)
                   /\ \E next \in {"transition", "recovery"} :
                        stage' = next /\ Mount(next, index, e.seq)
              [] op.kind = "block" /\ e.type = "task_technical_blocked" ->
                   /\ life' = [counted EXCEPT !.taskTerminal = TRUE]
                   /\ queue' = Append(Tail(queue),
                                      Op("block", Event("session_technical_blocked", 0, e.seq + 1,
                                                        None, None, received)))
                   /\ UNCHANGED <<stage, bridge>>
              [] op.kind = "block" /\ e.type = "session_technical_blocked" ->
                   /\ life' = [counted EXCEPT !.terminal = TRUE] /\ queue' = Tail(queue)
                   /\ stage' = "technical" /\ bridge' = NoBridge
  /\ UNCHANGED <<setting, index, waiting, received, refused, failures>>

(* The storage refuses: the caller gets an exception.  A page flow shows   *)
(* "recovery"; a timeout and the handlers of messages leave it unhandled.  *)
Failed ==
  /\ queue # <<>> /\ failures < MaxFailures /\ queue[1].kind \in setting.fails
  /\ queue' = Tail(queue) /\ failures' = failures + 1
  /\ IF queue[1].kind = "start" \/ queue[1].event.type = "task_give_up"
     THEN stage' = "recovery" /\ bridge' = NoBridge
     ELSE UNCHANGED <<stage, bridge>>
  /\ UNCHANGED <<setting, index, life, waiting, stored, received, refused>>

BridgeNext ==
  \/ StartTask \/ OpenDialog \/ CancelDialog \/ GiveUp \/ TimeOut \/ Sync \/ NextTask \/ Retry
  \/ Message \/ FigmaHandle \/ Stored \/ Failed

(* Promises under way are resolved: a chain that can go on does, and an    *)
(* enqueue ends, well or not.                                              *)
BridgeSpec == BridgeInit /\ [][BridgeNext]_bridgeVars /\ WF_bridgeVars(FigmaHandle) /\ WF_bridgeVars(Stored \/ Failed)
-----------------------------------------------------------------------------
Stages == {"task-intro", "runner", "give-up-confirm", "transition", "recovery", "technical"}
Ends == {"task_give_up", "task_timeout"}
Blocks == {"task_technical_blocked", "session_technical_blocked"}
EventTypes == {"session_started", "task_started"} \cup Ends \cup Blocks \cup {Type[k] : k \in Tracked}
Shown == Screens \cup {None}
Events == [type : EventTypes, task : Tasks \cup {0}, seq : Nat, screen : Shown, prev : Shown, at : Nat]

BridgeTypeOK ==
  /\ setting \in Settings /\ stage \in Stages /\ index \in Tasks
  /\ life \in [sequence : Nat \ {0}, terminal : BOOLEAN, task : Tasks \cup {0}, taskTerminal : BOOLEAN]
  /\ bridge \in [seq : Nat, task : Tasks \cup {0}, current : Shown]
  /\ waiting \in Seq([message : setting.messages, at : Nat])
  /\ queue \in Seq([kind : {"start", "end", "external", "block"}, event : Events])
  /\ stored \in Seq(Events) /\ received \in 0 .. MaxMessages
  /\ refused \in BOOLEAN /\ failures \in 0 .. MaxFailures

(* The numbers of a session have no gap and no duplicate, whatever fails:  *)
(* the collector refuses a number it has, and a gap would show as lost     *)
(* evidence.                                                               *)
Gapless == \A k \in DOMAIN stored : stored[k].seq = k

(* The storage takes what the page emits and, of a first-party target, the *)
(* evidence too.                                                           *)
TakesAll == setting.fails \subseteq (IF setting.provider = "figma" THEN {"external"} ELSE {})

(* No well-formed event of the running task is refused: bridge and         *)
(* lifecycle never disagree about the next number or the task.  Where      *)
(* storage takes less, they may disagree until the next mount.             *)
NoneRefused == TakesAll => ~refused

(* Events are numbered in the order their messages arrived, and carry the  *)
(* time of arrival, even when they had to wait.                            *)
ArrivalOrder ==
  \A j, k \in DOMAIN stored : j < k => stored[j].at <= stored[k].at

(* Waiting and failing change neither the numbers nor their order.         *)
NumbersGapless == Gapless /\ ArrivalOrder

(* What makes that inductive.  One enqueue is under way at a time, and it   *)
(* carries the next number: a bridge handles a message only when none is,  *)
(* or refuses it, and the page waits.                                      *)
UnderWay ==
  /\ Len(queue) <= 1
  /\ waiting # <<>> => setting.provider = "figma"
  /\ queue # <<>> => LET op == queue[1] IN
       /\ op.event.seq = life.sequence + 1
       /\ op.kind \in {"start", "end"} => waiting = <<>>
       /\ op.kind = "start" => stage = "task-intro"
       /\ op.kind = "end" => setting.ends
       /\ op.kind = "block" => setting.provider = "figma" /\ op.event.type \in Blocks
       /\ op.kind = "external" /\ setting.provider = "web" /\ bridge.seq # 0 =>
            bridge.seq >= op.event.seq

Counted ==
  /\ life.sequence = Len(stored)
  /\ bridge.seq # 0 => stage = "runner"
  /\ setting.provider = "figma" => bridge.seq <= life.sequence

(* What waits is younger than what is stored, unless the bridge is behind: *)
(* then the lifecycle refuses it.                                          *)
Younger ==
  /\ \A i, j \in DOMAIN waiting : i < j => waiting[i].at <= waiting[j].at
  /\ \A i \in DOMAIN waiting : waiting[i].at <= received
  /\ \A k \in DOMAIN stored : stored[k].at <= received
  /\ queue # <<>> =>
       /\ queue[1].event.at <= received
       /\ \A k \in DOMAIN stored : stored[k].at <= queue[1].event.at
       /\ queue[1].kind = "external" =>
            \A i \in DOMAIN waiting : queue[1].event.at <= waiting[i].at
  /\ bridge.seq = life.sequence =>
       \A k \in DOMAIN stored : \A i \in DOMAIN waiting : stored[k].at <= waiting[i].at

BridgeInv == NumbersGapless /\ UnderWay /\ Counted /\ Younger

(* Over storage that waits the page emits nothing while messages come in:  *)
(* an end of the task and a message would take the same number.            *)
OnlyMessagesOverlap == \A s \in Settings : s.slow => ~s.ends

(* The screen a task shows after its views among the first n events.       *)
ViewsOf(i, n, events) == {j \in 1 .. n : events[j].type = "screen_view" /\ events[j].task = i}

LastScreen(i, n, events) ==
  IF ViewsOf(i, n, events) = {} THEN StartScreen
  ELSE events[Max(ViewsOf(i, n, events))].screen

(* A screen view of a Figma target names the screen of the view on record  *)
(* before it, even when events waited or were not stored in between.  A    *)
(* bridge that is mounted again, after the give-up dialog or a failed      *)
(* flow, begins at the start screen.                                       *)
PreviousTold ==
  setting.provider = "figma" /\ TakesAll /\ ~setting.dialogs => \A k \in DOMAIN stored :
    stored[k].type = "screen_view" => stored[k].prev = LastScreen(stored[k].task, k - 1, stored)

(* The copies the bridge keeps of the number, the task and the screen are  *)
(* in step with what they are copies of.                                   *)
BridgeInStep == NoneRefused /\ PreviousTold

(* What makes that inductive.  The page shows the task the lifecycle has   *)
(* open or, between tasks, has ended; only a start is ahead of its event.  *)
Starting == queue # <<>> /\ queue[1].kind = "start"

PageFollows ==
  /\ stage = "task-intro" => IF Starting THEN index = life.task /\ ~life.taskTerminal
                             ELSE index = life.task + 1 /\ (life.task # 0 => life.taskTerminal)
  /\ stage \in {"runner", "give-up-confirm", "transition"} => index = life.task
  /\ stage = "transition" => life.taskTerminal
  /\ stage = "give-up-confirm" => setting.dialogs
  /\ life.terminal => stage = "technical"

(* A task has its events in order: the start, and the terminal one before  *)
(* the next task.  The recovery page is reached before the task was used,  *)
(* or after it ended.                                                      *)
EvidenceFollows ==
  /\ \A k \in DOMAIN stored :
       stored[k].task <= life.task /\ (Starting => stored[k].task # life.task)
  /\ \A i \in 1 .. life.task : HasRow(i) \/ (Starting /\ i = life.task)
  /\ \A i \in 1 .. life.task : i < life.task \/ life.taskTerminal => Decided(i)
  /\ stage = "recovery" =>
       /\ life.task # 0
       /\ life.taskTerminal \/ \A k \in DOMAIN stored :
                                 stored[k].task = life.task => stored[k].type = "task_started"

(* What is being stored is of the task shown.                              *)
EnqueuedFollows ==
  queue # <<>> => LET op == queue[1] IN
    /\ op.event.task = IF op.event.type = "session_technical_blocked" THEN 0 ELSE life.task
    /\ op.kind = "start" => op.event.type = "task_started"
    /\ op.kind = "end" => op.event.type \in Ends /\ stage \in {"runner", "give-up-confirm"}
    /\ op.kind = "external" => op.event.type \in {Type[k] : k \in Tracked}
    /\ op.kind \in {"external", "block"} => bridge.seq # 0

(* A bridge is ahead of the lifecycle by the event it has under way, and    *)
(* behind it while the task is blocked and the session not yet.            *)
BridgeFollows ==
  /\ ~refused
  /\ waiting # <<>> => bridge.seq # 0 \/ life.terminal
  /\ bridge.seq # 0 =>
       /\ bridge.task = index
       /\ \/ bridge.seq = life.sequence
          \/ queue # <<>> /\ queue[1].kind = "block"
          \/ /\ setting.provider = "web" /\ queue # <<>> /\ queue[1].kind = "external"
             /\ bridge.seq = queue[1].event.seq

ScreenFollows ==
  setting.provider = "figma" /\ ~setting.dialogs =>
    /\ bridge.seq # 0 => bridge.current = LastScreen(index, Len(stored), stored)
    /\ queue # <<>> /\ queue[1].event.type = "screen_view" =>
         queue[1].event.prev = LastScreen(life.task, Len(stored), stored)

Follows == PageFollows /\ EvidenceFollows /\ EnqueuedFollows /\ BridgeFollows /\ ScreenFollows

StepInv == PreviousTold /\ (TakesAll => Follows)

(* A first-party message is numbered when it comes: over storage that      *)
(* waits, the second of two would be refused.                              *)
OnlyChainsOverlap == \A s \in Settings : s.slow => s.provider = "figma"

(* The evidence of a task begins with its task_started.  Refuted when the  *)
(* storage fails as the task is started.                                   *)
StartedFirst ==
  \A k \in DOMAIN stored : stored[k].task # 0 =>
    \E j \in 1 .. k : stored[j].type = "task_started" /\ stored[j].task = stored[k].task

(* A message is always handled in the end, also after one that failed.     *)
EveryMessageHandled == (waiting # <<>>) ~> (waiting = <<>>)
=============================================================================
