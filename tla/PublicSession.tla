---------------------------- MODULE PublicSession ----------------------------
(***************************************************************************)
(* What the server does for participants' pages: the entry that creates a  *)
(* session, the state a page resumes from, tokens, and post-task feedback. *)
(* A browser keeps one proof of a session in a cookie, for all its tabs,   *)
(* and the last entry replaces it; each page goes on with the session it   *)
(* started or resumed.  The state is put together from five requests.      *)
(*                                                                         *)
(* A page is reduced to what it sends and to the last state it took in;    *)
(* ParticipantRunner has the rest of it, EvidenceDelivery the delivery of  *)
(* events, which is one event at a time here.                              *)
(***************************************************************************)
EXTENDS Integers, FiniteSets

CONSTANTS
  Tabs,
  Versions,
  LinkOf,             \* the version of the link a tab is opened with
  Sessions,           \* ids
  Tasks,
  VersionOf,          \* the version of a task
  Questions,
  Required,           \* the required questions of a task
  InsertNamesTest,    \* the entry fills sessions.test_id
  MaxEvents,          \* bounds: events of a session,
  MaxLoads,           \* loads of pages,
  MaxReads,           \* requests for the state
  NULL

ASSUME PublicSessionAssumption ==
  /\ LinkOf \in [Tabs -> Versions] /\ VersionOf \in [Tasks -> Versions]
  /\ Required \in [Tasks -> SUBSET Questions]
  /\ InsertNamesTest \in BOOLEAN
  /\ MaxEvents \in Nat \ {0} /\ MaxLoads \in Nat /\ MaxReads \in Nat
  /\ NULL \notin Sessions \cup Tasks

VARIABLES
  lifecycle,  \* lifecycle_status of the versions
  db,         \* the sessions with their rows, NULL where there is none
  cookie,     \* the session of the proof
  tab,        \* the page in each tab
  outbox,     \* the event of a session waiting in local storage
  read,       \* the state request of a tab
  post,       \* the feedback request of a tab
  submitted,  \* feedback that was taken, of which session and task: history
  refused,    \* tabs whose valid entry was refused
  loads,
  reads

vars == <<lifecycle, db, cookie, tab, outbox, read, post, submitted, refused, loads, reads>>

Event == [kind : {"session_started", "task_started", "task_ended", "session_completed"},
          task : Tasks \cup {NULL}]
TaskSession == [from : 1 .. MaxEvents, to : 0 .. MaxEvents, marked : BOOLEAN]
Answer == [task : Tasks, key : Questions, by : Sessions]
Rows == [Tasks -> TaskSession \cup {NULL}]

\* The rows of a session, a state reply (under way, or taken in by a page), a
\* page and a feedback request.
Statuses == {"active", "completed"}
Session == [version : Versions, status : Statuses, last : 0 .. MaxEvents,
            ended : 0 .. MaxEvents, rows : Rows, answers : SUBSET Answer]
Reading == {"none", "status", "tasks", "sequence", "answers", "markers", "done"}
Reply == [at : Reading, claims : Sessions \cup {NULL}, before : SUBSET Tasks,
          ended : 0 .. MaxEvents, status : Statuses \cup {NULL}, rows : Rows,
          last : 0 .. MaxEvents, answered : SUBSET (Tasks \X Questions), marked : SUBSET Tasks]
Page == [at : {"closed", "loading", "consent", "entering", "technical", "on"},
         session : Sessions \cup {NULL}, active : Tasks \cup {NULL}, initial : BOOLEAN,
         credential : Sessions \cup {NULL}, view : Reply \cup {NULL}]
Feedback == [task : Tasks, keys : SUBSET Questions, claims : Sessions, by : Sessions]

\* No row, event, reply or request is null.
ASSUME NullAssumption == NULL \notin TaskSession \cup Event \cup Session \cup Reply \cup Feedback

NoTab == [at |-> "closed", session |-> NULL, active |-> NULL,
          initial |-> FALSE, credential |-> NULL, view |-> NULL]
NoRead == [at |-> "none", claims |-> NULL, before |-> {}, ended |-> 0, status |-> NULL,
           rows |-> [k \in Tasks |-> NULL], last |-> 0, answered |-> {}, marked |-> {}]

NewSession(v) ==
  [version |-> v, status |-> "active", last |-> 0, ended |-> 0,
   rows |-> [k \in Tasks |-> NULL], answers |-> {}]

Init ==
  /\ lifecycle = [v \in Versions |-> "draft"]
  /\ db = [s \in Sessions |-> NULL]
  /\ cookie = NULL
  /\ tab = [t \in Tabs |-> NoTab]
  /\ outbox = [s \in Sessions |-> NULL]
  /\ read = [t \in Tabs |-> NoRead]
  /\ post = [t \in Tabs |-> NULL]
  /\ submitted = {} /\ refused = {} /\ loads = 0 /\ reads = 0

Publish(v) ==
  /\ lifecycle[v] = "draft"
  /\ lifecycle' = [lifecycle EXCEPT ![v] = "published"]
  /\ UNCHANGED <<db, cookie, tab, outbox, read, post, submitted, refused, loads, reads>>

\* The next version takes its place.
Archive(v) ==
  /\ lifecycle[v] = "published"
  /\ lifecycle' = [lifecycle EXCEPT ![v] = "archived"]
  /\ UNCHANGED <<db, cookie, tab, outbox, read, post, submitted, refused, loads, reads>>
-----------------------------------------------------------------------------
(* Entry *)

\* The page is (re)loaded and gets the snapshot, whose rows no longer change.
\* A feedback request under way may still arrive.
Load(t) ==
  /\ loads < MaxLoads /\ lifecycle[LinkOf[t]] = "published"
  /\ tab' = [tab EXCEPT ![t] = [NoTab EXCEPT !.at = "loading"]]
  /\ read' = [read EXCEPT ![t] = NoRead]
  /\ loads' = loads + 1
  /\ UNCHANGED <<lifecycle, db, cookie, outbox, post, submitted, refused, reads>>

Accept(t) ==
  /\ tab[t].at = "consent"
  /\ tab' = [tab EXCEPT ![t].at = "entering"]
  /\ UNCHANGED <<lifecycle, db, cookie, outbox, read, post, submitted, refused, loads, reads>>

\* create_anonymous_participant_session, one transaction.  A reply that gets
\* lost leaves the session behind.
Enter(t) ==
  /\ tab[t].at = "entering"
  /\ LET open == lifecycle[LinkOf[t]] = "published"
     IN  IF open /\ InsertNamesTest
         THEN \E s \in {i \in Sessions : db[i] = NULL} :
                /\ db' = [db EXCEPT ![s] = NewSession(LinkOf[t])]
                /\ \/ /\ cookie' = s
                      /\ tab' = [tab EXCEPT ![t] = [NoTab EXCEPT
                                   !.at = "on", !.session = s, !.initial = TRUE]]
                      /\ outbox' = [outbox EXCEPT ![s] =
                                      [kind |-> "session_started", task |-> NULL]]
                   \/ /\ tab' = [tab EXCEPT ![t].at = "technical"]
                      /\ UNCHANGED <<cookie, outbox>>
                /\ UNCHANGED refused
         ELSE /\ tab' = [tab EXCEPT ![t].at = "technical"]
              /\ refused' = IF open THEN refused \cup {t} ELSE refused
              /\ UNCHANGED <<db, cookie, outbox>>
  /\ UNCHANGED <<lifecycle, read, post, submitted, loads, reads>>

\* The proof is good for twelve hours.
ProofExpires ==
  /\ cookie # NULL
  /\ cookie' = NULL
  /\ UNCHANGED <<lifecycle, db, tab, outbox, read, post, submitted, refused, loads, reads>>
-----------------------------------------------------------------------------
(* Events *)

On(t, s) == tab[t].at = "on" /\ tab[t].session = s

\* The lifecycle emits the next event of its page.
MayEmit(t, e) ==
  CASE e.kind = "task_started" -> /\ e.task # NULL /\ tab[t].active = NULL
                                  /\ VersionOf[e.task] = LinkOf[t]
    [] e.kind = "task_ended" -> e.task # NULL /\ tab[t].active = e.task
    [] e.kind = "session_completed" -> e.task = NULL /\ tab[t].active = NULL
    [] OTHER -> FALSE

Emit(t, e) ==
  /\ tab[t].at = "on" /\ MayEmit(t, e)
  /\ LET s == tab[t].session
     IN  /\ outbox[s] = NULL /\ db[s].status = "active" /\ db[s].last < MaxEvents
         /\ outbox' = [outbox EXCEPT ![s] = e]
  /\ tab' = [tab EXCEPT ![t].active = IF e.kind = "task_started" THEN e.task ELSE NULL]
  /\ UNCHANGED <<lifecycle, db, cookie, read, post, submitted, refused, loads, reads>>

\* The token that came with the session once, then one for the session of the
\* proof, if that is active.
Refresh(t) ==
  /\ tab[t].at = "on" /\ outbox[tab[t].session] # NULL /\ tab[t].credential = NULL
  /\ \/ /\ tab[t].initial
        /\ tab' = [tab EXCEPT ![t].initial = FALSE, ![t].credential = tab[t].session]
     \/ /\ ~tab[t].initial
        /\ cookie # NULL /\ db[cookie].status = "active"
        /\ tab' = [tab EXCEPT ![t].credential = cookie]
  /\ UNCHANGED <<lifecycle, db, cookie, outbox, read, post, submitted, refused, loads, reads>>

\* on conflict do nothing.
StartedOnce(s, k) ==
  IF s.rows[k] # NULL THEN s.rows[k]
  ELSE [from |-> s.last + 1, to |-> 0, marked |-> FALSE]

EndedFirst(s, k) ==
  IF s.rows[k] = NULL \/ s.rows[k].to # 0 THEN s.rows[k]
  ELSE [s.rows[k] EXCEPT !.to = s.last + 1]

\* The event with its projection.
Recorded(s, e) ==
  LET n == [s EXCEPT !.last = @ + 1]
  IN  CASE e.kind = "task_started" -> [n EXCEPT !.rows[e.task] = StartedOnce(s, e.task)]
        [] e.kind = "task_ended" -> [n EXCEPT !.rows[e.task] = EndedFirst(s, e.task)]
        [] e.kind = "session_completed" /\ s.status = "active" ->
             [n EXCEPT !.status = "completed", !.ended = s.last + 1]
        [] OTHER -> n

\* A token of another session is refused, and the event stays.
Deliver(t) ==
  /\ tab[t].at = "on" /\ tab[t].credential # NULL
  /\ LET s == tab[t].session
     IN  IF tab[t].credential = s /\ outbox[s] # NULL
         THEN /\ db' = [db EXCEPT ![s] = Recorded(@, outbox[s])]
              /\ outbox' = [outbox EXCEPT ![s] = NULL]
         ELSE UNCHANGED <<db, outbox>>
  /\ tab' = [tab EXCEPT ![t].credential = NULL]
  /\ UNCHANGED <<lifecycle, cookie, read, post, submitted, refused, loads, reads>>
-----------------------------------------------------------------------------
(* The state of the session *)

Marked(s) == {k \in Tasks : db[s].rows[k] # NULL /\ db[s].rows[k].marked}

\* The sequence is read before the task sessions (faulty variant).
AfterSequence(at) ==
  CASE at = "status" -> "sequence" [] at = "sequence" -> "tasks"
    [] at = "tasks" -> "answers" [] at = "answers" -> "markers" [] OTHER -> "done"

After(at) ==
  CASE at = "status" -> "tasks" [] at = "tasks" -> "sequence"
    [] at = "sequence" -> "answers" [] at = "answers" -> "markers" [] OTHER -> "done"

\* Without a proof the answer is 401.  before is not part of the request: it
\* keeps which feedback was in when it was sent.
BeginRead(t) ==
  /\ tab[t].at \in {"loading", "on"} /\ read[t].at = "none"
  /\ reads < MaxReads /\ reads' = reads + 1
  /\ read' = [read EXCEPT ![t] =
       IF cookie = NULL THEN [NoRead EXCEPT !.at = "done"]
       ELSE [NoRead EXCEPT !.at = "status", !.claims = cookie, !.before = {k \in Tasks : <<cookie, k>> \in submitted}]]
  /\ UNCHANGED <<lifecycle, db, cookie, tab, outbox, post, submitted, refused, loads>>

ReadNext(t) ==
  /\ read[t].at \notin {"none", "done"}
  /\ LET r == read[t]
         s == db[r.claims]
         n == [r EXCEPT !.at = After(@)]
     IN  read' = [read EXCEPT ![t] =
           CASE r.at = "status" -> [n EXCEPT !.status = s.status, !.ended = s.ended]
             [] r.at = "tasks" -> [n EXCEPT !.rows = s.rows]
             [] r.at = "sequence" -> [n EXCEPT !.last = s.last]
             [] r.at = "answers" -> [n EXCEPT !.answered = {<<a.task, a.key>> : a \in s.answers}]
             [] r.at = "markers" -> [n EXCEPT !.marked = Marked(r.claims)]]
  /\ UNCHANGED <<lifecycle, db, cookie, tab, outbox, post, submitted, refused, loads, reads>>

ReadFails(t) ==
  /\ read[t].at # "none" /\ tab[t].at = "on"
  /\ read' = [read EXCEPT ![t] = NoRead]
  /\ UNCHANGED <<lifecycle, db, cookie, tab, outbox, post, submitted, refused, loads, reads>>

Open(r) == {k \in Tasks : r.rows[k] # NULL /\ r.rows[k].to = 0}

\* Whatever session the proof names (faulty variant).
ForAnyone(t, r) == r.claims # NULL

\* fetchState: another session's state is not for this page.
ForThisPage(t, r) == r.claims # NULL /\ r.claims = tab[t].session

\* A page that loads resumes the session if it is of its version, with the
\* task started last; a page that runs takes the state in.
Take(t) ==
  /\ read[t].at = "done"
  /\ LET r == read[t]
         resumes == r.claims # NULL /\ db[r.claims].version = LinkOf[t]
     IN  tab' = [tab EXCEPT ![t] =
           CASE @.at = "loading" /\ resumes ->
                  [NoTab EXCEPT !.at = "on", !.session = r.claims, !.view = r,
                     !.active = IF Open(r) = {} THEN NULL ELSE CHOOSE k \in Open(r) :
                                  \A j \in Open(r) : r.rows[j].from <= r.rows[k].from]
             [] @.at = "loading" /\ ~resumes -> [@ EXCEPT !.at = "consent"]
             [] OTHER -> IF ForThisPage(t, r) THEN [@ EXCEPT !.view = r] ELSE @]
  /\ read' = [read EXCEPT ![t] = NoRead]
  /\ UNCHANGED <<lifecycle, db, cookie, outbox, post, submitted, refused, loads, reads>>
-----------------------------------------------------------------------------
(* Feedback *)

\* The page asks for the feedback of the last task, ended and not yet marked.
Asks(t, k) ==
  /\ tab[t].at = "on" /\ tab[t].view # NULL
  /\ LET r == tab[t].view
     IN  /\ r.status = "active" /\ Open(r) = {}
         /\ r.rows[k] # NULL /\ k \notin r.marked
         /\ \A j \in Tasks : r.rows[j] # NULL => r.rows[j].from <= r.rows[k].from

\* The request carries the proof, not the session of the page.
Submit(t, k, keys) ==
  /\ Asks(t, k) /\ post[t] = NULL /\ cookie # NULL
  /\ Required[k] \subseteq keys
  /\ post' = [post EXCEPT ![t] =
                [task |-> k, keys |-> keys, claims |-> cookie, by |-> tab[t].session]]
  /\ UNCHANGED <<lifecycle, db, cookie, tab, outbox, read, submitted, refused, loads, reads>>

\* A task with a row is enough (faulty variant).
MaySaveEarly(s, k, keys) ==
  /\ s.status = "active" /\ s.version = VersionOf[k]
  /\ s.rows[k] # NULL /\ Required[k] \subseteq keys

MaySave(s, k, keys) ==
  /\ s.status = "active" /\ s.version = VersionOf[k]
  /\ s.rows[k] # NULL /\ s.rows[k].to # 0
  /\ Required[k] \subseteq keys

\* A blank submission is one, too.
Marks(keys) == TRUE

\* save_post_task_feedback: a second answer to a question replaces the first.
Saved(s, p) ==
  [s EXCEPT
     !.answers = {a \in @ : a.task # p.task \/ a.key \notin p.keys}
                   \cup {[task |-> p.task, key |-> q, by |-> p.by] : q \in p.keys},
     !.rows[p.task].marked = @ \/ Marks(p.keys)]

Save(t) ==
  /\ post[t] # NULL
  /\ LET p == post[t]
     IN  IF MaySave(db[p.claims], p.task, p.keys)
         THEN /\ db' = [db EXCEPT ![p.claims] = Saved(@, p)]
              /\ submitted' = submitted \cup {<<p.claims, p.task>>}
         ELSE UNCHANGED <<db, submitted>>
  /\ post' = [post EXCEPT ![t] = NULL]
  /\ UNCHANGED <<lifecycle, cookie, tab, outbox, read, refused, loads, reads>>

FeedbackLost(t) ==
  /\ post[t] # NULL
  /\ post' = [post EXCEPT ![t] = NULL]
  /\ UNCHANGED <<lifecycle, db, cookie, tab, outbox, read, submitted, refused, loads, reads>>
-----------------------------------------------------------------------------
Next ==
  \/ \E v \in Versions : Publish(v) \/ Archive(v)
  \/ \E t \in Tabs :
       \/ Load(t) \/ Accept(t) \/ Enter(t)
       \/ \E e \in Event : Emit(t, e)
       \/ Refresh(t) \/ Deliver(t)
       \/ BeginRead(t) \/ ReadNext(t) \/ ReadFails(t) \/ Take(t)
       \/ \E k \in Tasks, keys \in SUBSET Questions : Submit(t, k, keys)
       \/ Save(t) \/ FeedbackLost(t)
  \/ ProofExpires

Spec == Init /\ [][Next]_vars

\* A page with a waiting event tries again, at every event and when online.
FairSpec == Spec /\ \A t \in Tabs : WF_vars(Refresh(t)) /\ WF_vars(Deliver(t))
-----------------------------------------------------------------------------
TypeOK ==
  /\ lifecycle \in [Versions -> {"draft", "published", "archived"}]
  /\ db \in [Sessions -> Session \cup {NULL}]
  /\ cookie \in Sessions \cup {NULL}
  /\ tab \in [Tabs -> Page]
  /\ outbox \in [Sessions -> Event \cup {NULL}]
  /\ read \in [Tabs -> Reply]
  /\ post \in [Tabs -> Feedback \cup {NULL}]
  /\ submitted \subseteq Sessions \X Tasks
  /\ refused \subseteq Tabs /\ loads \in 0 .. MaxLoads /\ reads \in 0 .. MaxReads

\* No state reply shows the effect of an event with a greater sequence than the
\* last one it reports, though its parts are of different moments: a page that
\* continues after it never uses a number again.
RepliesCoverTheirEvents ==
  \A t \in Tabs : read[t].at = "done" =>
    /\ read[t].ended <= read[t].last
    /\ \A k \in Tasks : read[t].rows[k] # NULL =>
         read[t].rows[k].from <= read[t].last /\ read[t].rows[k].to <= read[t].last

\* Feedback that was in before a page asked for the state is not asked for
\* again, also if it was blank.
FeedbackNotRepeated ==
  \A t \in Tabs, k \in Tasks : Asks(t, k) => k \notin tab[t].view.before

\* A page only acts on the state of its own session, whichever session another
\* tab left in the cookie.
ActsOnItsSession ==
  \A t \in Tabs : tab[t].view # NULL => tab[t].view.claims = tab[t].session

\* Stored feedback is of an ended task, with every required answer, and marked,
\* also where the proof is of another session than the page.
FeedbackWhole ==
  \A s \in Sessions : db[s] # NULL => \A k \in Tasks :
    LET keys == {a.key : a \in {b \in db[s].answers : b.task = k}}
    IN  keys # {} \/ k \in Marked(s) =>
          /\ k \in Marked(s) /\ db[s].rows[k].to # 0
          /\ Required[k] \subseteq keys

\* Feedback is given once and as a whole.
FeedbackSettled == FeedbackWhole /\ FeedbackNotRepeated

\* What makes these inductive: whoever names a session names one there is; the
\* numbers of a session, and of the parts of a reply read so far, are covered
\* by the last one; and feedback that was taken has left its mark, in what was
\* read since, too.
Names(r) == r # NULL => db[r] # NULL

SessionsKnown ==
  /\ Names(cookie)
  /\ \A t \in Tabs : /\ tab[t].at = "on" => tab[t].session # NULL
                     /\ Names(tab[t].session) /\ Names(read[t].claims)
                     /\ read[t].at \notin {"none", "done"} => read[t].claims # NULL
                     /\ post[t] # NULL => Names(post[t].claims)
  /\ \A s \in Sessions : outbox[s] # NULL =>
       /\ db[s] # NULL /\ db[s].last < MaxEvents
       /\ outbox[s].kind \in {"task_started", "task_ended"} => outbox[s].task # NULL

Covered(rows, ended, last) ==
  /\ ended <= last
  /\ \A k \in Tasks : rows[k] # NULL => rows[k].from <= last /\ rows[k].to <= last

NumbersCovered ==
  /\ \A s \in Sessions : db[s] # NULL =>
       /\ Covered(db[s].rows, db[s].ended, db[s].last)
       /\ \A k \in Tasks : db[s].rows[k] # NULL /\ db[s].rows[k].to # 0 =>
                             db[s].rows[k].from < db[s].rows[k].to
  /\ \A t \in Tabs : LET r == read[t] IN
       /\ r.at \in {"none", "status"} => Covered(r.rows, r.ended, 0)
       /\ r.at \in {"tasks", "sequence"} => Covered(r.rows, r.ended, db[r.claims].last)
       /\ r.at \in {"answers", "markers", "done"} => Covered(r.rows, r.ended, r.last)

FeedbackMarked ==
  /\ \A e \in submitted : db[e[1]] # NULL /\ e[2] \in Marked(e[1])
  /\ \A t \in Tabs :
       /\ \A k \in read[t].before : read[t].claims # NULL /\ <<read[t].claims, k>> \in submitted
       /\ read[t].at = "done" => read[t].before \subseteq read[t].marked
       /\ tab[t].view # NULL => tab[t].view.before \subseteq tab[t].view.marked

PublicSessionInv ==
  /\ TypeOK /\ SessionsKnown /\ NumbersCovered /\ FeedbackMarked
  /\ ActsOnItsSession /\ FeedbackWhole

\* docs/proof-gate-execution.md: session isolation with several tabs.  Refuted:
\* feedback goes to the session of the cookie.
AnswersOfTheirSession ==
  \A s \in Sessions : db[s] # NULL => \A a \in db[s].answers : a.by = s

\* docs/proof-gate-execution.md: no silent loss of evidence.  Refuted: while the
\* cookie is of another session, no token fits the events of the page.
PendingIsDelivered ==
  \A t \in Tabs, s \in Sessions :
    On(t, s) /\ outbox[s] # NULL ~> outbox[s] = NULL \/ ~On(t, s) \/ cookie = NULL

\* The comment of create_anonymous_participant_session: it creates participant
\* and session.  Refuted as shipped: sessions.test_id is not filled.
EntriesTaken == refused = {}
=============================================================================
