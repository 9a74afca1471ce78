------------------------- MODULE PublicSessionProofs -------------------------
(***************************************************************************)
(* Proofs about PublicSession, for any number of tabs, versions, sessions, *)
(* tasks and questions: what a page resumes from covers the events it      *)
(* shows, a page acts on its own session only, and feedback is stored once *)
(* and as a whole.                                                         *)
(***************************************************************************)
EXTENDS PublicSession, NaturalSets

(* PublicSessionInv by what it is about: a session, a reply, a page, a     *)
(* feedback request, a waiting event, and the feedback that was taken.     *)

Ordered(x) ==
  \A k \in Tasks : x.rows[k] # NULL /\ x.rows[k].to # 0 => x.rows[k].from < x.rows[k].to

KeysOf(x, k) == {a.key : a \in {b \in x.answers : b.task = k}}

IsMarked(x, k) == x.rows[k] # NULL /\ x.rows[k].marked

Whole(x) ==
  \A k \in Tasks : KeysOf(x, k) # {} \/ IsMarked(x, k) =>
    IsMarked(x, k) /\ x.rows[k].to # 0 /\ Required[k] \subseteq KeysOf(x, k)

Good(x) == x \in Session /\ Covered(x.rows, x.ended, x.last) /\ Ordered(x) /\ Whole(x)

SessionPart == \A s \in Sessions : db[s] # NULL => Good(db[s])

ReadPart(t) ==
  /\ Names(read[t].claims)
  /\ read[t].at \notin {"none", "done"} => read[t].claims # NULL
  /\ read[t].at \in {"none", "status"} => Covered(read[t].rows, read[t].ended, 0)
  /\ read[t].at \in {"tasks", "sequence"} =>
       Covered(read[t].rows, read[t].ended, db[read[t].claims].last)
  /\ read[t].at \in {"answers", "markers", "done"} =>
       Covered(read[t].rows, read[t].ended, read[t].last)
  /\ \A k \in read[t].before : read[t].claims # NULL /\ <<read[t].claims, k>> \in submitted
  /\ read[t].at = "done" => read[t].before \subseteq read[t].marked

PagePart(t) ==
  /\ tab[t].at = "on" => tab[t].session # NULL
  /\ Names(tab[t].session)
  /\ tab[t].view # NULL => /\ tab[t].view.claims = tab[t].session
                           /\ tab[t].view.before \subseteq tab[t].view.marked

PostPart(t) == post[t] # NULL => Names(post[t].claims)

WaitingPart(s) ==
  outbox[s] # NULL =>
    /\ db[s] # NULL /\ db[s].last < MaxEvents
    /\ outbox[s].kind \in {"task_started", "task_ended"} => outbox[s].task # NULL

TakenPart == \A e \in submitted : db[e[1]] # NULL /\ IsMarked(db[e[1]], e[2])

PartsInv ==
  /\ TypeOK /\ SessionPart /\ Names(cookie) /\ TakenPart
  /\ \A t \in Tabs : ReadPart(t) /\ PagePart(t) /\ PostPart(t)
  /\ \A s \in Sessions : WaitingPart(s)

\* The invariant is the conjunction of its parts.
LEMMA Parts == PublicSessionInv <=> PartsInv
<1>1. TypeOK => \A e \in submitted : e[1] \in Sessions /\ e[2] \in Tasks
  BY DEF TypeOK
<1>2. ASSUME NEW s \in Sessions, NEW k \in Tasks
      PROVE  k \in Marked(s) <=> IsMarked(db[s], k)
  BY DEF Marked, IsMarked
<1>3. ASSUME PublicSessionInv
      PROVE  /\ TypeOK /\ SessionPart /\ Names(cookie) /\ TakenPart
             /\ \A t \in Tabs : ReadPart(t) /\ PagePart(t) /\ PostPart(t)
             /\ \A s \in Sessions : WaitingPart(s)
  <2> USE <1>3 DEF PublicSessionInv
  <2>1. SessionPart
    <3>1. ASSUME NEW s \in Sessions, db[s] # NULL PROVE Good(db[s])
      <4>1. db[s] \in Session
        BY <3>1 DEF TypeOK
      <4>2. Covered(db[s].rows, db[s].ended, db[s].last) /\ Ordered(db[s])
        BY <3>1 DEF NumbersCovered, Ordered
      <4>3. Whole(db[s])
        BY <3>1, <1>2 DEF FeedbackWhole, Whole, KeysOf
      <4>4. QED
        BY <4>1, <4>2, <4>3 DEF Good
    <3>2. QED
      BY <3>1 DEF SessionPart
  <2>2. Names(cookie) /\ TakenPart
    BY <1>1, <1>2 DEF SessionsKnown, FeedbackMarked, TakenPart
  <2>3. ASSUME NEW t \in Tabs PROVE ReadPart(t)
    BY DEF SessionsKnown, NumbersCovered, FeedbackMarked, ReadPart
  <2>4. ASSUME NEW t \in Tabs PROVE PagePart(t) /\ PostPart(t)
    BY DEF SessionsKnown, FeedbackMarked, ActsOnItsSession, PagePart, PostPart
  <2>5. ASSUME NEW s \in Sessions PROVE WaitingPart(s)
    BY DEF SessionsKnown, WaitingPart
  <2>6. QED
    BY <2>1, <2>2, <2>3, <2>4, <2>5
<1>4. ASSUME TypeOK, SessionPart, Names(cookie), TakenPart,
             \A t \in Tabs : ReadPart(t) /\ PagePart(t) /\ PostPart(t),
             \A s \in Sessions : WaitingPart(s)
      PROVE  PublicSessionInv
  <2>1. SessionsKnown
    BY <1>4 DEF SessionsKnown, ReadPart, PagePart, PostPart, WaitingPart
  <2>2. NumbersCovered
    <3>1. ASSUME NEW s \in Sessions, db[s] # NULL
          PROVE  Covered(db[s].rows, db[s].ended, db[s].last) /\ Ordered(db[s])
      BY <1>4, <3>1 DEF SessionPart, Good
    <3>2. QED
      BY <1>4, <3>1 DEF NumbersCovered, Ordered, ReadPart
  <2>3. FeedbackMarked
    BY <1>1, <1>2, <1>4 DEF FeedbackMarked, TakenPart, ReadPart, PagePart
  <2>4. ActsOnItsSession
    BY <1>4 DEF ActsOnItsSession, PagePart
  <2>5. FeedbackWhole
    <3>1. ASSUME NEW s \in Sessions, db[s] # NULL PROVE Whole(db[s])
      BY <1>4, <3>1 DEF SessionPart, Good
    <3>2. QED
      BY <3>1, <1>2 DEF FeedbackWhole, Whole, KeysOf
  <2>6. QED
    BY <1>4, <2>1, <2>2, <2>3, <2>4, <2>5 DEF PublicSessionInv
<1>5. QED
  BY <1>3, <1>4 DEF PartsInv

\* An initial state: nobody entered, nothing was read.
LEMMA InitParts == Init => PartsInv
<1> SUFFICES ASSUME Init PROVE PartsInv
  OBVIOUS
<1> USE PublicSessionAssumption, NullAssumption DEF Init
<1>1. NoTab \in Page /\ NoRead \in Reply
  BY DEF NoTab, NoRead, Page, Reply, Rows, Reading
<1>2. TypeOK
  BY <1>1 DEF TypeOK
<1>3. SessionPart /\ Names(cookie) /\ TakenPart
  BY DEF SessionPart, Names, TakenPart
<1>4. ASSUME NEW t \in Tabs PROVE ReadPart(t) /\ PagePart(t) /\ PostPart(t)
  BY DEF ReadPart, PagePart, PostPart, Names, NoTab, NoRead, Covered
<1>5. \A s \in Sessions : WaitingPart(s)
  BY DEF WaitingPart
<1>6. QED
  BY <1>2, <1>3, <1>4, <1>5 DEF PartsInv

-----------------------------------------------------------------------------
(* Sessions only grow *)

\* Nothing a session has is taken back: its last number, its task sessions,
\* their ends and their marks.
Grown(x, y) ==
  /\ x.last <= y.last
  /\ \A k \in Tasks : x.rows[k] # NULL =>
       /\ y.rows[k] # NULL
       /\ x.rows[k].marked => y.rows[k].marked

DbGrows == \A s \in Sessions : db[s] # NULL => db'[s] # NULL /\ Grown(db[s], db'[s])

LEMMA GrownReflexive ==
  ASSUME NEW x \in Session
  PROVE  Grown(x, x)
BY PublicSessionAssumption DEF Grown, Session

LEMMA UnchangedGrows == TypeOK /\ db' = db => DbGrows
BY GrownReflexive DEF DbGrows, TypeOK

\* A session is written: the others stay as they are.
LEMMA WriteSession ==
  ASSUME TypeOK, SessionPart, NEW i \in Sessions, NEW y, Good(y),
         db' = [db EXCEPT ![i] = y],
         db[i] # NULL => Grown(db[i], y)
  PROVE  db' \in [Sessions -> Session \cup {NULL}] /\ SessionPart' /\ DbGrows
<1>1. y \in Session /\ y # NULL
  BY NullAssumption DEF Good
<1>2. \A s \in Sessions : db'[s] = IF s = i THEN y ELSE db[s]
  BY DEF TypeOK
<1>3. db' \in [Sessions -> Session \cup {NULL}]
  BY <1>1 DEF TypeOK
<1>4. SessionPart'
  BY <1>2 DEF SessionPart
<1>5. DbGrows
  <2>1. ASSUME NEW s \in Sessions, db[s] # NULL
        PROVE  db'[s] # NULL /\ Grown(db[s], db'[s])
    <3>1. CASE s = i
      BY <1>1, <1>2, <3>1, <2>1
    <3>2. CASE s # i
      <4>1. db[s] \in Session
        BY <2>1 DEF TypeOK
      <4>2. QED
        BY <1>2, <2>1, <3>2, <4>1, GrownReflexive
    <3>3. QED
      BY <3>1, <3>2
  <2>2. QED
    BY <2>1 DEF DbGrows
<1>6. QED
  BY <1>3, <1>4, <1>5

-----------------------------------------------------------------------------
(* What a step does not touch keeps its part *)

\* Rows covered by a number are covered by a later one.
LEMMA CoveredLater ==
  ASSUME NEW rows \in Rows, NEW ended \in 0 .. MaxEvents,
         NEW m \in 0 .. MaxEvents, NEW n \in 0 .. MaxEvents, m <= n,
         Covered(rows, ended, m)
  PROVE  Covered(rows, ended, n)
<1>1. ended <= n
  BY PublicSessionAssumption DEF Covered
<1>2. ASSUME NEW k \in Tasks, rows[k] # NULL
      PROVE  rows[k].from <= n /\ rows[k].to <= n
  <2>1. rows[k] \in TaskSession
    BY <1>2 DEF Rows
  <2>2. rows[k].from <= m /\ rows[k].to <= m
    BY <1>2 DEF Covered
  <2>3. QED
    BY <2>1, <2>2, PublicSessionAssumption DEF TaskSession
<1>3. QED
  BY <1>1, <1>2 DEF Covered

LEMMA ReadKept ==
  ASSUME TypeOK, NEW t \in Tabs, ReadPart(t), DbGrows,
         db' \in [Sessions -> Session \cup {NULL}],
         read'[t] = read[t], submitted \subseteq submitted'
  PROVE  ReadPart(t)'
<1>1. read[t] \in Reply
  BY DEF TypeOK
<1>2. Names(read[t].claims)'
  BY <1>1 DEF ReadPart, Names, DbGrows, Reply
<1>3. ASSUME read[t].at \in {"tasks", "sequence"}
      PROVE  Covered(read[t].rows, read[t].ended, db'[read[t].claims].last)
  <2>1. read[t].claims \in Sessions /\ db[read[t].claims] # NULL
    BY <1>1, <1>3 DEF ReadPart, Names, Reply
  <2>2. /\ db[read[t].claims] \in Session /\ db'[read[t].claims] \in Session
        /\ db[read[t].claims].last <= db'[read[t].claims].last
    BY <2>1 DEF TypeOK, DbGrows, Grown
  <2>3. Covered(read[t].rows, read[t].ended, db[read[t].claims].last)
    BY <1>3 DEF ReadPart
  <2>4. QED
    BY <1>1, <2>2, <2>3, CoveredLater DEF Session, Reply
<1>4. QED
  BY <1>2, <1>3 DEF ReadPart

LEMMA PageKept ==
  ASSUME TypeOK, NEW t \in Tabs, PagePart(t), DbGrows, tab'[t] = tab[t]
  PROVE  PagePart(t)'
<1>1. tab[t] \in Page
  BY DEF TypeOK
<1>2. QED
  BY <1>1 DEF PagePart, Names, DbGrows, Page

LEMMA PostKept ==
  ASSUME TypeOK, NEW t \in Tabs, PostPart(t), DbGrows, post'[t] \in {post[t], NULL}
  PROVE  PostPart(t)'
<1>1. post[t] # NULL => post[t].claims \in Sessions
  BY DEF TypeOK, Feedback
<1>2. QED
  BY <1>1, NullAssumption DEF PostPart, Names, DbGrows

LEMMA CookieKept ==
  ASSUME TypeOK, Names(cookie), DbGrows, cookie' \in {cookie, NULL}
  PROVE  Names(cookie)'
BY DEF TypeOK, Names, DbGrows

LEMMA WaitingKept ==
  ASSUME NEW s \in Sessions, WaitingPart(s), outbox'[s] \in {outbox[s], NULL}, db'[s] = db[s]
  PROVE  WaitingPart(s)'
BY DEF WaitingPart

LEMMA TakenKept ==
  ASSUME TypeOK, TakenPart, DbGrows, submitted' = submitted
  PROVE  TakenPart'
<1>1. \A e \in submitted : e[1] \in Sessions /\ e[2] \in Tasks
  BY DEF TypeOK
<1>2. QED
  BY <1>1 DEF TakenPart, DbGrows, Grown, IsMarked

-----------------------------------------------------------------------------
(* A session is created *)

LEMMA NewSessionGood ==
  ASSUME NEW v \in Versions
  PROVE  Good(NewSession(v)) /\ NewSession(v).last < MaxEvents
<1> USE PublicSessionAssumption
<1>1. NewSession(v) \in Session
  BY DEF NewSession, Session, Statuses, Rows
<1>2. Covered(NewSession(v).rows, NewSession(v).ended, NewSession(v).last)
  BY DEF NewSession, Covered
<1>3. Ordered(NewSession(v)) /\ Whole(NewSession(v))
  BY DEF NewSession, Ordered, Whole, KeysOf, IsMarked
<1>4. QED
  BY <1>1, <1>2, <1>3 DEF Good, NewSession

-----------------------------------------------------------------------------
(* An event is recorded *)

\* A task session started or ended by the next event: what was there of it
\* stays, and what is new has the number of the event.
LEMMA RowRecorded ==
  ASSUME NEW x \in Session, x.last < MaxEvents, NEW k \in Tasks,
         Covered(x.rows, x.ended, x.last), Ordered(x),
         NEW r \in {StartedOnce(x, k), EndedFirst(x, k)}
  PROVE  /\ r \in TaskSession \cup {NULL}
         /\ r # NULL =>
              /\ r.from <= x.last + 1 /\ r.to <= x.last + 1
              /\ r.to # 0 => r.from < r.to
              /\ r.marked => x.rows[k] # NULL /\ x.rows[k].marked
         /\ x.rows[k] # NULL =>
              /\ r # NULL
              /\ x.rows[k].marked => r.marked
              /\ x.rows[k].to # 0 => r.to # 0
<1> USE PublicSessionAssumption, NullAssumption
<1>1. x.last \in 0 .. MaxEvents /\ x.rows[k] \in TaskSession \cup {NULL}
  BY DEF Session, Rows
<1>2. x.rows[k] # NULL =>
        /\ x.rows[k].from <= x.last /\ x.rows[k].to <= x.last
        /\ x.rows[k].to # 0 => x.rows[k].from < x.rows[k].to
  BY DEF Covered, Ordered
<1>3. CASE x.rows[k] = NULL
  <2>1. r = NULL \/ r = [from |-> x.last + 1, to |-> 0, marked |-> FALSE]
    BY <1>3 DEF StartedOnce, EndedFirst
  <2>2. CASE r = NULL
    BY <1>3, <2>2
  <2>3. CASE r = [from |-> x.last + 1, to |-> 0, marked |-> FALSE]
    <3>1. r \in TaskSession
      BY <1>1, <2>3 DEF TaskSession
    <3>2. r.from = x.last + 1 /\ r.to = 0 /\ r.marked = FALSE
      BY <2>3
    <3>3. QED
      BY <1>1, <1>3, <3>1, <3>2
  <2>4. QED
    BY <2>1, <2>2, <2>3
<1>4. CASE x.rows[k] # NULL /\ r = x.rows[k]
  BY <1>1, <1>2, <1>4 DEF TaskSession
<1>5. CASE x.rows[k] # NULL /\ r # x.rows[k]
  <2>1. x.rows[k].to = 0 /\ r = [x.rows[k] EXCEPT !.to = x.last + 1]
    BY <1>5 DEF StartedOnce, EndedFirst
  <2>2. /\ r \in TaskSession
        /\ r.from = x.rows[k].from /\ r.to = x.last + 1 /\ r.marked = x.rows[k].marked
    BY <1>1, <1>5, <2>1 DEF TaskSession
  <2>3. QED
    BY <1>1, <1>2, <1>5, <2>1, <2>2 DEF TaskSession
<1>6. QED
  BY <1>3, <1>4, <1>5

\* The fields of a session after an event.
LEMMA RecordedFields ==
  ASSUME NEW x \in Session, NEW e \in Event,
         e.kind \in {"task_started", "task_ended"} => e.task \in Tasks
  PROVE  LET y == Recorded(x, e) IN
         /\ DOMAIN y = DOMAIN x
         /\ y = [version |-> y.version, status |-> y.status, last |-> y.last,
                 ended |-> y.ended, rows |-> y.rows, answers |-> y.answers]
         /\ y.version = x.version /\ y.answers = x.answers /\ y.last = x.last + 1
         /\ y.status \in Statuses /\ y.ended \in {x.ended, x.last + 1}
         /\ \/ y.rows = x.rows
            \/ \E r \in {StartedOnce(x, e.task), EndedFirst(x, e.task)} :
                 e.task \in Tasks /\ y.rows = [x.rows EXCEPT ![e.task] = r]
<1> DEFINE n == [x EXCEPT !.last = x.last + 1]
<1>1. /\ n = [version |-> x.version, status |-> x.status, last |-> x.last + 1,
              ended |-> x.ended, rows |-> x.rows, answers |-> x.answers]
      /\ x.status \in Statuses
  BY DEF Session
<1>2. CASE e.kind = "task_started"
  <2>1. Recorded(x, e) = [n EXCEPT !.rows = [n.rows EXCEPT ![e.task] = StartedOnce(x, e.task)]]
    BY <1>2 DEF Recorded
  <2>2. QED
    BY <1>1, <1>2, <2>1 DEF Session
<1>3. CASE e.kind = "task_ended"
  <2>1. Recorded(x, e) = [n EXCEPT !.rows = [n.rows EXCEPT ![e.task] = EndedFirst(x, e.task)]]
    BY <1>3 DEF Recorded
  <2>2. QED
    BY <1>1, <1>3, <2>1 DEF Session
<1>4. CASE e.kind = "session_completed" /\ x.status = "active"
  <2>1. Recorded(x, e) = [[n EXCEPT !.status = "completed"] EXCEPT !.ended = x.last + 1]
    BY <1>4 DEF Recorded
  <2>2. QED
    BY <1>1, <2>1 DEF Session, Statuses
<1>5. CASE /\ e.kind \notin {"task_started", "task_ended"}
           /\ ~(e.kind = "session_completed" /\ x.status = "active")
  <2>1. Recorded(x, e) = n
    BY <1>5 DEF Recorded
  <2>2. QED
    BY <1>1, <2>1 DEF Session
<1>6. QED
  BY <1>2, <1>3, <1>4, <1>5

\* An event recorded leaves the session good, and takes nothing back.
LEMMA RecordedGood ==
  ASSUME NEW x, Good(x), x.last < MaxEvents, NEW e \in Event,
         e.kind \in {"task_started", "task_ended"} => e.task # NULL
  PROVE  Good(Recorded(x, e)) /\ Grown(x, Recorded(x, e))
<1> USE PublicSessionAssumption, NullAssumption
<1> DEFINE y == Recorded(x, e)
<1> HIDE DEF y
<1>1. /\ x \in Session /\ Covered(x.rows, x.ended, x.last) /\ Ordered(x) /\ Whole(x)
      /\ x.last \in Nat /\ x.ended \in 0 .. MaxEvents /\ x.rows \in Rows
  BY DEF Good, Session
<1>2. /\ y = [version |-> y.version, status |-> y.status, last |-> y.last,
              ended |-> y.ended, rows |-> y.rows, answers |-> y.answers]
      /\ y.version = x.version /\ y.answers = x.answers /\ y.last = x.last + 1
      /\ y.status \in Statuses /\ y.ended \in {x.ended, x.last + 1}
      /\ \/ y.rows = x.rows
         \/ \E r \in {StartedOnce(x, e.task), EndedFirst(x, e.task)} :
              e.task \in Tasks /\ y.rows = [x.rows EXCEPT ![e.task] = r]
  BY <1>1, RecordedFields DEF y, Event
<1>3. ASSUME NEW k \in Tasks
      PROVE  /\ y.rows[k] \in TaskSession \cup {NULL}
             /\ y.rows[k] # NULL =>
                  /\ y.rows[k].from <= x.last + 1 /\ y.rows[k].to <= x.last + 1
                  /\ y.rows[k].to # 0 => y.rows[k].from < y.rows[k].to
                  /\ y.rows[k].marked => x.rows[k] # NULL /\ x.rows[k].marked
             /\ x.rows[k] # NULL =>
                  /\ y.rows[k] # NULL
                  /\ x.rows[k].marked => y.rows[k].marked
                  /\ x.rows[k].to # 0 => y.rows[k].to # 0
  <2>1. CASE y.rows[k] = x.rows[k]
    <3>1. x.rows[k] # NULL => x.rows[k].from <= x.last /\ x.rows[k].to <= x.last
      BY <1>1 DEF Covered
    <3>2. x.rows[k] # NULL /\ x.rows[k].to # 0 => x.rows[k].from < x.rows[k].to
      BY <1>1 DEF Ordered
    <3>3. x.rows[k] \in TaskSession \cup {NULL}
      BY <1>1 DEF Rows
    <3>4. QED
      BY <1>1, <2>1, <3>1, <3>2, <3>3 DEF TaskSession
  <2>2. CASE y.rows[k] \in {StartedOnce(x, k), EndedFirst(x, k)}
    BY <1>1, <2>2, RowRecorded
  <2>3. QED
    BY <1>1, <1>2, <2>1, <2>2 DEF Rows
<1>4. y.rows \in Rows
  <2>1. y.rows = [k \in Tasks |-> y.rows[k]]
    BY <1>1, <1>2 DEF Rows
  <2>2. QED
    BY <1>3, <2>1 DEF Rows
<1>5. y \in Session
  BY <1>1, <1>2, <1>4 DEF Session
<1>6. Covered(y.rows, y.ended, y.last)
  <2>1. x.ended <= x.last
    BY <1>1 DEF Covered
  <2>2. y.ended <= y.last
    BY <1>1, <1>2, <2>1
  <2>3. QED
    BY <1>2, <1>3, <2>2 DEF Covered
<1>7. Ordered(y)
  BY <1>3 DEF Ordered
<1>8. Whole(y)
  <2>1. ASSUME NEW k \in Tasks
        PROVE  KeysOf(y, k) = KeysOf(x, k) /\ (IsMarked(y, k) <=> IsMarked(x, k))
    BY <1>2, <1>3 DEF KeysOf, IsMarked
  <2>2. ASSUME NEW k \in Tasks, IsMarked(x, k), x.rows[k].to # 0 PROVE y.rows[k].to # 0
    BY <1>3, <2>2 DEF IsMarked
  <2>3. QED
    BY <1>1, <2>1, <2>2 DEF Whole
<1>9. Grown(x, y)
  BY <1>1, <1>2, <1>3 DEF Grown
<1>10. QED
  BY <1>5, <1>6, <1>7, <1>8, <1>9 DEF Good, y

-----------------------------------------------------------------------------
(* Feedback is saved *)

\* What save_post_task_feedback does to the fields of a session.
LEMMA SavedFields ==
  ASSUME NEW x \in Session, NEW p \in Feedback, x.rows[p.task] \in TaskSession
  PROVE  LET y == Saved(x, p) IN
         /\ y \in Session
         /\ y.last = x.last /\ y.ended = x.ended
         /\ y.rows = [x.rows EXCEPT ![p.task] = [x.rows[p.task] EXCEPT !.marked = TRUE]]
         /\ \A k \in Tasks : KeysOf(y, k) =
              IF k = p.task THEN KeysOf(x, k) \cup p.keys ELSE KeysOf(x, k)
<1> DEFINE row == [x.rows[p.task] EXCEPT !.marked = TRUE]
           rest == {a \in x.answers : a.task # p.task \/ a.key \notin p.keys}
           new == {[task |-> p.task, key |-> q, by |-> p.by] : q \in p.keys}
           y == [[x EXCEPT !.answers = rest \cup new]
                  EXCEPT !.rows = [x.rows EXCEPT ![p.task] = row]]
<1>1. p.task \in Tasks /\ p.keys \subseteq Questions /\ p.by \in Sessions
  BY DEF Feedback
<1>2. row \in TaskSession
  BY DEF TaskSession
<1>3. rest \in SUBSET Answer /\ new \in SUBSET Answer
  <2>1. x.answers \in SUBSET Answer
    BY DEF Session
  <2>2. \A q \in p.keys : [task |-> p.task, key |-> q, by |-> p.by] \in Answer
    BY <1>1 DEF Answer
  <2>3. QED
    BY <2>1, <2>2
<1>4. [x.rows EXCEPT ![p.task] = row] \in Rows
  BY <1>1, <1>2 DEF Session, Rows
<1>5. Saved(x, p) = y
  <2>1. (x.rows[p.task].marked \/ Marks(p.keys)) = TRUE
    BY DEF Marks
  <2>2. QED
    BY <2>1 DEF Saved
<1>6. /\ y \in Session /\ y.last = x.last /\ y.ended = x.ended
      /\ y.rows = [x.rows EXCEPT ![p.task] = row] /\ y.answers = rest \cup new
  <2> HIDE DEF rest, new, row
  <2>1. rest \cup new \in SUBSET Answer
    BY <1>3
  <2>2. QED
    BY <1>4, <2>1 DEF Session
<1>7. ASSUME NEW k \in Tasks
      PROVE  KeysOf(y, k) = IF k = p.task THEN KeysOf(x, k) \cup p.keys ELSE KeysOf(x, k)
  <2>1. \A z : z \in KeysOf(y, k) <=> \E a \in rest \cup new : a.task = k /\ a.key = z
    BY <1>6 DEF KeysOf
  <2>2. \A z : z \in KeysOf(x, k) <=> \E a \in x.answers : a.task = k /\ a.key = z
    BY DEF KeysOf
  <2>3. \A z : (\E a \in new : a.task = k /\ a.key = z) <=> k = p.task /\ z \in p.keys
    <3>1. ASSUME NEW z, NEW a \in new, a.task = k, a.key = z
          PROVE  k = p.task /\ z \in p.keys
      <4>1. PICK q \in p.keys : a = [task |-> p.task, key |-> q, by |-> p.by]
        OBVIOUS
      <4>2. QED
        BY <3>1, <4>1
    <3>2. ASSUME NEW z \in p.keys, k = p.task
          PROVE  \E a \in new : a.task = k /\ a.key = z
      <4>1. [task |-> p.task, key |-> z, by |-> p.by] \in new
        OBVIOUS
      <4>2. QED
        BY <3>2, <4>1
    <3> HIDE DEF new
    <3>3. QED
      BY <3>1, <3>2
  <2>4. \A z : (\E a \in rest : a.task = k /\ a.key = z)
               <=> z \in KeysOf(x, k) /\ (k # p.task \/ z \notin p.keys)
    BY <2>2
  <2>5. \A z : z \in KeysOf(y, k)
               <=> (z \in KeysOf(x, k) /\ (k # p.task \/ z \notin p.keys))
                   \/ (k = p.task /\ z \in p.keys)
    BY <2>1, <2>3, <2>4
  <2> HIDE DEF y
  <2>6. QED
    BY <2>5
<1> HIDE DEF y
<1>8. QED
  BY <1>5, <1>6, <1>7

\* Feedback that is saved leaves the session good, and its task marked.
LEMMA SavedGood ==
  ASSUME NEW x, Good(x), NEW p \in Feedback, MaySave(x, p.task, p.keys)
  PROVE  /\ Good(Saved(x, p)) /\ Grown(x, Saved(x, p)) /\ IsMarked(Saved(x, p), p.task)
         /\ Saved(x, p).last = x.last
<1> USE PublicSessionAssumption, NullAssumption
<1> DEFINE y == Saved(x, p)
<1> HIDE DEF y
<1>1. /\ x \in Session /\ Covered(x.rows, x.ended, x.last) /\ Ordered(x) /\ Whole(x)
      /\ x.last \in Nat /\ x.rows \in Rows /\ p.task \in Tasks
  BY DEF Good, Session, Feedback
<1>2. /\ x.rows[p.task] \in TaskSession /\ x.rows[p.task].to # 0
      /\ Required[p.task] \subseteq p.keys
  BY <1>1 DEF MaySave, Rows
<1>3. /\ y \in Session /\ y.last = x.last /\ y.ended = x.ended
      /\ y.rows = [x.rows EXCEPT ![p.task] = [x.rows[p.task] EXCEPT !.marked = TRUE]]
      /\ \A k \in Tasks : KeysOf(y, k) =
           IF k = p.task THEN KeysOf(x, k) \cup p.keys ELSE KeysOf(x, k)
  BY <1>1, <1>2, SavedFields DEF y
<1>4. ASSUME NEW k \in Tasks
      PROVE  /\ y.rows[k] # NULL <=> x.rows[k] # NULL
             /\ y.rows[k] # NULL => /\ y.rows[k].from = x.rows[k].from
                                    /\ y.rows[k].to = x.rows[k].to
             /\ IF k = p.task THEN IsMarked(y, k) ELSE y.rows[k] = x.rows[k]
  <2>1. CASE k = p.task
    <3>1. y.rows[k] = [x.rows[k] EXCEPT !.marked = TRUE] /\ x.rows[k] \in TaskSession
      BY <1>1, <1>2, <1>3, <2>1 DEF Rows
    <3>2. y.rows[k] \in TaskSession
      BY <3>1 DEF TaskSession
    <3>3. /\ y.rows[k].from = x.rows[k].from /\ y.rows[k].to = x.rows[k].to
          /\ y.rows[k].marked = TRUE
      BY <3>1 DEF TaskSession
    <3>4. QED
      BY <2>1, <3>1, <3>2, <3>3 DEF IsMarked
  <2>2. CASE k # p.task
    BY <1>1, <1>3, <2>2 DEF Rows
  <2>3. QED
    BY <2>1, <2>2
<1>5. Covered(y.rows, y.ended, y.last)
  BY <1>1, <1>3, <1>4 DEF Covered
<1>6. Ordered(y)
  BY <1>1, <1>4 DEF Ordered
<1>7. Whole(y)
  <2>1. ASSUME NEW k \in Tasks, KeysOf(y, k) # {} \/ IsMarked(y, k)
        PROVE  IsMarked(y, k) /\ y.rows[k].to # 0 /\ Required[k] \subseteq KeysOf(y, k)
    <3>1. CASE k = p.task
      BY <1>2, <1>3, <1>4, <3>1 DEF IsMarked
    <3>2. CASE k # p.task
      BY <1>1, <1>3, <1>4, <2>1, <3>2 DEF Whole, IsMarked
    <3>3. QED
      BY <3>1, <3>2
  <2>2. QED
    BY <2>1 DEF Whole
<1>8. Grown(x, y)
  BY <1>1, <1>3, <1>4 DEF Grown, IsMarked
<1>9. QED
  BY <1>1, <1>3, <1>4, <1>5, <1>6, <1>7, <1>8 DEF Good, y

-----------------------------------------------------------------------------
(* The steps *)

\* A step that leaves the sessions, the waiting events and the feedback that
\* was taken alone, and sends no feedback.
LEMMA SessionsLeftAlone ==
  ASSUME PartsInv, db' = db, outbox' = outbox, submitted' = submitted, cookie' \in {cookie, NULL},
         \A t \in Tabs : post'[t] \in {post[t], NULL}
  PROVE  /\ SessionPart' /\ Names(cookie)' /\ TakenPart' /\ DbGrows
         /\ \A t \in Tabs : PostPart(t)'
         /\ \A t \in Tabs : tab'[t] = tab[t] => PagePart(t)'
         /\ \A t \in Tabs : read'[t] = read[t] => ReadPart(t)'
         /\ \A s \in Sessions : WaitingPart(s)'
<1> USE DEF PartsInv
<1>1. DbGrows /\ db' \in [Sessions -> Session \cup {NULL}]
  BY UnchangedGrows DEF TypeOK
<1>2. SessionPart'
  BY DEF SessionPart
<1>3. Names(cookie)' /\ TakenPart'
  BY <1>1, CookieKept, TakenKept
<1>4. \A t \in Tabs : PostPart(t)'
  BY <1>1, PostKept
<1>5. \A t \in Tabs : tab'[t] = tab[t] => PagePart(t)'
  BY <1>1, PageKept
<1>6. \A t \in Tabs : read'[t] = read[t] => ReadPart(t)'
  BY <1>1, ReadKept
<1>7. \A s \in Sessions : WaitingPart(s)'
  BY WaitingKept
<1>8. QED
  BY <1>1, <1>2, <1>3, <1>4, <1>5, <1>6, <1>7

LEMMA PublishStep ==
  ASSUME PartsInv, NEW v \in Versions, Publish(v) \/ Archive(v)
  PROVE  PartsInv'
<1>1. TypeOK'
  BY DEF PartsInv, TypeOK, Publish, Archive
<1>2. QED
  BY <1>1, SessionsLeftAlone DEF PartsInv, Publish, Archive

LEMMA StutterStep == PartsInv /\ UNCHANGED vars => PartsInv'
<1> SUFFICES ASSUME PartsInv, UNCHANGED vars PROVE PartsInv'
  OBVIOUS
<1>1. TypeOK'
  BY DEF PartsInv, TypeOK, vars
<1>2. QED
  BY <1>1, SessionsLeftAlone DEF PartsInv, vars

LEMMA ProofExpiresStep ==
  ASSUME PartsInv, ProofExpires
  PROVE  PartsInv'
<1>1. TypeOK'
  BY DEF PartsInv, TypeOK, ProofExpires
<1>2. QED
  BY <1>1, SessionsLeftAlone DEF PartsInv, ProofExpires

LEMMA LoadStep ==
  ASSUME PartsInv, NEW t \in Tabs, Load(t)
  PROVE  PartsInv'
<1> USE PublicSessionAssumption
<1>1. tab' = [tab EXCEPT ![t] = [NoTab EXCEPT !.at = "loading"]] /\ read' = [read EXCEPT ![t] = NoRead]
  BY DEF Load
<1>2. [NoTab EXCEPT !.at = "loading"] \in Page /\ NoRead \in Reply
  <2>1. [NoTab EXCEPT !.at = "loading"] \in Page
    BY DEF NoTab, Page
  <2>2. NoRead \in Reply
    BY DEF NoRead, Reply, Rows, Reading
  <2>3. QED
    BY <2>1, <2>2
<1>3. TypeOK'
  BY <1>1, <1>2 DEF Load, PartsInv, TypeOK
<1>4. ReadPart(t)' /\ PagePart(t)'
  <2>1. read'[t] = NoRead /\ tab'[t] = [NoTab EXCEPT !.at = "loading"]
    BY <1>1 DEF PartsInv, TypeOK
  <2>2. ReadPart(t)'
    BY <2>1 DEF ReadPart, Names, NoRead, Covered
  <2>3. PagePart(t)'
    BY <2>1 DEF PagePart, Names, NoTab
  <2>4. QED
    BY <2>2, <2>3
<1>5. \A u \in Tabs \ {t} : read'[u] = read[u] /\ tab'[u] = tab[u]
  BY <1>1 DEF PartsInv, TypeOK
<1>6. QED
  BY <1>3, <1>4, <1>5, SessionsLeftAlone DEF PartsInv, Load

LEMMA AcceptStep ==
  ASSUME PartsInv, NEW t \in Tabs, Accept(t)
  PROVE  PartsInv'
<1>1. tab' = [tab EXCEPT ![t].at = "entering"]
  BY DEF Accept
<1>2. TypeOK'
  BY <1>1 DEF Accept, PartsInv, TypeOK, Page
<1>3. PagePart(t)'
  <2>1. tab[t] \in Page /\ tab'[t] = [tab[t] EXCEPT !.at = "entering"]
    BY <1>1 DEF PartsInv, TypeOK
  <2>2. PagePart(t) /\ db' = db
    BY DEF PartsInv, Accept
  <2>3. QED
    BY <2>1, <2>2 DEF PagePart, Names, Page
<1>4. \A u \in Tabs \ {t} : tab'[u] = tab[u]
  BY <1>1 DEF PartsInv, TypeOK
<1>5. QED
  BY <1>2, <1>3, <1>4, SessionsLeftAlone DEF PartsInv, Accept

\* The page a tab is at after it entered.
Entered(s) == [NoTab EXCEPT !.at = "on", !.session = s, !.initial = TRUE]

LEMMA EnteredIsPage ==
  ASSUME NEW s \in Sessions
  PROVE  /\ Entered(s) \in Page /\ Entered(s).at = "on"
         /\ Entered(s).session = s /\ Entered(s).view = NULL
BY DEF Entered, NoTab, Page

LEMMA EnterStep ==
  ASSUME PartsInv, NEW t \in Tabs, Enter(t)
  PROVE  PartsInv'
<1> USE PublicSessionAssumption, NullAssumption
<1>1. /\ TypeOK /\ SessionPart /\ Names(cookie) /\ TakenPart
      /\ \A u \in Tabs : ReadPart(u) /\ PagePart(u) /\ PostPart(u)
      /\ \A i \in Sessions : WaitingPart(i)
  BY DEF PartsInv
<1>2. /\ lifecycle' = lifecycle /\ read' = read /\ post' = post /\ submitted' = submitted
      /\ loads' = loads /\ reads' = reads
  BY DEF Enter
<1>3. ASSUME tab' = [tab EXCEPT ![t].at = "technical"], DbGrows
      PROVE  tab' \in [Tabs -> Page] /\ \A u \in Tabs : PagePart(u)'
  <2>1. tab[t] \in Page /\ tab'[t] = [tab[t] EXCEPT !.at = "technical"]
    BY <1>1, <1>3 DEF TypeOK
  <2>2. /\ tab'[t] \in Page /\ tab'[t].at = "technical"
        /\ tab'[t].session = tab[t].session /\ tab'[t].view = tab[t].view
    BY <2>1 DEF Page
  <2>3. tab' \in [Tabs -> Page]
    BY <1>1, <1>3, <2>2 DEF TypeOK
  <2>4. PagePart(t)'
    BY <1>1, <1>3, <2>1, <2>2 DEF PagePart, Names, DbGrows, Page
  <2>5. ASSUME NEW u \in Tabs, u # t PROVE PagePart(u)'
    <3>1. tab'[u] = tab[u]
      BY <1>1, <1>3, <2>5 DEF TypeOK
    <3>2. QED
      BY <1>1, <1>3, <3>1, PageKept
  <2>6. QED
    BY <2>3, <2>4, <2>5
<1>4. ASSUME NEW s \in Sessions, db[s] = NULL, db' = [db EXCEPT ![s] = NewSession(LinkOf[t])]
      PROVE  /\ db' \in [Sessions -> Session \cup {NULL}] /\ SessionPart' /\ DbGrows
             /\ db'[s] # NULL /\ db'[s].last < MaxEvents
             /\ \A i \in Sessions \ {s} : db'[i] = db[i]
             /\ outbox[s] = NULL
  <2>1. LinkOf[t] \in Versions
    OBVIOUS
  <2>2. Good(NewSession(LinkOf[t])) /\ NewSession(LinkOf[t]).last < MaxEvents
    BY <2>1, NewSessionGood
  <2>3. db' \in [Sessions -> Session \cup {NULL}] /\ SessionPart' /\ DbGrows
    BY <1>1, <1>4, <2>2, WriteSession
  <2>4. NewSession(LinkOf[t]) # NULL
    BY <2>2 DEF Good
  <2>5. outbox[s] = NULL
    BY <1>1, <1>4 DEF WaitingPart
  <2>6. QED
    BY <1>1, <1>4, <2>2, <2>3, <2>4, <2>5 DEF TypeOK
<1>5. CASE \E s \in {i \in Sessions : db[i] = NULL} :
             /\ db' = [db EXCEPT ![s] = NewSession(LinkOf[t])] /\ refused' = refused
             /\ cookie' = s /\ tab' = [tab EXCEPT ![t] = Entered(s)]
             /\ outbox' = [outbox EXCEPT ![s] = [kind |-> "session_started", task |-> NULL]]
  <2>1. PICK s \in Sessions :
             /\ db[s] = NULL
             /\ db' = [db EXCEPT ![s] = NewSession(LinkOf[t])] /\ refused' = refused
             /\ cookie' = s /\ tab' = [tab EXCEPT ![t] = Entered(s)]
             /\ outbox' = [outbox EXCEPT ![s] = [kind |-> "session_started", task |-> NULL]]
    BY <1>5
  <2>2. /\ db' \in [Sessions -> Session \cup {NULL}] /\ SessionPart' /\ DbGrows
        /\ db'[s] # NULL /\ db'[s].last < MaxEvents
        /\ \A i \in Sessions \ {s} : db'[i] = db[i]
    BY <2>1, <1>4
  <2>3. [kind |-> "session_started", task |-> NULL] \in Event
    BY DEF Event
  <2>4. TypeOK'
    BY <1>1, <1>2, <2>1, <2>2, <2>3, EnteredIsPage DEF TypeOK
  <2>5. ASSUME NEW u \in Tabs PROVE PagePart(u)'
    <3>1. CASE u = t
      <4>1. tab'[u] = Entered(s)
        BY <1>1, <2>1, <3>1 DEF TypeOK
      <4>2. QED
        BY <2>2, <4>1, EnteredIsPage DEF PagePart, Names
    <3>2. CASE u # t
      BY <1>1, <2>1, <2>2, <3>2, PageKept DEF TypeOK
    <3>3. QED
      BY <3>1, <3>2
  <2>6. ASSUME NEW i \in Sessions PROVE WaitingPart(i)'
    <3>1. CASE i = s
      <4>1. outbox'[i] = [kind |-> "session_started", task |-> NULL]
        BY <1>1, <2>1, <3>1 DEF TypeOK
      <4>2. QED
        BY <2>2, <3>1, <4>1 DEF WaitingPart
    <3>2. CASE i # s
      BY <1>1, <2>1, <2>2, <3>2, WaitingKept DEF TypeOK
    <3>3. QED
      BY <3>1, <3>2
  <2>7. Names(cookie)'
    BY <2>1, <2>2 DEF Names
  <2>8. TakenPart' /\ \A u \in Tabs : ReadPart(u)' /\ PostPart(u)'
    BY <1>1, <1>2, <2>2, TakenKept, ReadKept, PostKept
  <2>9. QED
    BY <2>2, <2>4, <2>5, <2>6, <2>7, <2>8 DEF PartsInv
<1>6. CASE /\ cookie' = cookie /\ outbox' = outbox /\ refused' = refused
           /\ tab' = [tab EXCEPT ![t].at = "technical"]
           /\ \E s \in {i \in Sessions : db[i] = NULL} :
                db' = [db EXCEPT ![s] = NewSession(LinkOf[t])]
  <2>1. PICK s \in Sessions : db[s] = NULL /\ db' = [db EXCEPT ![s] = NewSession(LinkOf[t])]
    BY <1>6
  <2>2. /\ db' \in [Sessions -> Session \cup {NULL}] /\ SessionPart' /\ DbGrows
        /\ \A i \in Sessions \ {s} : db'[i] = db[i]
        /\ outbox[s] = NULL
    BY <2>1, <1>4
  <2>3. TypeOK' /\ \A u \in Tabs : PagePart(u)'
    BY <1>1, <1>2, <1>3, <1>6, <2>2 DEF TypeOK
  <2>4. ASSUME NEW i \in Sessions PROVE WaitingPart(i)'
    BY <1>1, <1>6, <2>2 DEF WaitingPart
  <2>5. Names(cookie)' /\ TakenPart' /\ \A u \in Tabs : ReadPart(u)' /\ PostPart(u)'
    BY <1>1, <1>2, <1>6, <2>2, CookieKept, TakenKept, ReadKept, PostKept
  <2>6. QED
    BY <2>2, <2>3, <2>4, <2>5 DEF PartsInv
<1>7. CASE /\ UNCHANGED <<db, cookie, outbox>> /\ refused' \in {refused, refused \cup {t}}
           /\ tab' = [tab EXCEPT ![t].at = "technical"]
  <2>1. DbGrows
    BY <1>1, <1>7, UnchangedGrows
  <2>2. TypeOK' /\ \A u \in Tabs : PagePart(u)'
    BY <1>1, <1>2, <1>3, <1>7, <2>1 DEF TypeOK
  <2>3. QED
    BY <1>2, <1>7, <2>2, SessionsLeftAlone DEF PartsInv
<1>8. QED
  BY <1>5, <1>6, <1>7 DEF Enter, Entered

\* A tab that is on has a session there is.
LEMMA OnHasSession ==
  ASSUME TypeOK, SessionPart, NEW t \in Tabs, PagePart(t), tab[t].at = "on"
  PROVE  /\ tab[t].session \in Sessions
         /\ db[tab[t].session] # NULL /\ Good(db[tab[t].session])
<1>1. tab[t] \in Page
  BY DEF TypeOK
<1>2. QED
  BY <1>1 DEF PagePart, Names, SessionPart, Page

\* A page that only changes its task, its initial token or its credential keeps
\* its part.
LEMMA PageMinorChange ==
  ASSUME TypeOK, NEW t \in Tabs, PagePart(t), DbGrows,
         tab'[t].at = tab[t].at, tab'[t].session = tab[t].session, tab'[t].view = tab[t].view
  PROVE  PagePart(t)'
<1>1. tab[t] \in Page
  BY DEF TypeOK
<1>2. QED
  BY <1>1 DEF PagePart, Names, DbGrows, Page

LEMMA EmitStep ==
  ASSUME PartsInv, NEW t \in Tabs, NEW e \in Event, Emit(t, e)
  PROVE  PartsInv'
<1> USE PublicSessionAssumption, NullAssumption
<1> DEFINE s == tab[t].session
           a == IF e.kind = "task_started" THEN e.task ELSE NULL
<1>1. /\ TypeOK /\ SessionPart /\ Names(cookie) /\ TakenPart
      /\ \A u \in Tabs : ReadPart(u) /\ PagePart(u) /\ PostPart(u)
      /\ \A i \in Sessions : WaitingPart(i)
  BY DEF PartsInv
<1>2. /\ UNCHANGED <<lifecycle, db, cookie, read, post, submitted, refused, loads, reads>>
      /\ tab[t].at = "on" /\ db[s].last < MaxEvents
      /\ outbox' = [outbox EXCEPT ![s] = e]
      /\ tab' = [tab EXCEPT ![t].active = a]
  BY DEF Emit
<1>3. s \in Sessions /\ db[s] # NULL
  BY <1>1, <1>2, OnHasSession
<1>4. e.kind \in {"task_started", "task_ended"} => e.task # NULL
  BY DEF Emit, MayEmit
<1>5. a \in Tasks \cup {NULL}
  BY DEF Event
<1>6. /\ tab'[t] = [tab[t] EXCEPT !.active = a] /\ tab[t] \in Page
      /\ \A u \in Tabs \ {t} : tab'[u] = tab[u]
  BY <1>1, <1>2 DEF TypeOK
<1>7. /\ tab'[t] \in Page /\ tab'[t].at = tab[t].at /\ tab'[t].session = tab[t].session
      /\ tab'[t].view = tab[t].view
  <2> HIDE DEF a
  <2>1. QED
    BY <1>5, <1>6 DEF Page
<1>8. TypeOK'
  <2> HIDE DEF s, a
  <2>1. tab' \in [Tabs -> Page] /\ outbox' \in [Sessions -> Event \cup {NULL}]
    BY <1>1, <1>2, <1>3, <1>6, <1>7 DEF TypeOK
  <2>2. QED
    BY <1>1, <1>2, <2>1 DEF TypeOK
<1>9. DbGrows
  BY <1>1, <1>2, UnchangedGrows
<1>10. ASSUME NEW u \in Tabs PROVE ReadPart(u)' /\ PagePart(u)' /\ PostPart(u)'
  <2>1. ReadPart(u)' /\ PostPart(u)'
    BY <1>1, <1>2, <1>9, ReadKept, PostKept DEF TypeOK
  <2>2. PagePart(u)'
    BY <1>1, <1>6, <1>7, <1>9, PageKept, PageMinorChange
  <2>3. QED
    BY <2>1, <2>2
<1>11. ASSUME NEW i \in Sessions PROVE WaitingPart(i)'
  <2>1. CASE i = s
    <3>1. outbox'[i] = e
      BY <1>1, <1>2, <2>1 DEF TypeOK
    <3>2. QED
      BY <1>2, <1>3, <1>4, <2>1, <3>1 DEF WaitingPart
  <2>2. CASE i # s
    BY <1>1, <1>2, <2>2, WaitingKept DEF TypeOK
  <2>3. QED
    BY <2>1, <2>2
<1>12. SessionPart' /\ Names(cookie)' /\ TakenPart'
  BY <1>1, <1>2, <1>9, CookieKept, TakenKept DEF SessionPart
<1>13. QED
  BY <1>8, <1>10, <1>11, <1>12 DEF PartsInv

LEMMA RefreshStep ==
  ASSUME PartsInv, NEW t \in Tabs, Refresh(t)
  PROVE  PartsInv'
<1>1. /\ TypeOK /\ SessionPart /\ \A u \in Tabs : PagePart(u)
      /\ UNCHANGED <<lifecycle, db, cookie, outbox, read, post, submitted, refused, loads, reads>>
      /\ tab[t].at = "on" /\ DbGrows
  BY UnchangedGrows DEF PartsInv, Refresh
<1>2. PICK b \in BOOLEAN, c \in Sessions :
        tab' = [tab EXCEPT ![t].initial = b, ![t].credential = c]
  <2>1. tab[t] \in Page /\ tab[t].session \in Sessions
    BY <1>1, OnHasSession DEF TypeOK
  <2>2. CASE tab' = [tab EXCEPT ![t].initial = FALSE, ![t].credential = tab[t].session]
    BY <2>1, <2>2
  <2>3. CASE cookie # NULL /\ tab' = [tab EXCEPT ![t].credential = cookie]
    <3>1. [tab[t] EXCEPT !.credential = cookie]
             = [[tab[t] EXCEPT !.initial = tab[t].initial] EXCEPT !.credential = cookie]
      BY <2>1 DEF Page
    <3>2. tab' = [tab EXCEPT ![t].initial = tab[t].initial, ![t].credential = cookie]
      BY <1>1, <2>3, <3>1 DEF TypeOK
    <3>3. tab[t].initial \in BOOLEAN /\ cookie \in Sessions
      BY <1>1, <2>1, <2>3 DEF TypeOK, Page
    <3>4. QED
      BY <3>2, <3>3
  <2>4. QED
    BY <2>2, <2>3 DEF Refresh
<1>3. /\ tab'[t] = [[tab[t] EXCEPT !.initial = b] EXCEPT !.credential = c] /\ tab[t] \in Page
      /\ \A u \in Tabs \ {t} : tab'[u] = tab[u]
  BY <1>1, <1>2 DEF TypeOK
<1>4. /\ tab'[t] \in Page /\ tab'[t].at = tab[t].at /\ tab'[t].session = tab[t].session
      /\ tab'[t].view = tab[t].view
  <2> DEFINE m == [tab[t] EXCEPT !.initial = b]
  <2>1. m \in Page /\ m.at = tab[t].at /\ m.session = tab[t].session /\ m.view = tab[t].view
    BY <1>2, <1>3 DEF Page
  <2>2. tab'[t] = [m EXCEPT !.credential = c]
    BY <1>3
  <2>3. c \in Sessions
    BY <1>2
  <2> HIDE DEF m
  <2>4. QED
    BY <2>1, <2>2, <2>3 DEF Page
<1>5. TypeOK'
  <2>1. tab' \in [Tabs -> Page]
    BY <1>1, <1>2, <1>3, <1>4 DEF TypeOK
  <2>2. QED
    BY <1>1, <2>1 DEF TypeOK
<1>6. \A u \in Tabs : PagePart(u)'
  BY <1>1, <1>3, <1>4, PageKept, PageMinorChange
<1>7. QED
  BY <1>1, <1>5, <1>6, SessionsLeftAlone DEF PartsInv

LEMMA DeliverStep ==
  ASSUME PartsInv, NEW t \in Tabs, Deliver(t)
  PROVE  PartsInv'
<1> USE PublicSessionAssumption, NullAssumption
<1> DEFINE s == tab[t].session
<1>1. /\ TypeOK /\ SessionPart /\ Names(cookie) /\ TakenPart
      /\ \A u \in Tabs : ReadPart(u) /\ PagePart(u) /\ PostPart(u)
      /\ \A i \in Sessions : WaitingPart(i)
  BY DEF PartsInv
<1>2. /\ UNCHANGED <<lifecycle, cookie, read, post, submitted, refused, loads, reads>>
      /\ tab[t].at = "on" /\ tab' = [tab EXCEPT ![t].credential = NULL]
      /\ \/ /\ outbox[s] # NULL
            /\ db' = [db EXCEPT ![s] = Recorded(db[s], outbox[s])]
            /\ outbox' = [outbox EXCEPT ![s] = NULL]
         \/ UNCHANGED <<db, outbox>>
  <2>1. s \in Sessions
    BY <1>1, OnHasSession DEF Deliver
  <2>2. QED
    BY <1>1, <2>1 DEF Deliver, TypeOK
<1>3. s \in Sessions /\ db[s] # NULL /\ Good(db[s])
  BY <1>1, <1>2, OnHasSession
<1>4. /\ tab'[t] = [tab[t] EXCEPT !.credential = NULL] /\ tab[t] \in Page
      /\ \A u \in Tabs \ {t} : tab'[u] = tab[u]
  BY <1>1, <1>2 DEF TypeOK
<1>5. /\ tab'[t] \in Page /\ tab'[t].at = tab[t].at /\ tab'[t].session = tab[t].session
      /\ tab'[t].view = tab[t].view
  BY <1>4 DEF Page
<1>6. tab' \in [Tabs -> Page]
  BY <1>1, <1>2, <1>4, <1>5 DEF TypeOK
<1>7. DbGrows => \A u \in Tabs : PagePart(u)'
  BY <1>1, <1>4, <1>5, PageKept, PageMinorChange
<1>8. CASE /\ outbox[s] # NULL
           /\ db' = [db EXCEPT ![s] = Recorded(db[s], outbox[s])]
           /\ outbox' = [outbox EXCEPT ![s] = NULL]
  <2>1. /\ outbox[s] \in Event /\ db[s].last < MaxEvents
        /\ outbox[s].kind \in {"task_started", "task_ended"} => outbox[s].task # NULL
    BY <1>1, <1>3, <1>8 DEF WaitingPart, TypeOK
  <2>2. Good(Recorded(db[s], outbox[s])) /\ Grown(db[s], Recorded(db[s], outbox[s]))
    BY <1>3, <2>1, RecordedGood
  <2>3. db' \in [Sessions -> Session \cup {NULL}] /\ SessionPart' /\ DbGrows
    BY <1>1, <1>3, <1>8, <2>2, WriteSession
  <2>4. TypeOK'
    <3> HIDE DEF s
    <3>1. outbox' \in [Sessions -> Event \cup {NULL}]
      BY <1>1, <1>3, <1>8 DEF TypeOK
    <3>2. QED
      BY <1>1, <1>2, <1>6, <2>3, <3>1 DEF TypeOK
  <2>5. ASSUME NEW i \in Sessions PROVE WaitingPart(i)'
    <3>1. CASE i = s
      <4>1. outbox'[i] = NULL
        BY <1>1, <1>8, <3>1 DEF TypeOK
      <4>2. QED
        BY <4>1 DEF WaitingPart
    <3>2. CASE i # s
      BY <1>1, <1>8, <3>2, WaitingKept DEF TypeOK
    <3>3. QED
      BY <3>1, <3>2
  <2>6. Names(cookie)' /\ TakenPart' /\ \A u \in Tabs : ReadPart(u)' /\ PostPart(u)'
    BY <1>1, <1>2, <2>3, CookieKept, TakenKept, ReadKept, PostKept
  <2>7. QED
    BY <1>7, <2>3, <2>4, <2>5, <2>6 DEF PartsInv
<1>9. CASE UNCHANGED <<db, outbox>>
  <2>1. DbGrows
    BY <1>1, <1>9, UnchangedGrows
  <2>2. TypeOK'
    BY <1>1, <1>2, <1>6, <1>9 DEF TypeOK
  <2>3. QED
    BY <1>2, <1>7, <1>9, <2>1, <2>2, SessionsLeftAlone DEF PartsInv
<1>10. QED
  BY <1>2, <1>8, <1>9

-----------------------------------------------------------------------------
(* The state of the session is read and taken in *)

LEMMA BeginReadStep ==
  ASSUME PartsInv, NEW t \in Tabs, BeginRead(t)
  PROVE  PartsInv'
<1> USE PublicSessionAssumption, NullAssumption
<1> DEFINE b == {k \in Tasks : <<cookie, k>> \in submitted}
           r == IF cookie = NULL THEN [NoRead EXCEPT !.at = "done"]
                ELSE [NoRead EXCEPT !.at = "status", !.claims = cookie, !.before = b]
<1>1. /\ TypeOK /\ Names(cookie)
      /\ UNCHANGED <<lifecycle, db, cookie, tab, outbox, post, submitted, refused, loads>>
      /\ read' = [read EXCEPT ![t] = r] /\ reads' = reads + 1 /\ reads < MaxReads
  BY DEF PartsInv, BeginRead
<1>2. cookie \in Sessions \cup {NULL}
  BY <1>1 DEF TypeOK
<1>3. /\ r \in Reply /\ r.claims = cookie /\ r.at \in {"status", "done"}
      /\ r.at = "status" => r.claims # NULL
      /\ r.rows = NoRead.rows /\ r.ended = 0 /\ r.last = 0
      /\ r.before = IF cookie = NULL THEN {} ELSE b
  <2>0. b \in SUBSET Tasks
    OBVIOUS
  <2> HIDE DEF b
  <2>1. CASE cookie = NULL
    BY <2>0, <2>1 DEF NoRead, Reply, Rows, Reading
  <2>2. CASE cookie # NULL
    <3>1. r = [at |-> "status", claims |-> cookie, before |-> b, ended |-> 0, status |-> NULL,
               rows |-> [k \in Tasks |-> NULL], last |-> 0, answered |-> {}, marked |-> {}]
      BY <2>2 DEF NoRead
    <3>2. [k \in Tasks |-> NULL] \in Rows /\ cookie \in Sessions
      BY <1>2, <2>2 DEF Rows
    <3> HIDE DEF r
    <3>3. r \in Reply
      BY <2>0, <3>1, <3>2 DEF Reply, Reading
    <3>4. QED
      BY <2>2, <3>1, <3>3 DEF NoRead
  <2>3. QED
    BY <2>1, <2>2
<1>4. read'[t] = r /\ \A u \in Tabs \ {t} : read'[u] = read[u]
  BY <1>1 DEF TypeOK
<1>5. TypeOK'
  <2> HIDE DEF r
  <2>1. read' \in [Tabs -> Reply] /\ reads' \in 0 .. MaxReads
    BY <1>1, <1>3 DEF TypeOK
  <2>2. QED
    BY <1>1, <2>1 DEF TypeOK
<1>6. ReadPart(t)'
  <2>1. Covered(r.rows, 0, 0)
    BY <1>3 DEF Covered, NoRead
  <2>2. \A k \in r.before : cookie # NULL /\ <<cookie, k>> \in submitted
    BY <1>3
  <2>3. r.at = "done" => cookie = NULL
    OBVIOUS
  <2> HIDE DEF r, b
  <2>4. r.at = "done" => r.before \subseteq r.marked
    BY <1>3, <2>3
  <2>5. QED
    BY <1>1, <1>3, <1>4, <2>1, <2>2, <2>4 DEF ReadPart, Names
<1>7. QED
  BY <1>1, <1>4, <1>5, <1>6, SessionsLeftAlone DEF PartsInv

\* The reply after each of the five requests.
LEMMA ReadNextStep ==
  ASSUME PartsInv, NEW t \in Tabs, ReadNext(t)
  PROVE  PartsInv'
<1> USE PublicSessionAssumption, NullAssumption
<1> DEFINE r == read[t]
           s == db[r.claims]
           r2 == read'[t]
<1>1. /\ TypeOK /\ SessionPart /\ TakenPart /\ ReadPart(t)
      /\ UNCHANGED <<lifecycle, db, cookie, tab, outbox, post, submitted, refused, loads, reads>>
      /\ r.at \in {"status", "tasks", "sequence", "answers", "markers"}
  BY DEF PartsInv, ReadNext, TypeOK, Reply, Reading
<1>2. r \in Reply /\ r.claims \in Sessions /\ s \in Session /\ Good(s)
  BY <1>1 DEF TypeOK, ReadPart, Names, SessionPart, Reply, Good
<1>3. \A u \in Tabs \ {t} : read'[u] = read[u]
  BY <1>1 DEF ReadNext, TypeOK
<1>4. /\ read' = [read EXCEPT ![t] = r2]
      /\ \/ r.at = "status" /\ r2 = [[[r EXCEPT !.at = "tasks"] EXCEPT !.status = s.status] EXCEPT !.ended = s.ended]
         \/ r.at = "tasks" /\ r2 = [[r EXCEPT !.at = "sequence"] EXCEPT !.rows = s.rows]
         \/ r.at = "sequence" /\ r2 = [[r EXCEPT !.at = "answers"] EXCEPT !.last = s.last]
         \/ r.at = "answers" /\ r2 = [[r EXCEPT !.at = "markers"] EXCEPT !.answered = {<<a.task, a.key>> : a \in s.answers}]
         \/ r.at = "markers" /\ r2 = [[r EXCEPT !.at = "done"] EXCEPT !.marked = Marked(r.claims)]
  BY <1>1 DEF ReadNext, TypeOK, After
<1>5. /\ r2 \in Reply /\ r2.claims = r.claims /\ r2.before = r.before
      /\ \/ r2.at = "tasks" /\ r2.rows = r.rows /\ r2.ended = s.ended /\ r.at = "status"
         \/ r2.at = "sequence" /\ r2.rows = s.rows /\ r2.ended = r.ended /\ r.at = "tasks"
         \/ r2.at = "answers" /\ r2.rows = r.rows /\ r2.ended = r.ended /\ r2.last = s.last
              /\ r.at = "sequence"
         \/ r2.at = "markers" /\ r2.rows = r.rows /\ r2.ended = r.ended /\ r2.last = r.last
              /\ r.at = "answers"
         \/ r2.at = "done" /\ r2.rows = r.rows /\ r2.ended = r.ended /\ r2.last = r.last
              /\ r2.marked = Marked(r.claims) /\ r.at = "markers"
  <2> DEFINE m == [r EXCEPT !.at = After(r.at)]
  <2>1. /\ m \in Reply /\ m.at = After(r.at) /\ m.claims = r.claims /\ m.before = r.before
        /\ m.rows = r.rows /\ m.ended = r.ended /\ m.last = r.last
    <3>1. After(r.at) \in Reading
      BY DEF After, Reading
    <3>2. QED
      BY <1>2, <3>1 DEF Reply
  <2>2. s.status \in Statuses /\ s.ended \in 0 .. MaxEvents /\ s.rows \in Rows /\ s.last \in 0 .. MaxEvents
    BY <1>2 DEF Session
  <2>3. CASE r.at = "status"
    <3> DEFINE n == [m EXCEPT !.status = s.status]
    <3>1. r2 = [n EXCEPT !.ended = s.ended] /\ m.at = "tasks"
      BY <1>4, <2>1, <2>3 DEF After
    <3> HIDE DEF m, r, s, r2
    <3>2. /\ n \in Reply /\ n.claims = r.claims /\ n.before = r.before
          /\ n.at = "tasks" /\ n.rows = r.rows
      BY <2>1, <2>2, <3>1 DEF Reply
    <3> HIDE DEF n
    <3>3. QED
      BY <2>2, <2>3, <3>1, <3>2 DEF Reply
  <2>4. CASE r.at = "tasks"
    <3>1. r2 = [m EXCEPT !.rows = s.rows] /\ m.at = "sequence"
      BY <1>4, <2>1, <2>4 DEF After
    <3> HIDE DEF m, r, s, r2
    <3>2. QED
      BY <2>1, <2>2, <2>4, <3>1 DEF Reply
  <2>5. CASE r.at = "sequence"
    <3>1. r2 = [m EXCEPT !.last = s.last] /\ m.at = "answers"
      BY <1>4, <2>1, <2>5 DEF After
    <3> HIDE DEF m, r, s, r2
    <3>2. QED
      BY <2>1, <2>2, <2>5, <3>1 DEF Reply
  <2>6. CASE r.at = "answers"
    <3> DEFINE d == {<<a.task, a.key>> : a \in s.answers}
    <3>1. r2 = [m EXCEPT !.answered = d] /\ m.at = "markers"
      BY <1>4, <2>1, <2>6 DEF After
    <3>2. d \in SUBSET (Tasks \X Questions)
      BY <1>2 DEF Session, Answer
    <3> HIDE DEF m, r, s, r2, d
    <3>3. QED
      BY <2>1, <2>6, <3>1, <3>2 DEF Reply
  <2>7. CASE r.at = "markers"
    <3> DEFINE d == Marked(r.claims)
    <3>1. r2 = [m EXCEPT !.marked = d] /\ m.at = "done"
      BY <1>4, <2>1, <2>7 DEF After
    <3>2. d \in SUBSET Tasks
      BY DEF Marked
    <3> HIDE DEF m, s, r2, d
    <3>3. r2 \in Reply /\ r2.claims = m.claims /\ r2.before = m.before /\ r2.at = "done"
          /\ r2.rows = m.rows /\ r2.ended = m.ended /\ r2.last = m.last /\ r2.marked = d
      BY <2>1, <3>1, <3>2 DEF Reply
    <3>4. QED
      BY <2>1, <2>7, <3>3 DEF d
  <2>8. QED
    BY <1>1, <2>3, <2>4, <2>5, <2>6, <2>7
<1>6. TypeOK'
  <2>1. read' \in [Tabs -> Reply]
    BY <1>1, <1>4, <1>5 DEF TypeOK
  <2>2. QED
    BY <1>1, <2>1 DEF TypeOK
<1>7. r2.at \in {"tasks", "sequence"} => Covered(r2.rows, r2.ended, s.last)
  <2>1. Covered(s.rows, s.ended, s.last) /\ s.last \in 0 .. MaxEvents
    BY <1>2 DEF Good, Session
  <2>2. CASE r.at = "status"
    <3>1. Covered(r.rows, r.ended, 0)
      BY <1>1, <2>2 DEF ReadPart
    <3>2. r.rows \in Rows /\ r.ended \in 0 .. MaxEvents
      BY <1>2 DEF Reply
    <3>3. Covered(r.rows, r.ended, s.last)
      BY <2>1, <3>1, <3>2, CoveredLater
    <3>4. QED
      BY <1>5, <2>1, <2>2, <3>3 DEF Covered
  <2>3. CASE r.at = "tasks"
    BY <1>1, <1>5, <2>1, <2>3 DEF Covered, ReadPart
  <2>4. QED
    BY <1>5, <2>2, <2>3
<1>8. r2.at \in {"answers", "markers", "done"} => Covered(r2.rows, r2.ended, r2.last)
  BY <1>1, <1>5 DEF ReadPart
<1>9. r2.at = "done" => r2.before \subseteq r2.marked
  <2>1. \A k \in r.before : k \in Marked(r.claims)
    <3>1. ASSUME NEW k \in r.before PROVE k \in Marked(r.claims)
      <4>1. k \in Tasks /\ <<r.claims, k>> \in submitted
        BY <1>1, <1>2, <3>1 DEF ReadPart, Reply
      <4>2. IsMarked(db[r.claims], k)
        BY <1>1, <4>1 DEF TakenPart
      <4>3. QED
        BY <4>1, <4>2 DEF Marked, IsMarked
    <3>2. QED
      BY <3>1
  <2>2. QED
    BY <1>5, <2>1
<1>10. ReadPart(t)'
  <2>1. r2.claims # NULL /\ db'[r2.claims] # NULL
    BY <1>1, <1>2, <1>5 DEF Names, ReadPart
  <2>2. \A k \in r2.before : <<r2.claims, k>> \in submitted'
    BY <1>1, <1>5 DEF ReadPart
  <2>3. r2.at \notin {"none", "status"} /\ db' = db /\ r2.claims = r.claims
    BY <1>1, <1>5
  <2>4. r2.at \in {"tasks", "sequence"} => Covered(r2.rows, r2.ended, db'[r2.claims].last)
    BY <1>7, <2>3
  <2>5. QED
    BY <1>8, <1>9, <2>1, <2>2, <2>3, <2>4 DEF ReadPart, Names
<1>11. QED
  BY <1>1, <1>3, <1>6, <1>10, SessionsLeftAlone DEF PartsInv

LEMMA ReadFailsStep ==
  ASSUME PartsInv, NEW t \in Tabs, ReadFails(t)
  PROVE  PartsInv'
<1> USE PublicSessionAssumption
<1>1. /\ TypeOK
      /\ UNCHANGED <<lifecycle, db, cookie, tab, outbox, post, submitted, refused, loads, reads>>
      /\ read' = [read EXCEPT ![t] = NoRead]
  BY DEF PartsInv, ReadFails
<1>2. NoRead \in Reply
  BY DEF NoRead, Reply, Rows, Reading
<1>3. TypeOK' /\ read'[t] = NoRead /\ \A u \in Tabs \ {t} : read'[u] = read[u]
  BY <1>1, <1>2 DEF TypeOK
<1>4. ReadPart(t)'
  BY <1>3 DEF ReadPart, Names, NoRead, Covered
<1>5. QED
  BY <1>1, <1>3, <1>4, SessionsLeftAlone DEF PartsInv

\* The task a page resumes with: of the open ones the one started last, if any.
LEMMA LastStarted ==
  ASSUME NEW r \in Reply, Open(r) # {}
  PROVE  (CHOOSE k \in Open(r) : \A j \in Open(r) : r.rows[j].from <= r.rows[k].from) \in Tasks
<1> DEFINE S == {r.rows[k].from : k \in Open(r)}
<1>1. \A k \in Open(r) : k \in Tasks /\ r.rows[k].from \in 1 .. MaxEvents
  BY NullAssumption DEF Open, Reply, Rows, TaskSession
<1>2. MaxEvents \in Nat /\ S \in SUBSET (0 .. MaxEvents) /\ S # {}
  BY <1>1, PublicSessionAssumption
<1>3. Max(S) \in S /\ \A y \in S : y <= Max(S)
  BY <1>2, GreatestElement
<1>4. PICK k \in Open(r) : Max(S) = r.rows[k].from
  BY <1>3
<1>5. \A j \in Open(r) : r.rows[j].from <= r.rows[k].from
  BY <1>3, <1>4
<1>6. QED
  BY <1>1, <1>5

\* A page that resumes acts on the session of the reply.
Resumed(s, a, v) ==
  [NoTab EXCEPT !.at = "on", !.session = s, !.view = v, !.active = a]

LEMMA ResumedIsPage ==
  ASSUME NEW s \in Sessions, NEW a \in Tasks \cup {NULL}, NEW v \in Reply
  PROVE  /\ Resumed(s, a, v) \in Page /\ Resumed(s, a, v).at = "on"
         /\ Resumed(s, a, v).session = s /\ Resumed(s, a, v).view = v
<1>1. Resumed(s, a, v) = [at |-> "on", session |-> s, active |-> a,
                          initial |-> FALSE, credential |-> NULL, view |-> v]
  <2>1. Resumed(s, a, v) = [[[[NoTab EXCEPT !.at = "on"] EXCEPT !.session = s]
                                    EXCEPT !.view = v] EXCEPT !.active = a]
    BY DEF Resumed
  <2>2. QED
    BY <2>1 DEF NoTab
<1>2. v \in Reply \cup {NULL}
  OBVIOUS
<1> HIDE DEF Resumed
<1>3. QED
  BY <1>1, <1>2 DEF Page

LEMMA TakeStep ==
  ASSUME PartsInv, NEW t \in Tabs, Take(t)
  PROVE  PartsInv'
<1> USE PublicSessionAssumption, NullAssumption
<1> DEFINE r == read[t]
           p == tab[t]
           q == tab'[t]
<1>1. /\ TypeOK /\ ReadPart(t) /\ PagePart(t) /\ r.at = "done"
      /\ UNCHANGED <<lifecycle, db, cookie, outbox, post, submitted, refused, loads, reads>>
      /\ read' = [read EXCEPT ![t] = NoRead]
  BY DEF PartsInv, Take
<1>2. r \in Reply /\ p \in Page /\ \A u \in Tabs \ {t} : read'[u] = read[u] /\ tab'[u] = tab[u]
  BY <1>1 DEF TypeOK, Take
<1>3. tab' = [tab EXCEPT ![t] = q]
  BY <1>1 DEF TypeOK, Take
<1>4. \/ /\ r.claims # NULL
         /\ \E a \in Tasks \cup {NULL} :
              q = Resumed(r.claims, a, r)
      \/ q = [p EXCEPT !.at = "consent"] /\ p.at = "loading"
      \/ q = [p EXCEPT !.view = r] /\ r.claims = p.session
      \/ q = p
  <2> DEFINE a == IF Open(r) = {} THEN NULL ELSE CHOOSE k \in Open(r) :
                    \A j \in Open(r) : r.rows[j].from <= r.rows[k].from
             resumes == r.claims # NULL /\ db[r.claims].version = LinkOf[t]
  <2>1. q = CASE p.at = "loading" /\ resumes ->
                  Resumed(r.claims, a, r)
             [] p.at = "loading" /\ ~resumes -> [p EXCEPT !.at = "consent"]
             [] OTHER -> IF ForThisPage(t, r) THEN [p EXCEPT !.view = r] ELSE p
    BY <1>1 DEF Take, TypeOK, Resumed
  <2>2. a \in Tasks \cup {NULL}
    BY <1>2, LastStarted
  <2>3. ForThisPage(t, r) => r.claims = p.session
    BY DEF ForThisPage
  <2>4. resumes => r.claims # NULL
    OBVIOUS
  <2> HIDE DEF q, p, r, a, resumes
  <2>5. QED
    BY <2>1, <2>2, <2>3, <2>4
<1>5. /\ r.before \subseteq r.marked
      /\ Names(r.claims) /\ Names(p.session) /\ (p.at = "on" => p.session # NULL)
      /\ p.view # NULL => p.view.claims = p.session /\ p.view.before \subseteq p.view.marked
  BY <1>1 DEF ReadPart, PagePart
<1>6. /\ q \in Page /\ Names(q.session) /\ (q.at = "on" => q.session # NULL)
      /\ q.view # NULL => q.view.claims = q.session /\ q.view.before \subseteq q.view.marked
  <2> HIDE DEF q, p, r
  <2>1. CASE /\ r.claims # NULL
             /\ \E a \in Tasks \cup {NULL} :
                  q = Resumed(r.claims, a, r)
    <3>1. q \in Page /\ q.at = "on" /\ q.session = r.claims /\ q.view = r
      <4>1. PICK a \in Tasks \cup {NULL} :
              q = Resumed(r.claims, a, r)
        BY <2>1
      <4>2. QED
        <5>1. r.claims \in Sessions
          BY <1>2, <2>1 DEF Reply
        <5>2. QED
          BY <1>2, <4>1, <5>1, ResumedIsPage
    <3>2. QED
      BY <1>5, <2>1, <3>1
  <2>2. CASE q = [p EXCEPT !.at = "consent"] /\ p.at = "loading"
    <3>1. q \in Page /\ q.at = "consent" /\ q.session = p.session /\ q.view = p.view
      BY <1>2, <2>2 DEF Page
    <3>2. QED
      BY <1>5, <3>1
  <2>3. CASE q = [p EXCEPT !.view = r] /\ r.claims = p.session
    <3>1. q \in Page /\ q.at = p.at /\ q.session = p.session /\ q.view = r
      BY <1>2, <2>3 DEF Page
    <3>2. QED
      BY <1>5, <2>3, <3>1
  <2>4. CASE q = p
    BY <1>2, <1>5, <2>4
  <2>5. QED
    BY <1>4, <2>1, <2>2, <2>3, <2>4
<1>7. PagePart(t)'
  <2>1. db' = db
    BY <1>1
  <2>2. QED
    BY <1>6, <2>1 DEF PagePart, Names
<1>8. NoRead \in Reply
  BY DEF NoRead, Reply, Rows, Reading
<1>9. ReadPart(t)'
  <2>1. read'[t] = NoRead
    BY <1>1 DEF TypeOK
  <2>2. QED
    BY <2>1 DEF ReadPart, Names, NoRead, Covered
<1>10. TypeOK'
  <2>1. read' \in [Tabs -> Reply]
    BY <1>1, <1>8 DEF TypeOK
  <2>2. tab' \in [Tabs -> Page]
    BY <1>1, <1>3, <1>6 DEF TypeOK
  <2>3. QED
    BY <1>1, <2>1, <2>2 DEF TypeOK
<1>11. QED
  BY <1>1, <1>2, <1>7, <1>9, <1>10, SessionsLeftAlone DEF PartsInv

-----------------------------------------------------------------------------
(* Feedback *)

LEMMA SubmitStep ==
  ASSUME PartsInv, NEW t \in Tabs, NEW k \in Tasks, NEW keys \in SUBSET Questions,
         Submit(t, k, keys)
  PROVE  PartsInv'
<1> USE PublicSessionAssumption, NullAssumption
<1> DEFINE f == [task |-> k, keys |-> keys, claims |-> cookie, by |-> tab[t].session]
<1>1. /\ TypeOK /\ SessionPart /\ Names(cookie) /\ TakenPart
      /\ \A u \in Tabs : ReadPart(u) /\ PagePart(u) /\ PostPart(u)
      /\ \A i \in Sessions : WaitingPart(i)
      /\ UNCHANGED <<lifecycle, db, cookie, tab, outbox, read, submitted, refused, loads, reads>>
      /\ tab[t].at = "on" /\ cookie # NULL /\ post' = [post EXCEPT ![t] = f]
  BY DEF PartsInv, Submit, Asks
<1>2. f \in Feedback /\ f.claims = cookie
  <2>1. tab[t].session \in Sessions /\ cookie \in Sessions
    BY <1>1, OnHasSession DEF TypeOK
  <2>2. QED
    BY <2>1 DEF Feedback
<1>3. DbGrows
  BY <1>1, UnchangedGrows
<1>4. TypeOK'
  <2> HIDE DEF f
  <2>1. post' \in [Tabs -> Feedback \cup {NULL}]
    BY <1>1, <1>2 DEF TypeOK
  <2>2. QED
    BY <1>1, <2>1 DEF TypeOK
<1>5. ASSUME NEW u \in Tabs PROVE PostPart(u)'
  <2> HIDE DEF f
  <2>1. CASE u = t
    <3>1. post'[u] = f /\ db' = db
      BY <1>1, <2>1 DEF TypeOK
    <3>2. QED
      BY <1>1, <1>2, <3>1 DEF PostPart, Names
  <2>2. CASE u # t
    BY <1>1, <1>3, <2>2, PostKept DEF TypeOK
  <2>3. QED
    BY <2>1, <2>2
<1>6. \A u \in Tabs : ReadPart(u)' /\ PagePart(u)'
  BY <1>1, <1>3, ReadKept, PageKept DEF TypeOK
<1>7. \A i \in Sessions : WaitingPart(i)'
  BY <1>1, WaitingKept
<1>8. SessionPart' /\ Names(cookie)' /\ TakenPart'
  BY <1>1, <1>3, CookieKept, TakenKept DEF SessionPart
<1>9. QED
  BY <1>4, <1>5, <1>6, <1>7, <1>8 DEF PartsInv

LEMMA SaveStep ==
  ASSUME PartsInv, NEW t \in Tabs, Save(t)
  PROVE  PartsInv'
<1> USE PublicSessionAssumption, NullAssumption
<1> DEFINE p == post[t]
           c == p.claims
           x == db[c]
<1>1. /\ TypeOK /\ SessionPart /\ Names(cookie) /\ TakenPart
      /\ \A u \in Tabs : ReadPart(u) /\ PagePart(u) /\ PostPart(u)
      /\ \A i \in Sessions : WaitingPart(i)
      /\ UNCHANGED <<lifecycle, cookie, tab, outbox, read, refused, loads, reads>>
      /\ p # NULL /\ post' = [post EXCEPT ![t] = NULL]
  BY DEF PartsInv, Save
<1>2. p \in Feedback /\ c \in Sessions /\ p.task \in Tasks /\ x # NULL /\ Good(x)
  BY <1>1 DEF TypeOK, PostPart, Names, SessionPart, Feedback
<1>3. /\ post' \in [Tabs -> Feedback \cup {NULL}]
      /\ \A u \in Tabs : post'[u] \in {post[u], NULL}
  BY <1>1 DEF TypeOK
<1>4. CASE UNCHANGED <<db, submitted>>
  <2>1. TypeOK'
    BY <1>1, <1>3, <1>4 DEF TypeOK
  <2>2. QED
    BY <1>1, <1>3, <1>4, <2>1, SessionsLeftAlone DEF PartsInv
<1>5. CASE /\ MaySave(x, p.task, p.keys)
           /\ db' = [db EXCEPT ![c] = Saved(x, p)]
           /\ submitted' = submitted \cup {<<c, p.task>>}
  <2>1. /\ Good(Saved(x, p)) /\ Grown(x, Saved(x, p)) /\ IsMarked(Saved(x, p), p.task)
        /\ Saved(x, p).last = x.last
    BY <1>2, <1>5, SavedGood
  <2>2. db' \in [Sessions -> Session \cup {NULL}] /\ SessionPart' /\ DbGrows
    BY <1>1, <1>2, <1>5, <2>1, WriteSession
  <2>3. db'[c] = Saved(x, p) /\ db'[c] # NULL /\ \A i \in Sessions \ {c} : db'[i] = db[i]
    BY <1>1, <1>2, <1>5, <2>1 DEF TypeOK, Good
  <2>4. TypeOK'
    <3>1. submitted' \subseteq Sessions \X Tasks
      BY <1>1, <1>2, <1>5 DEF TypeOK
    <3>2. QED
      BY <1>1, <1>3, <2>2, <3>1 DEF TypeOK
  <2>5. TakenPart'
    <3>1. ASSUME NEW e \in submitted PROVE db'[e[1]] # NULL /\ IsMarked(db'[e[1]], e[2])
      <4>1. e[1] \in Sessions /\ e[2] \in Tasks
        BY <1>1 DEF TypeOK
      <4>2. db[e[1]] # NULL /\ IsMarked(db[e[1]], e[2])
        BY <1>1 DEF TakenPart
      <4>3. QED
        BY <2>2, <4>1, <4>2 DEF DbGrows, Grown, IsMarked
    <3>2. db'[c] # NULL /\ IsMarked(db'[c], p.task)
      BY <2>1, <2>3
    <3> HIDE DEF c, p
    <3>3. QED
      BY <1>5, <3>1, <3>2 DEF TakenPart
  <2>6. ASSUME NEW i \in Sessions PROVE WaitingPart(i)'
    <3>1. CASE i = c
      BY <1>1, <2>1, <2>3, <3>1 DEF WaitingPart
    <3>2. CASE i # c
      BY <1>1, <2>3, <3>2, WaitingKept
    <3>3. QED
      BY <3>1, <3>2
  <2>7. submitted \subseteq submitted'
    BY <1>5
  <2>8. Names(cookie)' /\ \A u \in Tabs : ReadPart(u)' /\ PagePart(u)' /\ PostPart(u)'
    <3> HIDE DEF c, p, x
    <3>1. QED
      BY <1>1, <1>3, <2>2, <2>7, CookieKept, ReadKept, PageKept, PostKept
  <2>9. QED
    BY <2>2, <2>4, <2>5, <2>6, <2>8 DEF PartsInv
<1>6. QED
  BY <1>4, <1>5, <1>1, <1>2 DEF Save, TypeOK

LEMMA FeedbackLostStep ==
  ASSUME PartsInv, NEW t \in Tabs, FeedbackLost(t)
  PROVE  PartsInv'
<1>1. /\ TypeOK /\ post' = [post EXCEPT ![t] = NULL]
      /\ UNCHANGED <<lifecycle, db, cookie, tab, outbox, read, submitted, refused, loads, reads>>
  BY DEF PartsInv, FeedbackLost
<1>2. TypeOK' /\ \A u \in Tabs : post'[u] \in {post[u], NULL}
  BY <1>1 DEF TypeOK
<1>3. QED
  BY <1>1, <1>2, SessionsLeftAlone DEF PartsInv

-----------------------------------------------------------------------------
(* The theorems *)

LEMMA NextParts == PartsInv /\ [Next]_vars => PartsInv'
<1> SUFFICES ASSUME PartsInv, [Next]_vars PROVE PartsInv'
  OBVIOUS
<1>1. CASE UNCHANGED vars
  BY <1>1, StutterStep
<1>2. CASE \E v \in Versions : Publish(v) \/ Archive(v)
  BY <1>2, PublishStep
<1>3. ASSUME NEW t \in Tabs, Load(t) \/ Accept(t) \/ Enter(t)
      PROVE  PartsInv'
  BY <1>3, LoadStep, AcceptStep, EnterStep
<1>4. ASSUME NEW t \in Tabs, (\E e \in Event : Emit(t, e)) \/ Refresh(t) \/ Deliver(t)
      PROVE  PartsInv'
  BY <1>4, EmitStep, RefreshStep, DeliverStep
<1>5. ASSUME NEW t \in Tabs, BeginRead(t) \/ ReadNext(t) \/ ReadFails(t) \/ Take(t)
      PROVE  PartsInv'
  BY <1>5, BeginReadStep, ReadNextStep, ReadFailsStep, TakeStep
<1>6. ASSUME NEW t \in Tabs,
             \/ \E k \in Tasks, keys \in SUBSET Questions : Submit(t, k, keys)
             \/ Save(t) \/ FeedbackLost(t)
      PROVE  PartsInv'
  BY <1>6, SubmitStep, SaveStep, FeedbackLostStep
<1>7. CASE ProofExpires
  BY <1>7, ProofExpiresStep
<1>8. QED
  BY <1>1, <1>2, <1>3, <1>4, <1>5, <1>6, <1>7 DEF Next

\* The invariant holds of every behaviour, whatever the bounds.
THEOREM PublicSessionInvariant == Spec => []PublicSessionInv
<1>1. Spec => []PartsInv
  BY InitParts, NextParts, PTL DEF Spec
<1>2. QED
  BY <1>1, Parts, PTL

\* Every variable stays in its type: in particular no session gets more than
\* MaxEvents events, and no reply names a row that is not one.
THEOREM PublicTypes == Spec => []TypeOK
<1>1. PublicSessionInv => TypeOK
  BY DEF PublicSessionInv
<1>2. QED
  BY <1>1, PublicSessionInvariant, PTL

\* Whatever is recorded between its five requests, a state reply never shows an
\* event with a greater number than the last sequence it reports.
THEOREM RepliesCovered == Spec => []RepliesCoverTheirEvents
<1>1. PublicSessionInv => RepliesCoverTheirEvents
  BY DEF PublicSessionInv, NumbersCovered, RepliesCoverTheirEvents, Covered
<1>2. QED
  BY <1>1, PublicSessionInvariant, PTL

\* A page acts on the state of its own session, whichever the cookie names.
THEOREM OwnSession == Spec => []ActsOnItsSession
<1>1. PublicSessionInv => ActsOnItsSession
  BY DEF PublicSessionInv
<1>2. QED
  BY <1>1, PublicSessionInvariant, PTL

\* Stored feedback is whole, and what was in before a page asked for the state
\* is not asked for again.
THEOREM FeedbackIsSettled == Spec => []FeedbackSettled
<1>1. PublicSessionInv => FeedbackSettled
  <2>1. ASSUME PublicSessionInv PROVE FeedbackNotRepeated
    <3>1. ASSUME NEW t \in Tabs, NEW k \in Tasks, Asks(t, k)
          PROVE  k \notin tab[t].view.before
      BY <2>1, <3>1 DEF PublicSessionInv, FeedbackMarked, Asks
    <3>2. QED
      BY <3>1 DEF FeedbackNotRepeated
  <2>2. QED
    BY <2>1 DEF PublicSessionInv, FeedbackSettled
<1>2. QED
  BY <1>1, PublicSessionInvariant, PTL
=============================================================================
