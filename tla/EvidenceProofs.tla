--------------------------- MODULE EvidenceProofs ---------------------------
(***************************************************************************)
(* Proofs about what is recorded and what is shown of it.                  *)
(*                                                                         *)
(* First EvidenceDelivery, for a session driven from one browser tab, for  *)
(* any number of events, tokens, batch size and attempts.  Then            *)
(* ResultsRead, for any participants, events and page size: that the pages *)
(* miss nothing, that the tables tell what the rows of an attempt do, and  *)
(* what follows for the numbers the page shows.                            *)
(***************************************************************************)
EXTENDS EvidenceDelivery, ResultsRead, NaturalSets

\* The participant uses one tab (which may be reloaded at any time).
OneTab == Tabs = {FirstTab}

\* Numbers are assigned without gaps, and the lifecycle of the tab is at the
\* last one even after a reload.
NumberedInOrder ==
  /\ \A e \in 1..Len(log) : log[e].seq = e
  /\ log[1].kind = Opening
  /\ \A t \in Tabs : sequence[t] = Len(log)

\* A loading page knows enough to number on: the last event is still in the
\* outbox, or the server had it when the state was read.  It flushes nothing.
LoadingKnows ==
  \A t \in Tabs : page[t] = "loading" =>
    /\ phase[t] = "idle"
    /\ seen[t] <= Len(log)
    /\ Len(log) \in stored \/ seen[t] = Len(log)
    /\ 1 \in stored \/ seen[t] > 0

\* Every request has to persist events whose predecessors it persists as well
\* or are recorded already.
RequestsInOrder ==
  \A r \in requests :
    /\ r.rest \subseteq 1..Len(log)
    /\ \A e \in r.rest : \A d \in 1..e : d \in r.rest \cup recorded

BatchesInOrder ==
  \A t \in Tabs : phase[t] = "credential" =>
    \A e \in batch[t] : \A d \in 1..e : d \in batch[t] \cup recorded

\* What a tab waits for is recorded, or in the hands of its request.
AwaitedInHand ==
  \A t \in Tabs, r \in requests :
    /\ phase[t] = "upload"
    /\ token[t] = r.token
    /\ r.stage # "rejected"
    => batch[t] \subseteq recorded \cup (IF r.stage = "accepted" THEN {} ELSE r.rest)

\* The inductive invariant.
DeliveryInv ==
  /\ TypeOK
  /\ NumberedInOrder
  /\ LoadingKnows
  /\ NothingLost
  /\ EvidenceHasNoGaps
  /\ RequestsInOrder
  /\ BatchesInOrder
  /\ AwaitedInHand

-----------------------------------------------------------------------------
(* Initial states *)

\* The invariant holds at first.
LEMMA InitDelivery == OneTab /\ Init => DeliveryInv
<1> SUFFICES ASSUME OneTab, Init PROVE DeliveryInv
  OBVIOUS
<1> USE DeliveryAssumption DEF OneTab, Init
<1>1. Len(log) = 1 /\ log[1] = [seq |-> 1, kind |-> Opening] /\ log \in Seq(Event)
  BY DEF Event
<1>2. TypeOK
  BY <1>1 DEF TypeOK, Pages, Phases, Request, Stages
<1>3. NumberedInOrder /\ LoadingKnows /\ NothingLost /\ EvidenceHasNoGaps
  BY <1>1 DEF NumberedInOrder, LoadingKnows, NothingLost, EvidenceHasNoGaps
<1>4. RequestsInOrder /\ BatchesInOrder /\ AwaitedInHand
  BY <1>1 DEF RequestsInOrder, BatchesInOrder, AwaitedInHand
<1>5. QED
  BY <1>2, <1>3, <1>4 DEF DeliveryInv

-----------------------------------------------------------------------------
(* The flush loop *)

\* A batch is a prefix of the outbox.
LEMMA OldestIsPrefix ==
  ASSUME NEW n \in Nat, NEW S \in SUBSET (1..n)
  PROVE  /\ Oldest(S) \subseteq S
         /\ \A e \in Oldest(S) : \A d \in S : d <= e => d \in Oldest(S)
<1>1. IsFiniteSet(S) /\ S \subseteq Nat
  <2>1. IsFiniteSet(1..n)
    BY FS_Interval
  <2>2. IsFiniteSet(S)
    BY <2>1, FS_Subset
  <2>3. S \subseteq Nat
    OBVIOUS
  <2>4. QED
    BY <2>2, <2>3
<1>2. ASSUME NEW e \in Oldest(S), NEW d \in S, d <= e
      PROVE  d \in Oldest(S)
  <2>1. CASE d = e
    BY <2>1
  <2>2. CASE d # e
    <3>1. d < e
      BY <1>1, <1>2, <2>2 DEF Oldest
    <3>2. Cardinality({c \in S : c < d}) < MaxBatch
      BY <1>1, <3>1, SmallestArePrefix, DeliveryAssumption DEF Oldest
    <3>3. QED
      BY <3>2 DEF Oldest
  <2>3. QED
    BY <2>1, <2>2
<1>3. QED
  BY <1>2 DEF Oldest

\* What the head of the loop does to the state of the one tab.
LEMMA FlushLoopEffect ==
  ASSUME OneTab, TypeOK, NEW t \in Tabs, NEW p \in Pages,
         log' \in Seq(Event), NEW S \in SUBSET (1..Len(log')), FlushLoop(t, p, S)
  PROVE  /\ page' \in [Tabs -> Pages]
         /\ phase' \in [Tabs -> Phases]
         /\ batch' \in [Tabs -> SUBSET (1..Len(log'))]
         /\ token' \in [Tabs -> Tokens \cup {NoToken}]
         /\ \A u \in Tabs : u = t
         /\ p # "loading" => page'[t] # "loading"
         /\ phase'[t] # "upload"
         /\ batch'[t] = Oldest(S)
<1>1. Oldest(S) \subseteq 1..Len(log')
  BY DEF Oldest
<1>2. \A u \in Tabs : u = t
  BY DEF OneTab
<1>3. batch' = [batch EXCEPT ![t] = Oldest(S)] /\ batch'[t] = Oldest(S)
  BY DEF FlushLoop, TypeOK
<1>4. batch' \in [Tabs -> SUBSET (1..Len(log'))]
  BY <1>1, <1>2, <1>3 DEF TypeOK
<1>5. phase' \in [Tabs -> Phases] /\ phase'[t] # "upload"
  BY DEF FlushLoop, TypeOK, Phases
<1>6. token' \in [Tabs -> Tokens \cup {NoToken}]
  BY DEF FlushLoop, TypeOK
<1>7. page' \in [Tabs -> Pages] /\ (p # "loading" => page'[t] # "loading")
  BY DEF FlushLoop, TypeOK, Pages
<1>8. QED
  BY <1>2, <1>3, <1>4, <1>5, <1>6, <1>7

-----------------------------------------------------------------------------
(* The server *)

\* The next event a request has to persist follows only recorded ones.
LEMMA CurrentIsNext ==
  ASSUME DeliveryInv, NEW r \in requests, Persisting(r)
  PROVE  /\ Current(r) \in r.rest
         /\ Current(r) \in 1..Len(log)
         /\ \A d \in 1..(Current(r) - 1) : d \in recorded
<1>1. r.rest \subseteq 1..Len(log) /\ Len(log) \in Nat
  BY DEF DeliveryInv, RequestsInOrder, TypeOK
<1>2. Current(r) \in r.rest /\ \A d \in r.rest : Current(r) <= d
  BY <1>1, LeastElement DEF Persisting, Current
<1>3. \A d \in 1..Current(r) : d \in r.rest \cup recorded
  BY <1>2 DEF DeliveryInv, RequestsInOrder
<1>4. ASSUME NEW d \in 1..(Current(r) - 1) PROVE d \in recorded
  <2>1. Current(r) \in Nat /\ d \in 1..Current(r) /\ ~(Current(r) <= d)
    BY <1>1, <1>2
  <2>2. QED
    BY <1>2, <1>3, <2>1
<1>5. QED
  BY <1>1, <1>2, <1>4

\* What takes the place of request r in a step of the server.
Successor(q, r) ==
  /\ q \in Request
  /\ r.stage \in {"sent", "persisting"}
  /\ q.token = r.token
  /\ q.rest \subseteq r.rest
  /\ r.rest \subseteq q.rest \cup recorded'
  /\ q.stage = "accepted" => r.rest \subseteq recorded'

\* A reply leaves a request with its events, all recorded if it accepts them.
LEMMA ReplySucceeds ==
  ASSUME TypeOK, NEW r \in requests, r.stage \in {"sent", "persisting"},
         NEW stage \in {"accepted", "rejected"}, Reply(r, stage),
         stage = "accepted" => r.rest \subseteq recorded'
  PROVE  \A q \in requests' : q \in requests \/ Successor(q, r)
<1>1. r \in Request
  BY DEF TypeOK
<1>2. Successor([r EXCEPT !.stage = stage], r)
  BY <1>1 DEF Successor, Request, Stages
<1>3. QED
  BY <1>2 DEF Reply

\* The request goes on to its next event once the current one is recorded.
LEMMA NextEventSucceeds ==
  ASSUME TypeOK, NEW r \in requests, Persisting(r), NextEvent(r),
         Current(r) \in r.rest, Current(r) \in recorded'
  PROVE  \A q \in requests' : q \in requests \/ Successor(q, r)
<1>1. r \in Request /\ r.stage \in {"sent", "persisting"}
  BY DEF TypeOK, Persisting
<1>2. CASE r.rest = {Current(r)}
  BY <1>1, <1>2, ReplySucceeds DEF NextEvent
<1>3. CASE r.rest # {Current(r)}
  <2> DEFINE q == [r EXCEPT !.rest = @ \ {Current(r)}, !.attempt = 1]
  <2>1. q \in Request
    <3>1. 1 \in 1..MaxAttempts
      BY DeliveryAssumption
    <3>2. r.rest \ {Current(r)} \in SUBSET (1..MaxEvents)
      BY <1>1 DEF Request
    <3>3. QED
      BY <1>1, <3>1, <3>2 DEF Request
  <2>2. q.token = r.token /\ q.rest = r.rest \ {Current(r)} /\ q.stage = "persisting"
    BY <1>1 DEF Request, Persisting
  <2>3. Successor(q, r)
    BY <1>1, <2>1, <2>2 DEF Successor
  <2>4. QED
    BY <1>3, <2>3 DEF NextEvent
<1>4. QED
  BY <1>2, <1>3

\* A failed attempt leaves the request its events; dead letters are of events.
LEMMA FailedAttemptSucceeds ==
  ASSUME DeliveryInv, NEW r \in requests, Persisting(r), FailedAttempt(r)
  PROVE  /\ \A q \in requests' : q \in requests \/ Successor(q, r)
         /\ dlq' \subseteq 1..Len(log)
<1>1. r \in Request /\ r.stage \in {"sent", "persisting"} /\ dlq \subseteq 1..Len(log)
  BY DEF DeliveryInv, TypeOK, Persisting
<1>2. CASE r.attempt < MaxAttempts
  <2> DEFINE q == [r EXCEPT !.attempt = @ + 1]
  <2>1. q \in Request
    BY <1>1, <1>2, DeliveryAssumption DEF Request
  <2>2. q.token = r.token /\ q.rest = r.rest /\ q.stage = "persisting"
    BY <1>1 DEF Request, Persisting
  <2>3. Successor(q, r)
    BY <1>1, <2>1, <2>2 DEF Successor
  <2>4. QED
    BY <1>1, <1>2, <2>3 DEF FailedAttempt
<1>3. CASE ~(r.attempt < MaxAttempts)
  <2>1. Reply(r, "rejected") /\ \E d \in {{}, {Current(r)}} : dlq' = dlq \cup d
    BY <1>3 DEF FailedAttempt
  <2>2. Current(r) \in 1..Len(log)
    BY CurrentIsNext
  <2>3. QED
    BY <1>1, <2>1, <2>2, ReplySucceeds DEF DeliveryInv
<1>4. QED
  BY <1>2, <1>3

\* The recorded events grow by the next one, if at all.
RecordsNext ==
  \E e \in 1..Len(log) :
    /\ e \notin recorded
    /\ \A d \in 1..(e - 1) : d \in recorded
    /\ recorded' = recorded \cup {e}

\* What a step on request r may change.
ServerChange(r) ==
  /\ UNCHANGED <<log, stored, tabVars, flushVars>>
  /\ consumed' \subseteq Tokens
  /\ dlq' \subseteq 1..Len(log)
  /\ active' \in BOOLEAN
  /\ \A q \in requests' : q \in requests \/ Successor(q, r)
  /\ recorded' = recorded \/ RecordsNext

\* What a request records is the first event that is not recorded yet.
LEMMA RecordIsNext ==
  ASSUME DeliveryInv, NEW r \in requests, Persisting(r),
         Insertable(Current(r)), Record(Current(r))
  PROVE  /\ RecordsNext
         /\ Current(r) \in r.rest /\ Current(r) \in recorded'
         /\ active' \in BOOLEAN
<1>1. Current(r) \in r.rest /\ Current(r) \in 1..Len(log)
      /\ \A d \in 1..(Current(r) - 1) : d \in recorded
  BY CurrentIsNext
<1>2. Current(r) \notin recorded
  BY DEF Insertable
<1>3. recorded' = recorded \cup {Current(r)} /\ active' \in BOOLEAN
  BY DEF Record, DeliveryInv, TypeOK
<1>4. QED
  BY <1>1, <1>2, <1>3 DEF RecordsNext

\* What a step of the server does to the requests, and to what is recorded.
LEMMA ServerStepEffect ==
  ASSUME DeliveryInv, NEW r \in requests, ServerStep(r) \/ Lose(r)
  PROVE  ServerChange(r)
<1> USE DEF ServerChange
<1>1. TypeOK /\ r \in Request
      /\ consumed \subseteq Tokens /\ dlq \subseteq 1..Len(log) /\ active \in BOOLEAN
  BY DEF DeliveryInv, TypeOK
<1>2. CASE Admit(r)
  <2> DEFINE q == [r EXCEPT !.stage = "persisting"]
  <2>1. Successor(q, r)
    BY <1>1, <1>2 DEF Admit, Successor, Request, Stages
  <2>2. consumed' \subseteq Tokens
    BY <1>1, <1>2 DEF Admit, Request
  <2>3. QED
    BY <1>1, <1>2, <2>1, <2>2 DEF Admit
<1>3. CASE Refuse(r)
  BY <1>1, <1>3, ReplySucceeds DEF Refuse, serverVars
<1>4. CASE Insert(r)
  <2>1. RecordsNext /\ Current(r) \in r.rest /\ Current(r) \in recorded' /\ active' \in BOOLEAN
    BY <1>4, RecordIsNext DEF Insert
  <2>2. QED
    BY <1>1, <1>4, <2>1, NextEventSucceeds DEF Insert
<1>5. CASE InsertUnheard(r)
  <2>1. RecordsNext /\ active' \in BOOLEAN
    BY <1>5, RecordIsNext DEF InsertUnheard
  <2>2. QED
    BY <1>1, <1>5, <2>1, FailedAttemptSucceeds DEF InsertUnheard
<1>6. CASE Duplicate(r)
  <2>1. Current(r) \in r.rest /\ Current(r) \in 1..Len(log)
    BY <1>6, CurrentIsNext DEF Duplicate
  <2>2. Current(r) \in recorded
    <3>1. PICK d \in recorded : log[d] = log[Current(r)]
      BY <1>6 DEF Duplicate
    <3>2. log[d].seq = d /\ log[Current(r)].seq = Current(r)
      BY <1>1, <2>1 DEF DeliveryInv, NumberedInOrder, TypeOK
    <3>3. QED
      BY <3>1, <3>2
  <2>3. QED
    BY <1>1, <1>6, <2>1, <2>2, NextEventSucceeds DEF Duplicate, serverVars
<1>7. CASE AttemptFails(r)
  BY <1>1, <1>7, FailedAttemptSucceeds DEF AttemptFails
<1>8. CASE NormalizerFails(r)
  BY <1>1, <1>8, ReplySucceeds DEF NormalizerFails, Persisting, serverVars
<1>9. CASE Lose(r)
  BY <1>1, <1>9 DEF Lose, serverVars
<1>10. QED
  BY <1>2, <1>3, <1>4, <1>5, <1>6, <1>7, <1>8, <1>9 DEF ServerStep

\* A step of the server preserves the invariant.
LEMMA ServerInv ==
  ASSUME DeliveryInv, NEW r \in requests, ServerStep(r) \/ Lose(r)
  PROVE  DeliveryInv'
<1>1. ServerChange(r)
  BY ServerStepEffect
<1>2. /\ recorded \subseteq recorded' /\ recorded' \subseteq 1..Len(log)
      /\ \A e \in recorded' : \A d \in 1..e : d \in recorded'
  <2>1. recorded \subseteq 1..Len(log) /\ \A e \in recorded : \A d \in 1..e : d \in recorded
    BY DEF DeliveryInv, TypeOK, EvidenceHasNoGaps
  <2>2. CASE RecordsNext
    <3>1. PICK e \in 1..Len(log) : /\ \A d \in 1..(e - 1) : d \in recorded
                                   /\ recorded' = recorded \cup {e}
      BY <2>2 DEF RecordsNext
    <3>2. \A d \in 1..e : d = e \/ d \in 1..(e - 1)
      BY DEF DeliveryInv, TypeOK
    <3>3. QED
      BY <2>1, <3>1, <3>2
  <2>3. QED
    BY <1>1, <2>1, <2>2 DEF ServerChange
<1>3. UNCHANGED <<log, stored, page, sequence, ended, seen, phase, batch, token>>
  BY <1>1 DEF ServerChange, tabVars, flushVars
<1>4. \A q \in requests' : q \in requests \/ Successor(q, r)
  BY <1>1 DEF ServerChange
<1>5. TypeOK'
  <2>1. requests' \subseteq Request
    BY <1>4 DEF DeliveryInv, TypeOK, Successor
  <2>2. QED
    BY <1>1, <1>2, <1>3, <2>1 DEF DeliveryInv, TypeOK, ServerChange
<1>6. NumberedInOrder' /\ LoadingKnows'
  BY <1>3 DEF DeliveryInv, NumberedInOrder, LoadingKnows
<1>7. NothingLost' /\ EvidenceHasNoGaps'
  BY <1>2, <1>3 DEF DeliveryInv, NothingLost, EvidenceHasNoGaps
<1>8. RequestsInOrder'
  <2>1. ASSUME NEW q \in requests'
        PROVE  /\ q.rest \subseteq 1..Len(log)
               /\ \A e \in q.rest : \A d \in 1..e : d \in q.rest \cup recorded'
    <3>1. CASE q \in requests
      BY <1>2, <3>1 DEF DeliveryInv, RequestsInOrder
    <3>2. CASE Successor(q, r)
      BY <1>2, <3>2 DEF DeliveryInv, RequestsInOrder, Successor
    <3>3. QED
      BY <1>4, <3>1, <3>2
  <2>2. QED
    BY <1>3, <2>1 DEF RequestsInOrder
<1>9. BatchesInOrder'
  BY <1>2, <1>3 DEF DeliveryInv, BatchesInOrder
<1>10. AwaitedInHand'
  <2>1. ASSUME NEW t \in Tabs, NEW q \in requests', phase[t] = "upload",
               token[t] = q.token, q.stage # "rejected"
        PROVE  batch[t] \subseteq recorded' \cup (IF q.stage = "accepted" THEN {} ELSE q.rest)
    <3>1. CASE q \in requests
      BY <1>2, <2>1, <3>1 DEF DeliveryInv, AwaitedInHand
    <3>2. CASE Successor(q, r)
      <4>1. batch[t] \subseteq recorded \cup r.rest
        BY <2>1, <3>2 DEF DeliveryInv, AwaitedInHand, Successor
      <4>2. QED
        BY <1>2, <3>2, <4>1 DEF Successor
    <3>3. QED
      BY <1>4, <3>1, <3>2
  <2>2. QED
    BY <1>3, <2>1 DEF AwaitedInHand
<1>11. QED
  BY <1>5, <1>6, <1>7, <1>8, <1>9, <1>10 DEF DeliveryInv

-----------------------------------------------------------------------------
(* The page and its flush *)

\* The head of the flush loop preserves the invariant when the outbox holds
\* all that is not recorded, and the page is not loading.
LEMMA FlushLoopInv ==
  ASSUME OneTab, DeliveryInv, NEW t \in Tabs, NEW p \in Pages, p # "loading",
         FlushLoop(t, p, stored'),
         log' \in Seq(Event), Len(log') \in 1..MaxEvents, Len(log) <= Len(log'),
         stored' \subseteq 1..Len(log'),
         sequence' \in [Tabs -> 0..MaxEvents], ended' \in [Tabs -> BOOLEAN],
         seen' = seen, serverVars' = serverVars, requests' \subseteq requests,
         NumberedInOrder', NothingLost'
  PROVE  DeliveryInv'
<1> USE DEF serverVars
<1>1. /\ page' \in [Tabs -> Pages]
      /\ phase' \in [Tabs -> Phases]
      /\ batch' \in [Tabs -> SUBSET (1..Len(log'))]
      /\ token' \in [Tabs -> Tokens \cup {NoToken}]
      /\ \A u \in Tabs : u = t
      /\ page'[t] # "loading"
      /\ phase'[t] # "upload"
      /\ batch'[t] = Oldest(stored')
  BY FlushLoopEffect DEF DeliveryInv
<1>2. Len(log) \in Nat /\ Len(log') \in Nat /\ 1..Len(log) \subseteq 1..Len(log')
  BY DEF DeliveryInv, TypeOK
<1>3. TypeOK'
  BY <1>1, <1>2 DEF DeliveryInv, TypeOK
<1>4. LoadingKnows' /\ AwaitedInHand'
  BY <1>1 DEF LoadingKnows, AwaitedInHand
<1>5. EvidenceHasNoGaps' /\ RequestsInOrder'
  BY <1>2 DEF DeliveryInv, EvidenceHasNoGaps, RequestsInOrder
<1>6. BatchesInOrder'
  <2>1. ASSUME NEW e \in Oldest(stored'), NEW d \in 1..e
        PROVE  d \in Oldest(stored') \cup recorded'
    <3>1. e \in stored' /\ e \in 1..Len(log')
      BY <1>2, OldestIsPrefix
    <3>2. d \in 1..Len(log') /\ d <= e
      BY <1>2, <3>1
    <3>3. d \in stored' \/ d \in recorded'
      BY <3>2 DEF NothingLost
    <3>4. QED
      BY <1>2, <3>2, <3>3, OldestIsPrefix
  <2>2. QED
    BY <1>1, <2>1 DEF BatchesInOrder
<1>7. QED
  BY <1>3, <1>4, <1>5, <1>6 DEF DeliveryInv

\* The sequence numbers that recovery reads are those of the events named.
LEMMA NumbersKnown ==
  ASSUME DeliveryInv, NEW S \in SUBSET (1..Len(log))
  PROVE  /\ Max({0} \cup {log[e].seq : e \in S}) \in 0..Len(log)
         /\ \A e \in S : e <= Max({0} \cup {log[d].seq : d \in S})
<1> DEFINE N == {0} \cup {log[e].seq : e \in S}
<1>1. Len(log) \in Nat /\ \A e \in S : log[e].seq = e /\ e \in 1..Len(log)
  BY DEF DeliveryInv, NumberedInOrder, TypeOK
<1>2. N \in SUBSET (0..Len(log)) /\ N # {} /\ \A e \in S : e \in N
  BY <1>1
<1>3. Max(N) \in N /\ \A y \in N : y <= Max(N)
  BY <1>1, <1>2, GreatestElement
<1>4. QED
  BY <1>2, <1>3

\* Emitting an event keeps it.
LEMMA EmitInv ==
  ASSUME OneTab, DeliveryInv, NEW t \in Tabs, NEW k \in Kinds \ {Opening}, Emit(t, k)
  PROVE  DeliveryInv'
<1> DEFINE event == [seq |-> sequence[t] + 1, kind |-> k]
<1>1. /\ Len(log) \in Nat /\ Len(log) + 1 \in 1..MaxEvents
      /\ sequence[t] = Len(log) /\ page[t] = "open"
      /\ \A u \in Tabs : u = t
  BY DeliveryAssumption DEF OneTab, Emit, DeliveryInv, TypeOK, NumberedInOrder
<1>2. event \in Event
  BY <1>1 DEF Event
<1>3. /\ log' \in Seq(Event) /\ Len(log') = Len(log) + 1
      /\ \A e \in 1..Len(log) : log'[e] = log[e]
      /\ log'[Len(log) + 1] = event
  BY <1>2 DEF Emit, DeliveryInv, TypeOK
<1>4. stored' = stored \cup {Len(log) + 1} /\ stored' \subseteq 1..Len(log')
  <2>1. 1..Len(log) \subseteq 1..Len(log') /\ Len(log) + 1 \in 1..Len(log')
    BY <1>1, <1>3
  <2>2. stored \subseteq 1..Len(log)
    BY DEF DeliveryInv, TypeOK
  <2>3. stored' = stored \cup {Len(log) + 1}
    BY DEF Emit
  <2>4. QED
    BY <2>1, <2>2, <2>3
<1>5. /\ sequence' \in [Tabs -> 0..MaxEvents] /\ sequence'[t] = Len(log')
      /\ ended' \in [Tabs -> BOOLEAN] /\ seen' = seen
      /\ serverVars' = serverVars /\ requests' = requests
  BY <1>1, <1>3 DEF Emit, DeliveryInv, TypeOK
<1>6. NumberedInOrder'
  <2>1. \A e \in 1..Len(log') : e \in 1..Len(log) \/ e = Len(log) + 1
    BY <1>1, <1>3
  <2>2. event.seq = Len(log) + 1
    BY <1>1
  <2>3. \A e \in 1..Len(log') : log'[e].seq = e
    BY <1>3, <2>1, <2>2 DEF DeliveryInv, NumberedInOrder
  <2>4. log'[1].kind = Opening
    BY <1>1, <1>3 DEF DeliveryInv, NumberedInOrder, TypeOK
  <2>5. QED
    BY <1>1, <1>5, <2>3, <2>4 DEF NumberedInOrder
<1>7. NothingLost'
  <2>1. \A e \in 1..Len(log') : e \in 1..Len(log) \/ e = Len(log) + 1
    BY <1>1, <1>3
  <2>2. QED
    BY <1>4, <1>5, <2>1 DEF DeliveryInv, NothingLost, serverVars
<1>8. CASE phase[t] = "idle"
  <2>1. FlushLoop(t, page[t], stored')
    BY <1>8 DEF Emit
  <2>2. page[t] \in Pages /\ page[t] # "loading"
    BY <1>1 DEF Pages
  <2>3. Len(log') \in 1..MaxEvents /\ Len(log) <= Len(log') /\ requests' \subseteq requests
    BY <1>1, <1>3, <1>5
  <2>4. QED
    BY <1>3, <1>4, <1>5, <1>6, <1>7, <2>1, <2>2, <2>3, FlushLoopInv
<1>9. CASE phase[t] # "idle"
  <2>1. UNCHANGED <<page, phase, batch, token, consumed, recorded, dlq, active>>
    BY <1>5, <1>9 DEF Emit, flushVars, serverVars
  <2>2. 1..Len(log) \subseteq 1..Len(log')
    BY <1>1, <1>3
  <2>3. TypeOK'
    BY <1>1, <1>3, <1>4, <1>5, <2>1, <2>2 DEF DeliveryInv, TypeOK
  <2>4. LoadingKnows' /\ BatchesInOrder' /\ AwaitedInHand' /\ EvidenceHasNoGaps'
    BY <1>1, <1>5, <2>1 DEF DeliveryInv, LoadingKnows, BatchesInOrder, AwaitedInHand,
                            EvidenceHasNoGaps
  <2>5. RequestsInOrder'
    BY <1>5, <2>1, <2>2 DEF DeliveryInv, RequestsInOrder
  <2>6. QED
    BY <1>6, <1>7, <2>3, <2>4, <2>5 DEF DeliveryInv
<1>10. QED
  BY <1>8, <1>9

\* Retrying the current attempt keeps it.
LEMMA RetryInv ==
  ASSUME OneTab, DeliveryInv, NEW t \in Tabs, Retry(t)
  PROVE  DeliveryInv'
<1>1. /\ UNCHANGED <<log, stored, sequence, ended, seen, requests, serverVars>>
      /\ FlushLoop(t, page[t], stored')
      /\ page[t] \in Pages /\ page[t] # "loading"
  BY DEF Retry, Pages
<1>2. NumberedInOrder' /\ NothingLost'
  BY <1>1 DEF DeliveryInv, NumberedInOrder, NothingLost, serverVars
<1>3. /\ log' \in Seq(Event) /\ Len(log') \in 1..MaxEvents /\ Len(log) <= Len(log')
      /\ stored' \subseteq 1..Len(log')
      /\ sequence' \in [Tabs -> 0..MaxEvents] /\ ended' \in [Tabs -> BOOLEAN]
  BY <1>1 DEF DeliveryInv, TypeOK
<1>4. QED
  BY <1>1, <1>2, <1>3, FlushLoopInv

\* Loading the page keeps it.
LEMMA LoadInv ==
  ASSUME OneTab, DeliveryInv, NEW t \in Tabs, Load(t)
  PROVE  DeliveryInv'
<1>1. UNCHANGED <<log, stored, sequence, consumed, recorded, dlq, active>>
  BY DEF Load, serverVars
<1>2. /\ page' = [page EXCEPT ![t] = "loading"] /\ phase' = [phase EXCEPT ![t] = "idle"]
      /\ \A u \in Tabs : u = t
      /\ requests' \subseteq requests
  BY DEF OneTab, Load, WithoutReply
<1>3. phase'[t] = "idle"
  BY <1>2 DEF DeliveryInv, TypeOK
<1>4. LastSequence \in 0..Len(log) /\ \A e \in recorded : e <= LastSequence
  BY NumbersKnown DEF DeliveryInv, TypeOK, LastSequence
<1>5. TypeOK'
  <2>1. LastSequence \in 0..MaxEvents
    <3>1. Len(log) \in 1..MaxEvents
      BY DEF DeliveryInv, TypeOK
    <3>2. QED
      BY <1>4, <3>1, DeliveryAssumption
  <2>2. /\ page' \in [Tabs -> Pages] /\ phase' \in [Tabs -> Phases]
        /\ seen' \in [Tabs -> 0..MaxEvents] /\ ended' \in [Tabs -> BOOLEAN]
    BY <2>1 DEF DeliveryInv, TypeOK, Load, Pages, Phases
  <2>3. /\ batch' \in [Tabs -> SUBSET (1..Len(log'))]
        /\ token' \in [Tabs -> Tokens \cup {NoToken}]
    BY <1>1 DEF DeliveryInv, TypeOK, Load
  <2>4. QED
    BY <1>1, <1>2, <2>2, <2>3 DEF DeliveryInv, TypeOK
<1>6. LoadingKnows'
  <2>1. seen'[t] = LastSequence
    BY DEF Load, DeliveryInv, TypeOK
  <2>2. Len(log) \in Nat /\ Len(log) \in 1..Len(log) /\ 1 \in 1..Len(log)
    BY DEF DeliveryInv, TypeOK
  <2>3. Len(log) \in stored \/ LastSequence = Len(log)
    BY <1>4, <2>2 DEF DeliveryInv, NothingLost
  <2>4. 1 \in stored \/ LastSequence > 0
    BY <1>4, <2>2 DEF DeliveryInv, NothingLost
  <2>5. QED
    BY <1>1, <1>2, <1>3, <1>4, <2>1, <2>3, <2>4, <2>2 DEF LoadingKnows
<1>7. NumberedInOrder' /\ NothingLost' /\ EvidenceHasNoGaps' /\ RequestsInOrder'
  BY <1>1, <1>2 DEF DeliveryInv, NumberedInOrder, NothingLost, EvidenceHasNoGaps, RequestsInOrder
<1>8. BatchesInOrder' /\ AwaitedInHand'
  BY <1>2, <1>3 DEF BatchesInOrder, AwaitedInHand
<1>9. QED
  BY <1>5, <1>6, <1>7, <1>8 DEF DeliveryInv

\* Configuring the outbox keeps it.
LEMMA ConfigureInv ==
  ASSUME OneTab, DeliveryInv, NEW t \in Tabs, Configure(t)
  PROVE  DeliveryInv' /\ UNCHANGED <<log, stored, serverVars>>
<1>1. /\ page[t] = "loading"
      /\ seen[t] \in 0..Len(log)
      /\ Len(log) \in stored \/ seen[t] = Len(log)
      /\ 1 \in stored \/ seen[t] > 0
      /\ Len(log) \in Nat
  BY DEF Configure, DeliveryInv, LoadingKnows, TypeOK
<1>2. PendingSequence \in 0..Len(log) /\ \A e \in stored : e <= PendingSequence
  BY NumbersKnown DEF DeliveryInv, TypeOK, PendingSequence
<1>3. Max({seen[t], PendingSequence}) = Len(log)
  <2> DEFINE S == {seen[t], PendingSequence}
  <2>1. S \in SUBSET (0..Len(log)) /\ S # {}
    BY <1>1, <1>2
  <2>2. Max(S) \in S /\ \A y \in S : y <= Max(S)
    BY <1>1, <2>1, GreatestElement
  <2>3. Len(log) <= PendingSequence \/ seen[t] = Len(log)
    BY <1>1, <1>2
  <2>4. Len(log) <= Max(S)
    BY <1>1, <1>2, <2>2, <2>3
  <2>5. QED
    BY <1>1, <2>1, <2>2, <2>4
<1>4. seen[t] > 0 \/ \E e \in stored : log[e].kind = Opening
  BY <1>1 DEF DeliveryInv, NumberedInOrder
<1>5. /\ log' = log /\ stored' = stored
      /\ sequence' = [sequence EXCEPT ![t] = Len(log)]
      /\ FlushLoop(t, "recovering", stored')
      /\ UNCHANGED <<ended, seen, requests, serverVars>>
  BY <1>3, <1>4 DEF Configure
<1>6. /\ log' \in Seq(Event) /\ Len(log') \in 1..MaxEvents /\ Len(log) <= Len(log')
      /\ stored' \subseteq 1..Len(log')
      /\ sequence' \in [Tabs -> 0..MaxEvents] /\ ended' \in [Tabs -> BOOLEAN]
  BY <1>5 DEF DeliveryInv, TypeOK
<1>7. NumberedInOrder' /\ NothingLost'
  <2>1. \A u \in Tabs : sequence'[u] = Len(log)
    BY <1>5 DEF OneTab, DeliveryInv, TypeOK
  <2>2. QED
    BY <1>5, <2>1 DEF DeliveryInv, NumberedInOrder, NothingLost, serverVars
<1>8. QED
  BY <1>5, <1>6, <1>7, FlushLoopInv DEF Pages

\* The pages a recovered or failed flush leads to are not loading.
LEMMA PageInv ==
  ASSUME OneTab, DeliveryInv, NEW t \in Tabs, NEW p \in Pages \ {"loading"},
         page' = [page EXCEPT ![t] = p], phase' = [phase EXCEPT ![t] = "idle"],
         batch' \in [Tabs -> SUBSET (1..Len(log))], token' \in [Tabs -> Tokens \cup {NoToken}],
         requests' \subseteq requests,
         UNCHANGED <<log, stored, sequence, ended, seen, serverVars>>
  PROVE  DeliveryInv'
<1> USE DEF serverVars
<1>1. /\ page'[t] # "loading" /\ phase'[t] = "idle"
      /\ \A u \in Tabs : u = t
  BY DEF OneTab, DeliveryInv, TypeOK
<1>2. TypeOK'
  BY DEF DeliveryInv, TypeOK, Phases
<1>3. NumberedInOrder' /\ NothingLost' /\ EvidenceHasNoGaps' /\ RequestsInOrder'
  BY DEF DeliveryInv, NumberedInOrder, NothingLost, EvidenceHasNoGaps, RequestsInOrder
<1>4. LoadingKnows' /\ BatchesInOrder' /\ AwaitedInHand'
  BY <1>1 DEF LoadingKnows, BatchesInOrder, AwaitedInHand
<1>5. QED
  BY <1>2, <1>3, <1>4 DEF DeliveryInv

\* Resuming a session keeps it.
LEMMA ResumeInv ==
  ASSUME OneTab, DeliveryInv, NEW t \in Tabs, Resume(t) \/ OnlineResume(t) \/ ResumeFails(t)
  PROVE  DeliveryInv'
<1>1. \E p \in Pages \ {"loading"} : page' = [page EXCEPT ![t] = p]
  BY DEF Resume, OnlineResume, ResumeFails, Pages
<1>2. /\ phase' = [phase EXCEPT ![t] = "idle"] /\ batch' = batch /\ token' = token
      /\ UNCHANGED <<log, stored, sequence, ended, seen, requests, serverVars>>
  BY DEF Resume, OnlineResume, ResumeFails
<1>3. QED
  BY <1>1, <1>2, PageInv DEF DeliveryInv, TypeOK

\* A flush that fails keeps it.
LEMMA FlushFailsInv ==
  ASSUME OneTab, DeliveryInv, NEW t \in Tabs, FlushFails(t)
  PROVE  DeliveryInv'
<1>1. page[t] # "loading"
  BY DEF FlushFails, DeliveryInv, LoadingKnows
<1>2. \E p \in Pages \ {"loading"} : page' = [page EXCEPT ![t] = p]
  BY <1>1 DEF FlushFails, Pages, DeliveryInv, TypeOK
<1>3. /\ phase' = [phase EXCEPT ![t] = "idle"]
      /\ batch' \in [Tabs -> SUBSET (1..Len(log))]
      /\ token' \in [Tabs -> Tokens \cup {NoToken}]
      /\ requests' \subseteq requests
      /\ UNCHANGED <<log, stored, sequence, ended, seen, serverVars>>
  BY DEF FlushFails, WithoutReply, DeliveryInv, TypeOK
<1>4. QED
  BY <1>2, <1>3, PageInv

\* A new credential keeps it.
LEMMA CredentialInv ==
  ASSUME OneTab, DeliveryInv, NEW t \in Tabs, Credential(t)
  PROVE  DeliveryInv'
<1>1. PICK k \in Tokens \ ({r.token : r \in requests} \cup {token[u] : u \in Tabs}) :
        /\ token' = [token EXCEPT ![t] = k]
        /\ consumed' = consumed \ {k}
        /\ requests' = requests \cup
             {[token |-> k, rest |-> batch[t], attempt |-> 1, stage |-> "sent"]}
  BY DEF Credential
<1> DEFINE q == [token |-> k, rest |-> batch[t], attempt |-> 1, stage |-> "sent"]
<1>2. /\ phase[t] = "credential" /\ phase' = [phase EXCEPT ![t] = "upload"]
      /\ UNCHANGED <<log, stored, page, sequence, ended, seen, batch, recorded, dlq, active>>
      /\ \A u \in Tabs : u = t
  BY DEF OneTab, Credential, tabVars
<1>3. page[t] # "loading" /\ phase'[t] = "upload" /\ token'[t] = k
  BY <1>1, <1>2 DEF DeliveryInv, LoadingKnows, TypeOK
<1>4. q \in Request
  <2>1. batch[t] \subseteq 1..MaxEvents
    <3>1. Len(log) \in 1..MaxEvents /\ batch[t] \subseteq 1..Len(log)
      BY DEF DeliveryInv, TypeOK
    <3>2. QED
      BY <3>1, DeliveryAssumption
  <2>2. QED
    BY <2>1, DeliveryAssumption DEF Request, Stages
<1>5. TypeOK'
  BY <1>1, <1>2, <1>4 DEF DeliveryInv, TypeOK, Phases
<1>6. NumberedInOrder' /\ NothingLost' /\ EvidenceHasNoGaps' /\ LoadingKnows' /\ BatchesInOrder'
  BY <1>2, <1>3 DEF DeliveryInv, NumberedInOrder, NothingLost, EvidenceHasNoGaps,
                    LoadingKnows, BatchesInOrder
<1>7. RequestsInOrder'
  <2>1. /\ q.rest = batch[t] /\ batch[t] \subseteq 1..Len(log)
        /\ \A e \in batch[t] : \A d \in 1..e : d \in batch[t] \cup recorded
    BY <1>2 DEF DeliveryInv, BatchesInOrder, TypeOK
  <2>2. QED
    BY <1>1, <1>2, <2>1 DEF DeliveryInv, RequestsInOrder
<1>8. AwaitedInHand'
  <2>1. \A r \in requests' : r.token = k => r = q
    BY <1>1
  <2>2. QED
    BY <1>2, <1>3, <2>1 DEF AwaitedInHand
<1>9. QED
  BY <1>5, <1>6, <1>7, <1>8 DEF DeliveryInv

\* A delivered batch is forgotten when it is recorded.
LEMMA DeliveredReleases ==
  ASSUME OneTab, DeliveryInv, NEW t \in Tabs, Delivered(t)
  PROVE  /\ batch[t] \subseteq recorded
         /\ stored' = stored \ batch[t]
<1>1. PICK r \in requests :
        /\ phase[t] = "upload" /\ r.token = token[t] /\ r.stage = "accepted"
        /\ stored' = {e \in stored : ~\E d \in batch[t] : log[d] = log[e]}
  BY DEF Delivered
<1>2. batch[t] \subseteq recorded
  BY <1>1 DEF DeliveryInv, AwaitedInHand
<1>3. \A d, e \in 1..Len(log) : log[d] = log[e] => d = e
  BY DEF DeliveryInv, NumberedInOrder
<1>4. stored \subseteq 1..Len(log) /\ batch[t] \subseteq 1..Len(log)
  BY DEF DeliveryInv, TypeOK
<1>5. QED
  BY <1>1, <1>2, <1>3, <1>4

\* An acknowledged batch keeps it.
LEMMA DeliveredInv ==
  ASSUME OneTab, DeliveryInv, NEW t \in Tabs, Delivered(t)
  PROVE  DeliveryInv'
<1>1. /\ FlushLoop(t, page[t], stored')
      /\ UNCHANGED <<log, sequence, ended, seen, serverVars>>
      /\ requests' \subseteq requests
      /\ phase[t] = "upload"
  BY DEF Delivered
<1>2. page[t] \in Pages /\ page[t] # "loading"
  BY <1>1 DEF DeliveryInv, LoadingKnows, TypeOK
<1>3. stored' = stored \ batch[t] /\ batch[t] \subseteq recorded
  BY DeliveredReleases
<1>4. NumberedInOrder' /\ NothingLost'
  BY <1>1, <1>3 DEF DeliveryInv, NumberedInOrder, NothingLost, serverVars
<1>5. /\ log' \in Seq(Event) /\ Len(log') \in 1..MaxEvents /\ Len(log) <= Len(log')
      /\ stored' \subseteq 1..Len(log')
      /\ sequence' \in [Tabs -> 0..MaxEvents] /\ ended' \in [Tabs -> BOOLEAN]
  <2>1. stored \subseteq 1..Len(log) /\ log' = log
    BY <1>1 DEF DeliveryInv, TypeOK
  <2>2. stored' \subseteq 1..Len(log')
    BY <1>3, <2>1
  <2>3. QED
    BY <1>1, <2>2 DEF DeliveryInv, TypeOK
<1>6. QED
  BY <1>1, <1>2, <1>4, <1>5, FlushLoopInv

-----------------------------------------------------------------------------
(* The theorems *)

\* Every step keeps it.
LEMMA NextDelivery == OneTab /\ DeliveryInv /\ [Next]_vars => DeliveryInv'
<1> SUFFICES ASSUME OneTab, DeliveryInv, [Next]_vars
             PROVE  DeliveryInv'
  OBVIOUS
<1>1. ASSUME NEW t \in Tabs, PageStep(t) PROVE DeliveryInv'
  BY <1>1, EmitInv, RetryInv, LoadInv, ConfigureInv, ResumeInv DEF PageStep
<1>2. ASSUME NEW t \in Tabs, FlushStep(t) PROVE DeliveryInv'
  BY <1>2, CredentialInv, DeliveredInv, FlushFailsInv DEF FlushStep
<1>3. ASSUME NEW r \in requests, ServerStep(r) \/ Lose(r) PROVE DeliveryInv'
  BY <1>3, ServerInv
<1>4. CASE UNCHANGED vars
  <2> USE <1>4 DEF vars, tabVars, flushVars, serverVars
  <2>1. TypeOK' /\ NumberedInOrder' /\ LoadingKnows' /\ NothingLost'
    BY DEF DeliveryInv, TypeOK, NumberedInOrder, LoadingKnows, NothingLost
  <2>2. EvidenceHasNoGaps' /\ RequestsInOrder' /\ BatchesInOrder' /\ AwaitedInHand'
    BY DEF DeliveryInv, EvidenceHasNoGaps, RequestsInOrder, BatchesInOrder, AwaitedInHand
  <2>3. QED
    BY <2>1, <2>2 DEF DeliveryInv
<1>5. QED
  BY <1>1, <1>2, <1>3, <1>4 DEF Next

\* It holds of every behaviour of a session in one tab.
LEMMA DeliveryInvariant == ASSUME OneTab PROVE Spec => []DeliveryInv
<1>1. Init => DeliveryInv
  BY InitDelivery
<1>2. DeliveryInv /\ [Next]_vars => DeliveryInv'
  BY NextDelivery
<1>3. QED
  BY <1>1, <1>2, PTL DEF Spec

\* In a session driven from one tab the state always has its type.
THEOREM TypeCorrect == ASSUME OneTab PROVE Spec => []TypeOK
<1>1. DeliveryInv => TypeOK
  BY DEF DeliveryInv
<1>2. QED
  BY <1>1, DeliveryInvariant, PTL

\* In a session driven from one tab no emitted event is lost, whatever the
\* batch size, the attempts, the failures and the reloads: it stays in the
\* outbox until it is recorded.
THEOREM NothingIsLost == ASSUME OneTab PROVE Spec => []NothingLost
<1>1. DeliveryInv => NothingLost
  BY DEF DeliveryInv
<1>2. QED
  BY <1>1, DeliveryInvariant, PTL

\* In a session driven from one tab the table always holds a prefix of the
\* emitted events, even while abandoned requests and their retries overlap.
THEOREM EvidenceIsAPrefix == ASSUME OneTab PROVE Spec => []EvidenceHasNoGaps
<1>1. DeliveryInv => EvidenceHasNoGaps
  BY DEF DeliveryInv
<1>2. QED
  BY <1>1, DeliveryInvariant, PTL

\* In a session driven from one tab sequence numbers increase, across reloads
\* too: configureRuntime always finds the last one.
THEOREM NumberingIncreases == ASSUME OneTab PROVE Spec => []SequenceIncreases
<1>1. DeliveryInv => SequenceIncreases
  BY DEF DeliveryInv, NumberedInOrder, SequenceIncreases
<1>2. QED
  BY <1>1, DeliveryInvariant, PTL

\* The steps of the server are steps of the log, or leave it alone.
LEMMA ServerRefines ==
  ASSUME DeliveryInv, NEW r \in requests, ServerStep(r) \/ Lose(r)
  PROVE  [Evidence!LogNext]_(Evidence!logVars)
<1>1. UNCHANGED <<log, stored>> /\ (recorded' = recorded \/ RecordsNext)
  BY ServerStepEffect DEF ServerChange
<1>2. CASE RecordsNext
  BY <1>1, <1>2 DEF RecordsNext, Evidence!LogNext, Evidence!RecordNext
<1>3. QED
  BY <1>1, <1>2 DEF Evidence!logVars

\* So are those of the tab.
LEMMA TabRefines ==
  ASSUME OneTab, DeliveryInv, NEW t \in Tabs, PageStep(t) \/ FlushStep(t)
  PROVE  [Evidence!LogNext]_(Evidence!logVars)
<1>1. CASE \E k \in Kinds \ {Opening} : Emit(t, k)
  <2>1. PICK k \in Kinds : Emit(t, k)
    BY <1>1
  <2>2. Len(log') = Len(log) + 1 /\ stored' = stored \cup {Len(log')} /\ recorded' = recorded
    BY <2>1 DEF Emit, DeliveryInv, TypeOK, serverVars
  <2>3. QED
    BY <2>2 DEF Evidence!LogNext, Evidence!EmitNext
<1>2. CASE Delivered(t)
  <2>1. stored' = stored \ (batch[t] \cap stored) /\ batch[t] \cap stored \in SUBSET (stored \cap recorded)
    BY <1>2, DeliveredReleases
  <2>2. Len(log') = Len(log) /\ recorded' = recorded
    BY <1>2 DEF Delivered, serverVars
  <2>3. QED
    BY <2>1, <2>2 DEF Evidence!LogNext, Evidence!Release
<1>3. CASE Configure(t)
  BY <1>3, ConfigureInv DEF Evidence!logVars, serverVars
<1>4. CASE Retry(t) \/ Load(t)
  BY <1>4 DEF Retry, Load, serverVars, Evidence!logVars
<1>5. CASE Resume(t) \/ OnlineResume(t) \/ ResumeFails(t)
  BY <1>5 DEF Resume, OnlineResume, ResumeFails, serverVars, Evidence!logVars
<1>6. CASE Credential(t) \/ FlushFails(t)
  BY <1>6 DEF Credential, FlushFails, serverVars, Evidence!logVars
<1>7. QED
  BY <1>1, <1>2, <1>3, <1>4, <1>5, <1>6 DEF PageStep, FlushStep

\* In a session driven from one tab the whole delivery path implements the
\* abstract evidence log.
THEOREM DeliveryImplementsLog == ASSUME OneTab PROVE Spec => ImplementsEvidenceLog
<1>1. Init => Evidence!LogInit
  BY DEF Init, Evidence!LogInit
<1>2. DeliveryInv /\ [Next]_vars => [Evidence!LogNext]_(Evidence!logVars)
  <2>1. CASE UNCHANGED vars
    BY <2>1 DEF vars, serverVars, Evidence!logVars
  <2>2. QED
    BY <2>1, ServerRefines, TabRefines DEF Next
<1>3. QED
  BY <1>1, <1>2, DeliveryInvariant, PTL DEF Spec, ImplementsEvidenceLog, Evidence!LogSpec

-----------------------------------------------------------------------------
(* Rows and their order. *)

\* The elements of a sequence, put together or cut.
LEMMA ElementsFacts ==
  ASSUME NEW T, NEW table \in Seq(T)
  PROVE  /\ Elements(table) \in SUBSET T /\ IsFiniteSet(Elements(table))
         /\ table \in Seq(Elements(table))
         /\ \A x \in Elements(table) : \E i \in DOMAIN table : table[i] = x
         /\ \A i \in DOMAIN table : table[i] \in Elements(table)
<1>1. DOMAIN table = 1 .. Len(table) /\ Len(table) \in Nat /\ table \in [1 .. Len(table) -> T]
  BY LenProperties
<1>2. Elements(table) \in SUBSET T
  BY <1>1 DEF Elements
<1>3. IsFiniteSet(Elements(table))
  <2>1. IsFiniteSet(DOMAIN table)
    BY <1>1, FS_Interval
  <2> DEFINE f == [i \in DOMAIN table |-> table[i]]
  <2>2. f \in Surjection(DOMAIN table, Elements(table))
    <3>1. f \in [DOMAIN table -> Elements(table)]
      BY DEF Elements
    <3>2. \A x \in Elements(table) : \E i \in DOMAIN table : f[i] = x
      BY DEF Elements
    <3>3. QED
      BY <3>1, <3>2 DEF Surjection
  <2>3. QED
    BY <2>1, <2>2, FS_Surjection
<1>4. table \in Seq(Elements(table))
  <2>1. table \in [1 .. Len(table) -> Elements(table)]
    BY <1>1 DEF Elements
  <2>2. QED
    BY <1>1, <2>1
<1>5. QED
  BY <1>2, <1>3, <1>4 DEF Elements

IsList(x) == x \in Seq(Elements(x))

\* Two sequences one after the other.
Joined(x, y) == x \o y

\* The elements of two sequences put together, and their places.
LEMMA ElementsOfConcat ==
  ASSUME NEW x, NEW y, IsList(x), IsList(y)
  PROVE  /\ IsList(Joined(x, y))
         /\ Elements(Joined(x, y)) = Elements(x) \cup Elements(y)
         /\ Len(Joined(x, y)) = Len(x) + Len(y)
         /\ \A i \in 1 .. Len(x) : Joined(x, y)[i] = x[i]
         /\ \A i \in 1 .. Len(y) : Joined(x, y)[Len(x) + i] = y[i]
<1> DEFINE T == Elements(x)
           U == Elements(y)
<1>1. x \in Seq(T \cup U) /\ y \in Seq(T \cup U)
  BY DEF IsList
<1> HIDE DEF T, U
<1>2. /\ x \o y \in Seq(T \cup U) /\ Len(x \o y) = Len(x) + Len(y)
      /\ \A i \in 1 .. (Len(x) + Len(y)) :
           (x \o y)[i] = IF i <= Len(x) THEN x[i] ELSE y[i - Len(x)]
  BY <1>1, ConcatProperties
<1>3. /\ Len(x) \in Nat /\ Len(y) \in Nat
      /\ DOMAIN x = 1 .. Len(x) /\ DOMAIN y = 1 .. Len(y)
      /\ DOMAIN (x \o y) = 1 .. (Len(x) + Len(y))
  BY <1>1, <1>2, LenProperties
<1> DEFINE z == x \o y
<1>4. \A i \in 1 .. Len(x) : z[i] = x[i]
  BY <1>2, <1>3
<1>5. \A i \in 1 .. Len(y) : z[Len(x) + i] = y[i]
  BY <1>2, <1>3
<1>6. \A i \in DOMAIN z : i \in 1 .. Len(x) \/ \E j \in 1 .. Len(y) : i = Len(x) + j
  <2>1. TAKE i \in DOMAIN z
  <2>2. CASE i <= Len(x)
    BY <1>3, <2>2
  <2>3. CASE ~(i <= Len(x))
    <3>1. i - Len(x) \in 1 .. Len(y) /\ i = Len(x) + (i - Len(x))
      BY <1>3, <2>3
    <3>2. QED
      BY <3>1
  <2>4. QED
    BY <2>2, <2>3
<1>7. \A i \in 1 .. Len(x) : i \in DOMAIN z
  BY <1>3
<1>8. \A i \in 1 .. Len(y) : Len(x) + i \in DOMAIN z
  BY <1>3
<1>9. z \in Seq(T \cup U) /\ Len(z) = Len(x) + Len(y)
  BY <1>2
<1> HIDE DEF z
<1>10. Elements(z) = Elements(x) \cup Elements(y)
  <2>1. \A e \in Elements(z) : e \in Elements(x) \cup Elements(y)
    <3>1. \A i \in DOMAIN z : z[i] \in Elements(x) \cup Elements(y)
      <4>1. TAKE i \in DOMAIN z
      <4>2. CASE i \in 1 .. Len(x)
        BY <1>3, <1>4, <4>2 DEF Elements
      <4>3. CASE \E j \in 1 .. Len(y) : i = Len(x) + j
        BY <1>3, <1>5, <4>3 DEF Elements
      <4>4. QED
        BY <1>6, <4>2, <4>3
    <3>2. QED
      BY <3>1 DEF Elements
  <2>2. \A e \in Elements(x) : e \in Elements(z)
    BY <1>3, <1>4, <1>7 DEF Elements
  <2>3. \A e \in Elements(y) : e \in Elements(z)
    BY <1>3, <1>5, <1>8 DEF Elements
  <2>4. QED
    BY <2>1, <2>2, <2>3
<1>11. IsList(z)
  BY <1>9, ElementsFacts DEF IsList
<1>12. QED
  BY <1>4, <1>5, <1>9, <1>10, <1>11 DEF z, Joined

\* A table of events: a sequence of rows whose ids increase.
IsTable(table, next) ==
  /\ IsList(table) /\ next \in Nat \ {0}
  /\ \A i \in DOMAIN table : /\ table[i].id \in 1 .. (next - 1) /\ table[i].at \in Nat
                             /\ table[i].session \in Sessions
  /\ \A i, j \in DOMAIN table : i < j => table[i].id < table[j].id

\* In a table, the order of pages is total: a row is found at its place.
LEMMA PlaceFacts ==
  ASSUME NEW table, NEW next, IsTable(table, next)
  PROVE  /\ Len(table) \in Nat
         /\ \A e \in Elements(table) : PlaceOf(e, table) \in 1 .. Len(table)
         /\ InPageOrder(table) \in Seq(Elements(table))
         /\ Len(InPageOrder(table)) = Len(table)
         /\ \A e \in Elements(table) : InPageOrder(table)[PlaceOf(e, table)] = e
<1> DEFINE S == Elements(table)
           R == {p \in S \X S : Earlier(p[1], p[2])}
           rank == [x \in S |-> Cardinality({y \in S : y = x \/ <<y, x>> \in R})]
<1>1. /\ DOMAIN table = 1 .. Len(table) /\ Len(table) \in Nat
      /\ IsFiniteSet(S)
      /\ \A x \in S : \E i \in DOMAIN table : table[i] = x
      /\ \A i \in DOMAIN table : table[i] \in S
  BY ElementsFacts, LenProperties DEF IsTable, IsList
<1>2. \A i, j \in DOMAIN table : i < j \/ j < i \/ i = j
  BY <1>1
<1>3. \A i, j \in DOMAIN table : table[i].id = table[j].id => i = j
  BY <1>2 DEF IsTable
<1>4. \A x \in S : x.id \in Nat /\ x.at \in Nat
  BY <1>1 DEF IsTable
<1>5. \A x, y \in S : x.id = y.id => x = y
  BY <1>1, <1>3
<1>6. Cardinality(S) = Len(table)
  <2> DEFINE f == [i \in 1 .. Len(table) |-> table[i]]
  <2>1. f \in Bijection(1 .. Len(table), S)
    <3>1. f \in [1 .. Len(table) -> S]
      BY <1>1
    <3>2. \A i, j \in 1 .. Len(table) : f[i] = f[j] => i = j
      BY <1>1, <1>3
    <3>3. \A x \in S : \E i \in 1 .. Len(table) : f[i] = x
      BY <1>1
    <3>4. QED
      BY <3>1, <3>2, <3>3 DEF Bijection, Injection, Surjection, IsInjective
  <2>2. IsFiniteSet(1 .. Len(table)) /\ Cardinality(1 .. Len(table)) = Len(table)
    BY <1>1, FS_Interval
  <2>3. ExistsBijection(1 .. Len(table), S)
    BY <2>1, Zenon DEF ExistsBijection
  <2>4. QED
    BY <2>2, <2>3, FS_Bijection
<1>7. \A x, y \in S : <<x, y>> \in R <=> Earlier(x, y)
  OBVIOUS
<1> HIDE DEF S
<1>8. /\ \A x \in S : <<x, x>> \notin R
      /\ \A x, y \in S : x = y \/ <<x, y>> \in R \/ <<y, x>> \in R
      /\ \A x, y, z \in S : <<x, y>> \in R /\ <<y, z>> \in R => <<x, z>> \in R
  <2>1. \A x \in S : ~Earlier(x, x)
    BY <1>4 DEF Earlier
  <2>2. \A x, y \in S : x = y \/ Earlier(x, y) \/ Earlier(y, x)
    BY <1>4, <1>5 DEF Earlier
  <2>3. \A x, y, z \in S : Earlier(x, y) /\ Earlier(y, z) => Earlier(x, z)
    BY <1>4 DEF Earlier
  <2> HIDE DEF R
  <2>4. QED
    BY <1>7, <2>1, <2>2, <2>3
<1> HIDE DEF R
<1>9. /\ \A x \in S : rank[x] \in 1 .. Cardinality(S)
      /\ \A x, y \in S : rank[x] = rank[y] => x = y
      /\ \A k \in 1 .. Cardinality(S) : \E x \in S : rank[x] = k
  <2>1. \A f : f = [x \in S |-> Cardinality({y \in S : y = x \/ <<y, x>> \in R})] =>
          /\ \A x \in S : f[x] \in 1 .. Cardinality(S)
          /\ \A x, y \in S : f[x] < f[y] <=> <<x, y>> \in R
          /\ \A x, y \in S : f[x] = f[y] => x = y
          /\ \A k \in 1 .. Cardinality(S) : \E x \in S : f[x] = k
    BY <1>1, <1>8, RanksNumber
  <2>2. QED
    BY <2>1
<1>10. \A x \in S : rank[x] = PlaceOf(x, table)
  <2>1. TAKE x \in S
  <2>2. {y \in S : y = x \/ <<y, x>> \in R} = {d \in S : d = x \/ Earlier(d, x)}
    BY <1>7
  <2>3. QED
    BY <2>2 DEF PlaceOf, S
<1> HIDE DEF rank
<1>11. \A k \in 1 .. Len(table) :
         /\ InPageOrder(table)[k] \in S /\ PlaceOf(InPageOrder(table)[k], table) = k
  <2>1. TAKE k \in 1 .. Len(table)
  <2>2. \E e \in S : PlaceOf(e, table) = k
    BY <1>6, <1>9, <1>10
  <2>3. InPageOrder(table)[k] = CHOOSE e \in S : PlaceOf(e, table) = k
    BY <1>1 DEF InPageOrder, S
  <2>4. QED
    BY <2>2, <2>3
<1>12. InPageOrder(table) \in [1 .. Len(table) -> S]
  BY <1>1, <1>11 DEF InPageOrder
<1>13. InPageOrder(table) \in Seq(S) /\ Len(InPageOrder(table)) = Len(table)
  BY <1>1, <1>12
<1>14. \A e \in S : PlaceOf(e, table) \in 1 .. Len(table)
  BY <1>6, <1>9, <1>10
<1>15. \A e \in S : InPageOrder(table)[PlaceOf(e, table)] = e
  BY <1>9, <1>10, <1>11, <1>14
<1>16. QED
  BY <1>1, <1>13, <1>14, <1>15 DEF S

\* A row that is added leaves the others where they are, or moves them on.
LEMMA PlacesMoveOn ==
  ASSUME NEW table, NEW more, IsFiniteSet(Elements(more)),
         Elements(table) \in SUBSET Elements(more), NEW e
  PROVE  /\ PlaceOf(e, table) \in Nat /\ PlaceOf(e, more) \in Nat
         /\ PlaceOf(e, table) <= PlaceOf(e, more)
<1> DEFINE U(t) == {d \in Elements(t) : d = e \/ Earlier(d, e)}
<1>1. U(table) \in SUBSET U(more) /\ IsFiniteSet(U(more))
  BY FS_Subset
<1>2. IsFiniteSet(U(table)) /\ Cardinality(U(table)) <= Cardinality(U(more))
  BY <1>1, FS_Subset
<1>3. Cardinality(U(table)) \in Nat /\ Cardinality(U(more)) \in Nat
  BY <1>1, <1>2, FS_CardinalityType
<1>4. QED
  BY <1>2, <1>3 DEF PlaceOf

-----------------------------------------------------------------------------
(* What the triggers derive. *)

\* The kinds of rows that decide a task.
Deciding == {"task_success", "task_failed"}

\* At most the first of some kinds decides, and only if `given' says so.
DecidesFirst(kinds, given) == \A i \in DOMAIN kinds : kinds[i].type \in Deciding => i = 1 /\ given

\* Kinds that do not decide may follow.
LEMMA DecidesFirstOfMore ==
  ASSUME NEW x, IsList(x), NEW y, IsList(y), NEW given,
         DecidesFirst(x, given), DecidesFirst(y, FALSE)
  PROVE  DecidesFirst(Joined(x, y), given) /\ IsList(Joined(x, y))
<1>1. /\ IsList(Joined(x, y)) /\ Len(Joined(x, y)) = Len(x) + Len(y)
      /\ \A i \in 1 .. Len(x) : Joined(x, y)[i] = x[i]
      /\ \A i \in 1 .. Len(y) : Joined(x, y)[Len(x) + i] = y[i]
  BY ElementsOfConcat
<1> DEFINE z == Joined(x, y)
<1> HIDE DEF z
<1>2. /\ Len(x) \in Nat /\ Len(y) \in Nat /\ DOMAIN x = 1 .. Len(x) /\ DOMAIN y = 1 .. Len(y)
      /\ DOMAIN z = 1 .. (Len(x) + Len(y))
  BY <1>1, LenProperties DEF IsList, z
<1>3. ASSUME NEW i \in DOMAIN z, z[i].type \in Deciding PROVE i = 1 /\ given
  <2>1. CASE i <= Len(x)
    <3>1. i \in DOMAIN x /\ z[i] = x[i]
      BY <1>1, <1>2, <2>1 DEF z
    <3>2. QED
      BY <1>3, <3>1 DEF DecidesFirst
  <2>2. CASE ~(i <= Len(x))
    <3>1. i - Len(x) \in 1 .. Len(y) /\ Len(x) + (i - Len(x)) = i
      BY <1>2, <2>2
    <3>2. z[Len(x) + (i - Len(x))] = y[i - Len(x)]
      BY <1>1, <3>1 DEF z
    <3>3. z[i] = y[i - Len(x)] /\ i - Len(x) \in DOMAIN y
      BY <1>2, <3>1, <3>2
    <3>4. QED
      BY <1>3, <3>3 DEF DecidesFirst
  <2>3. QED
    BY <2>1, <2>2
<1>4. QED
  BY <1>1, <1>3 DEF DecidesFirst, z

\* At most one of some kinds is a misclick, and only if `given' says so.
ClickedOnce(kinds, given) ==
  \A i \in DOMAIN kinds : kinds[i].type = "misclick" =>
    given /\ \A j \in DOMAIN kinds : kinds[j].type = "misclick" => j = i

Unclicked(kinds) == \A k \in Elements(kinds) : k.type # "misclick"

\* One of two lists may have it.
LEMMA ClickedOnceOfMore ==
  ASSUME NEW x, IsList(x), NEW y, IsList(y), NEW given,
         ClickedOnce(x, given), ClickedOnce(y, given), Unclicked(x) \/ Unclicked(y)
  PROVE  ClickedOnce(Joined(x, y), given) /\ IsList(Joined(x, y))
<1> DEFINE z == Joined(x, y)
<1>1. /\ IsList(z) /\ Len(z) = Len(x) + Len(y)
      /\ \A i \in 1 .. Len(x) : z[i] = x[i]
      /\ \A i \in 1 .. Len(y) : z[Len(x) + i] = y[i]
  BY ElementsOfConcat
<1> HIDE DEF z
<1>2. /\ Len(x) \in Nat /\ Len(y) \in Nat /\ DOMAIN x = 1 .. Len(x) /\ DOMAIN y = 1 .. Len(y)
      /\ DOMAIN z = 1 .. (Len(x) + Len(y))
  BY <1>1, LenProperties DEF IsList
<1> DEFINE clicks(l) == {i \in DOMAIN l : l[i].type = "misclick"}
<1>3. \A i \in clicks(z) : i \in clicks(x) \/ (i - Len(x) \in clicks(y) /\ i \in Nat)
  <2>1. TAKE i \in clicks(z)
  <2>2. CASE i <= Len(x)
    <3>1. i \in DOMAIN x /\ z[i] = x[i]
      BY <1>1, <1>2, <2>2
    <3>2. QED
      BY <3>1
  <2>3. CASE ~(i <= Len(x))
    <3>1. i - Len(x) \in 1 .. Len(y) /\ Len(x) + (i - Len(x)) = i /\ i \in Nat
      BY <1>2, <2>3
    <3>2. z[Len(x) + (i - Len(x))] = y[i - Len(x)]
      BY <1>1, <3>1
    <3>3. z[i] = y[i - Len(x)] /\ i - Len(x) \in DOMAIN y
      BY <1>2, <3>1, <3>2
    <3>4. QED
      BY <3>1, <3>3
  <2>4. QED
    BY <2>2, <2>3
<1>4. /\ \A i \in clicks(x) : given /\ \A j \in clicks(x) : j = i
      /\ \A i \in clicks(y) : given /\ \A j \in clicks(y) : j = i
      /\ clicks(x) = {} \/ clicks(y) = {}
  BY DEF ClickedOnce, Unclicked, Elements
<1> HIDE DEF clicks
<1>5. ASSUME NEW i \in clicks(z) PROVE given /\ \A j \in clicks(z) : j = i
  <2>1. given
    BY <1>3, <1>4
  <2>2. ASSUME NEW j \in clicks(z) PROVE j = i
    <3>1. CASE i \in clicks(x) /\ j \in clicks(x)
      BY <1>4, <3>1
    <3>2. CASE i - Len(x) \in clicks(y) /\ j - Len(x) \in clicks(y) /\ i \in Nat /\ j \in Nat
      <4>1. j - Len(x) = i - Len(x)
        BY <1>4, <3>2
      <4>2. QED
        BY <1>2, <3>2, <4>1
    <3>3. ~(clicks(x) # {} /\ clicks(y) # {})
      BY <1>4
    <3>4. QED
      BY <1>3, <3>1, <3>2, <3>3
  <2>3. QED
    BY <2>1, <2>2
<1>6. QED
  BY <1>1, <1>5 DEF ClickedOnce, clicks, z

\* Derived rows have the next ids, and the session, the task and the time of
\* the event, and refer to it; at most one of them decides the task, and none
\* when it is decided already; a pointer event is a misclick once, if at all.
DerivedFrom(derived, e, over, next) ==
  /\ IsList(derived) /\ Len(derived) \in Nat
  /\ e.task = None => derived = <<>>
  /\ \A i \in DOMAIN derived : /\ derived[i].id = next + i - 1
                               /\ derived[i].session = e.session
                               /\ derived[i].at = e.at
                               /\ derived[i].task = e.task
                               /\ derived[i].from = {e.id}
                               /\ ~IsRaw(derived[i])
  /\ \A i \in DOMAIN derived : OutcomeOf(derived[i]) # None => i = 1 /\ ~over
  /\ \A i \in DOMAIN derived : OutcomeOf(derived[i]) \in TaskOutcomes \cup {None}
  /\ ClickedOnce(derived, e.type = "pointer_interaction")

\* So are those the triggers derive.
LEMMA DerivedRows ==
  ASSUME NEW table, NEW e, NEW over \in BOOLEAN, NEW next \in Nat
  PROVE  DerivedFrom(Derived(table, e, over, next), e, over, next)
<1> DEFINE derived == Derived(table, e, over, next)
           verdict == IF over THEN None ELSE Verdict(table, e)
           label == "task-outcome-v" \o TaskRule[e.task].version
           terminal == TerminalKind(verdict, label)
           back == AnalyticsKind(IsBacktrack(table, e), "backtrack", "immediate-aba-backtrack-v1")
           miss == AnalyticsKind(IsMisclick(e), "misclick", "figma-handled-misclick-v1")
           rage == AnalyticsKind(IsRage(table, e), "rage_click", "rage-click-v1")
           kinds == Joined(Joined(Joined(terminal, back), miss), rage)
<1>1. derived = IF e.task = None THEN <<>> ELSE Numbered(e, kinds, next)
  BY DEF Derived, Joined
<1>2. IsList(<<>>) /\ \A x : DecidesFirst(<<>>, x)
  BY DEF IsList, DecidesFirst
<1>3. \A x : IsList(<<x>>) /\ <<x>>[1] = x /\ DOMAIN <<x>> = {1}
  <2>1. TAKE x
  <2>2. <<x>> \in Seq({x}) /\ <<x>>[1] = x /\ DOMAIN <<x>> = {1} /\ {x} = Elements(<<x>>)
    BY DEF Elements
  <2>3. QED
    BY <2>2 DEF IsList
<1> DEFINE Told(kind) == kind.type = "task_success" => kind.outcome \in TaskOutcomes
           clicked == e.type = "pointer_interaction"
<1>4. /\ IsList(terminal) /\ DecidesFirst(terminal, ~over)
      /\ Unclicked(terminal) /\ \A k \in Elements(terminal) : Told(k)
  <2> DEFINE a == Kind("task_failed", "rules_engine", None, label)
             b == Kind("task_success", "rules_engine", verdict, label)
  <2>1. /\ terminal \in {<<>>, <<a>>, <<b>>} /\ (over => terminal = <<>>)
        /\ terminal = <<b>> => verdict \in TaskOutcomes
    <3>1. None # "failed"
      BY ReadAssumption DEF TaskOutcomes
    <3>2. /\ over => verdict = None
          /\ verdict \in TaskOutcomes \cup {None}
      BY DEF Verdict, TaskOutcomes
    <3> HIDE DEF verdict, label
    <3>3. terminal = IF verdict = None THEN <<>> ELSE IF verdict = "failed" THEN <<a>> ELSE <<b>>
      BY <3>1 DEF TerminalKind
    <3>4. <<b>> # <<>> /\ (<<a>> = <<b>> => FALSE)
      <4>1. a.type = "task_failed" /\ b.type = "task_success"
        BY DEF Kind
      <4> HIDE DEF a, b
      <4>2. <<a>>[1] = a /\ <<b>>[1] = b /\ DOMAIN <<b>> = {1} /\ DOMAIN <<>> = {}
        BY <1>3
      <4>3. QED
        BY <4>1, <4>2
    <3> HIDE DEF a, b, terminal
    <3>5. QED
      BY <3>2, <3>3, <3>4
  <2>2. b.outcome = verdict /\ a.type = "task_failed" /\ b.type = "task_success"
    BY DEF Kind
  <2> HIDE DEF a, b, terminal, verdict
  <2>3. IsList(terminal)
    BY <1>2, <1>3, <2>1
  <2>4. DecidesFirst(terminal, ~over)
    BY <1>2, <1>3, <2>1 DEF DecidesFirst
  <2>5. /\ Unclicked(terminal) /\ \A k \in Elements(terminal) : Told(k)
    <3>1. \A k \in Elements(<<a>>) : k = a
      BY <1>3 DEF Elements
    <3>2. \A k \in Elements(<<b>>) : k = b
      BY <1>3 DEF Elements
    <3>3. Elements(<<>>) = {}
      BY DEF Elements
    <3>4. QED
      BY <2>1, <2>2, <3>1, <3>2, <3>3 DEF Unclicked
  <2>6. QED
    BY <2>3, <2>4, <2>5
<1>5. /\ IsList(back) /\ DecidesFirst(back, FALSE)
      /\ IsList(miss) /\ DecidesFirst(miss, FALSE)
      /\ IsList(rage) /\ DecidesFirst(rage, FALSE)
      /\ Unclicked(back) /\ ClickedOnce(miss, clicked) /\ Unclicked(rage)
      /\ \A k \in Elements(back) \cup Elements(miss) \cup Elements(rage) : Told(k)
  <2>1. ASSUME NEW holds, NEW type, NEW rule, type \notin Deciding
        PROVE  /\ IsList(AnalyticsKind(holds, type, rule))
               /\ DecidesFirst(AnalyticsKind(holds, type, rule), FALSE)
               /\ type # "misclick" => Unclicked(AnalyticsKind(holds, type, rule))
               /\ ClickedOnce(AnalyticsKind(holds, type, rule), TRUE)
               /\ ~holds => AnalyticsKind(holds, type, rule) = <<>>
               /\ \A l \in Elements(AnalyticsKind(holds, type, rule)) : Told(l)
    <3> DEFINE k == Kind(type, "analytics", None, rule)
    <3>1. k.type = type
      BY DEF Kind
    <3>2. /\ AnalyticsKind(holds, type, rule) \in {<<>>, <<k>>}
          /\ ~holds => AnalyticsKind(holds, type, rule) = <<>>
      BY DEF AnalyticsKind
    <3> HIDE DEF k
    <3>3. DecidesFirst(<<k>>, FALSE)
      BY <1>3, <2>1, <3>1 DEF DecidesFirst
    <3>4. ClickedOnce(<<>>, TRUE) /\ Unclicked(<<>>)
      BY DEF ClickedOnce, Unclicked, Elements
    <3>5. ClickedOnce(<<k>>, TRUE) /\ (type # "misclick" => Unclicked(<<k>>))
      BY <1>3, <3>1 DEF ClickedOnce, Unclicked, Elements
    <3>6. \A l \in Elements(<<k>>) : Told(l)
      <4>1. \A l \in Elements(<<k>>) : l = k
        BY <1>3 DEF Elements
      <4>2. QED
        BY <2>1, <3>1, <4>1 DEF Deciding
    <3>7. Elements(<<>>) = {}
      BY DEF Elements
    <3>8. QED
      BY <1>2, <1>3, <3>2, <3>3, <3>4, <3>5, <3>6, <3>7
  <2>2. "backtrack" \notin Deciding /\ "misclick" \notin Deciding /\ "rage_click" \notin Deciding
    BY DEF Deciding
  <2>3. /\ IsList(back) /\ DecidesFirst(back, FALSE) /\ Unclicked(back)
        /\ \A k \in Elements(back) : Told(k)
    BY <2>1, <2>2
  <2>4. /\ IsList(miss) /\ DecidesFirst(miss, FALSE) /\ ClickedOnce(miss, clicked)
        /\ \A k \in Elements(miss) : Told(k)
    <3>1. /\ IsList(miss) /\ DecidesFirst(miss, FALSE) /\ ClickedOnce(miss, TRUE)
          /\ \A k \in Elements(miss) : Told(k)
          /\ ~IsMisclick(e) => miss = <<>>
      BY <2>1, <2>2
    <3>2. IsMisclick(e) => clicked
      BY DEF IsMisclick
    <3> HIDE DEF miss, clicked
    <3>3. ClickedOnce(miss, clicked)
      BY <3>1, <3>2 DEF ClickedOnce
    <3>4. QED
      BY <3>1, <3>3
  <2>5. /\ IsList(rage) /\ DecidesFirst(rage, FALSE) /\ Unclicked(rage)
        /\ \A k \in Elements(rage) : Told(k)
    BY <2>1, <2>2
  <2>6. QED
    BY <2>3, <2>4, <2>5
<1> HIDE DEF terminal, back, miss, rage, Told, clicked
<1>6. /\ IsList(kinds) /\ DecidesFirst(kinds, ~over)
      /\ ClickedOnce(kinds, clicked) /\ \A k \in Elements(kinds) : Told(k)
  <2> DEFINE two == Joined(terminal, back)
             three == Joined(two, miss)
  <2>1. IsList(two) /\ DecidesFirst(two, ~over)
    BY <1>4, <1>5, DecidesFirstOfMore
  <2>2. ClickedOnce(two, clicked) /\ ClickedOnce(rage, clicked)
    <3>1. \A l : Unclicked(l) => ClickedOnce(l, clicked)
      BY DEF ClickedOnce, Unclicked, Elements
    <3>2. QED
      BY <1>4, <1>5, <3>1, ClickedOnceOfMore
  <2>3. Elements(two) = Elements(terminal) \cup Elements(back)
    BY <1>4, <1>5, ElementsOfConcat
  <2>4. Unclicked(two)
    BY <1>4, <1>5, <2>3 DEF Unclicked
  <2> HIDE DEF two
  <2>5. IsList(three) /\ DecidesFirst(three, ~over)
    BY <1>5, <2>1, DecidesFirstOfMore
  <2>6. ClickedOnce(three, clicked)
    BY <1>5, <2>1, <2>2, <2>4, ClickedOnceOfMore
  <2>7. Elements(three) = Elements(two) \cup Elements(miss)
    BY <1>5, <2>1, ElementsOfConcat
  <2>8. kinds = Joined(three, rage)
    BY DEF two
  <2> HIDE DEF three, kinds
  <2>9. IsList(Joined(three, rage)) /\ DecidesFirst(Joined(three, rage), ~over)
    BY <1>5, <2>5, DecidesFirstOfMore
  <2>10. ClickedOnce(Joined(three, rage), clicked)
    BY <1>5, <2>2, <2>5, <2>6, ClickedOnceOfMore
  <2>11. Elements(Joined(three, rage)) = Elements(three) \cup Elements(rage)
    BY <1>5, <2>5, ElementsOfConcat
  <2>12. \A k \in Elements(kinds) : Told(k)
    BY <1>4, <1>5, <2>3, <2>7, <2>8, <2>11
  <2>13. QED
    BY <2>8, <2>9, <2>10, <2>12
<1> HIDE DEF kinds
<1>7. DOMAIN kinds = 1 .. Len(kinds) /\ Len(kinds) \in Nat
  BY <1>6, LenProperties DEF IsList
<1> DEFINE row(i) == DerivedRow(next + i - 1, kinds[i].type, e, kinds[i].source, kinds[i].outcome,
                                kinds[i].rule)
<1>8. Numbered(e, kinds, next) = [i \in 1 .. Len(kinds) |-> row(i)]
  BY <1>7 DEF Numbered
<1>9. \A i \in 1 .. Len(kinds) :
        /\ row(i).id = next + i - 1 /\ row(i).type = kinds[i].type
        /\ row(i).session = e.session /\ row(i).at = e.at
        /\ row(i).task = e.task /\ row(i).from = {e.id} /\ ~IsRaw(row(i))
        /\ row(i).outcome = kinds[i].outcome
  BY DEF DerivedRow, IsRaw
<1> HIDE DEF row
<1>10. \A i \in 1 .. Len(kinds) : OutcomeOf(row(i)) # None => i = 1 /\ ~over
  <2>1. TAKE i \in 1 .. Len(kinds)
  <2>2. OutcomeOf(row(i)) # None => row(i).type \in Deciding
    BY <1>9 DEF OutcomeOf, Deciding
  <2>3. QED
    BY <1>6, <1>7, <1>9, <2>2 DEF DecidesFirst
<1>11. \A i \in 1 .. Len(kinds) : OutcomeOf(row(i)) \in TaskOutcomes \cup {None}
  <2>1. TAKE i \in 1 .. Len(kinds)
  <2>2. Told(kinds[i])
    BY <1>6, <1>7 DEF Elements
  <2>3. row(i).type = "task_success" => row(i).outcome \in TaskOutcomes
    BY <1>9, <2>2 DEF Told
  <2>4. "failed" \in TaskOutcomes
    BY DEF TaskOutcomes
  <2>5. OutcomeOf(row(i)) \in {"failed", None} \/ (row(i).type = "task_success" /\ OutcomeOf(row(i)) = row(i).outcome)
    BY <1>9 DEF OutcomeOf
  <2>6. QED
    BY <2>3, <2>4, <2>5
<1>12. CASE e.task = None
  <2>1. derived = <<>>
    BY <1>1, <1>12
  <2> HIDE DEF derived
  <2>2. IsList(<<>>) /\ Len(<<>>) = 0 /\ DOMAIN <<>> = {}
    BY DEF IsList
  <2>3. QED
    BY <2>1, <2>2 DEF derived, DerivedFrom, ClickedOnce
<1>13. CASE e.task # None
  <2>1. derived = [i \in 1 .. Len(kinds) |-> row(i)]
    BY <1>1, <1>8, <1>13
  <2> HIDE DEF derived
  <2>2. DOMAIN derived = 1 .. Len(kinds) /\ \A i \in 1 .. Len(kinds) : derived[i] = row(i)
    BY <2>1
  <2>3. derived \in [1 .. Len(kinds) -> Elements(derived)]
    BY <2>1, <2>2 DEF Elements
  <2>4. IsList(derived)
    BY <1>7, <2>3 DEF IsList
  <2>5. Len(derived) \in Nat
    BY <2>4, LenProperties DEF IsList
  <2>6. \A i \in DOMAIN derived : OutcomeOf(derived[i]) # None => i = 1 /\ ~over
    BY <1>10, <2>2
  <2>7. ClickedOnce(derived, clicked)
    BY <1>6, <1>7, <1>9, <2>2 DEF ClickedOnce
  <2>8. \A i \in DOMAIN derived : OutcomeOf(derived[i]) \in TaskOutcomes \cup {None}
    BY <1>11, <2>2
  <2>9. ClickedOnce(derived, e.type = "pointer_interaction")
    BY <2>7 DEF clicked
  <2>10. QED
    BY <1>9, <1>13, <2>2, <2>4, <2>5, <2>6, <2>8, <2>9 DEF derived, DerivedFrom
<1>14. QED
  BY <1>12, <1>13

-----------------------------------------------------------------------------
(* The invariant of the tables and of the reader. *)

Statuses == {"none", "active", "purged"} \cup {SessionEnd[x] : x \in DOMAIN SessionEnd}

\* The tables: rows with increasing ids, clocks within bounds, and answers of
\* sessions that are there.
TablesInv ==
  /\ scenario \in Scenarios
  /\ IsTable(rows, nextId)
  /\ clock \in [Sessions -> 0 .. scenario.maxAt] /\ count \in [Sessions -> Nat]
  /\ session \in [Sessions -> Statuses]
  /\ place \in [Sessions -> Tasks \cup {None}] /\ toDo \in [Sessions -> SUBSET Tasks]
  /\ \A x \in answers : x.session \in Sessions /\ session[x.session] \notin {"none", "purged"}

ReaderRecord ==
  reader = [step |-> reader.step, offset |-> reader.offset, got |-> reader.got,
            sessions |-> reader.sessions, answers |-> reader.answers,
            rowsBefore |-> reader.rowsBefore, answersBefore |-> reader.answersBefore]

\* While the pages are read, a row that was there before is read already or
\* has its place behind the offset, for rows are only added in front of it or
\* behind it; the answers that were there before belong to sessions that are
\* listed whenever the list is read.
NothingSkipped ==
  /\ IsList(reader.got) /\ Elements(reader.got) \subseteq Elements(rows)
  /\ reader.rowsBefore \subseteq Elements(rows)
  /\ reader.step = "events" =>
       /\ reader.offset <= Len(rows)
       /\ \A e \in reader.rowsBefore :
            e \in Elements(reader.got) \/ reader.offset < PlaceOf(e, rows)
  /\ reader.step # "events" => reader.rowsBefore \subseteq Elements(reader.got)
  /\ reader.answersBefore \subseteq answers
  /\ reader.sessions = None \/ \A x \in reader.answersBefore : x.session \in reader.sessions
  /\ reader.step = "done" => reader.answersBefore \subseteq reader.answers

ReaderInv ==
  /\ ReaderRecord /\ reader.step \in Steps /\ reader.offset \in Nat
  /\ reader.step # "closed" /\ ~scenario.purging => NothingSkipped

ReadInvariant == TablesInv /\ ReaderInv

\* A row with the next id and rows with the ids after it are appended.
LEMMA TableGrows ==
  ASSUME NEW table, NEW next, IsTable(table, next),
         NEW e, e.id = next, e.session \in Sessions, e.at \in Nat,
         NEW derived, IsList(derived),
         \A i \in DOMAIN derived : /\ derived[i].id = next + i
                                  /\ derived[i].session = e.session /\ derived[i].at = e.at
  PROVE  LET all == Joined(Joined(table, <<e>>), derived)
         IN  /\ IsTable(all, next + 1 + Len(derived))
             /\ Elements(all) = Elements(table) \cup {e} \cup Elements(derived)
             /\ Len(table) <= Len(all)
<1> DEFINE one == <<e>>
           with == Joined(table, one)
           all == Joined(with, derived)
           n == Len(table)
           m == Len(derived)
           last == next + 1 + m
<1>1. IsList(table) /\ next \in Nat \ {0}
  BY DEF IsTable
<1>2. IsList(one) /\ Len(one) = 1 /\ one[1] = e /\ Elements(one) = {e}
  <2>1. one \in Seq({e}) /\ Len(one) = 1 /\ one[1] = e /\ Elements(one) = {e}
    BY DEF Elements
  <2> HIDE DEF one
  <2>2. QED
    BY <2>1, ElementsFacts DEF IsList
<1> HIDE DEF one
<1>3. /\ IsList(with)
      /\ Elements(with) = Elements(table) \cup Elements(one)
      /\ Len(with) = n + Len(one)
      /\ \A i \in 1 .. n : with[i] = table[i]
      /\ \A i \in 1 .. Len(one) : with[n + i] = one[i]
  <2>1. IsList(table) /\ IsList(one)
    BY <1>1, <1>2
  <2>2. QED
    BY <2>1, ElementsOfConcat
<1> HIDE DEF with
<1>4. /\ IsList(all)
      /\ Elements(all) = Elements(with) \cup Elements(derived)
      /\ Len(all) = Len(with) + m
      /\ \A i \in 1 .. Len(with) : all[i] = with[i]
      /\ \A i \in 1 .. m : all[Len(with) + i] = derived[i]
  <2>1. IsList(with) /\ IsList(derived)
    BY <1>3
  <2>2. QED
    BY <2>1, ElementsOfConcat
<1> HIDE DEF all
<1>5. /\ n \in Nat /\ m \in Nat /\ DOMAIN table = 1 .. n /\ DOMAIN derived = 1 .. m
      /\ DOMAIN all = 1 .. (n + 1 + m)
  BY <1>1, <1>2, <1>3, <1>4, LenProperties DEF IsList
<1>6. n = Len(table) /\ m = Len(derived) /\ Len(with) = n + 1
  BY <1>2, <1>3
<1> HIDE DEF n, m
<1>7. /\ \A i \in 1 .. n : all[i] = table[i]
      /\ all[n + 1] = e
      /\ \A i \in 1 .. m : all[n + 1 + i] = derived[i]
  <2>1. \A i \in 1 .. n : i \in 1 .. (n + 1)
    BY <1>5
  <2>2. n + 1 \in 1 .. (n + 1)
    BY <1>5
  <2>3. with[n + 1] = e
    <3>1. 1 \in 1 .. Len(one)
      BY <1>2
    <3>2. with[n + 1] = one[1]
      BY <1>3, <3>1
    <3>3. QED
      BY <1>2, <3>2
  <2>4. QED
    BY <1>3, <1>4, <1>6, <2>1, <2>2, <2>3
<1>8. \A i \in 1 .. m : /\ derived[i].id = next + i /\ derived[i].session = e.session
                        /\ derived[i].at = e.at
  BY <1>5
<1>9. \A i \in 1 .. n : /\ table[i].id \in 1 .. (next - 1) /\ table[i].at \in Nat
                        /\ table[i].session \in Sessions
  BY <1>5 DEF IsTable
<1>10. ASSUME NEW i \in 1 .. (n + 1 + m)
       PROVE  /\ all[i].at \in Nat /\ all[i].session \in Sessions
              /\ i <= n => all[i].id \in 1 .. (next - 1)
              /\ i > n => all[i].id = next + (i - n - 1)
  <2>1. CASE i <= n
    <3>1. i \in 1 .. n
      BY <1>5, <2>1
    <3>2. QED
      BY <1>5, <1>7, <1>9, <2>1, <3>1
  <2>2. CASE i = n + 1
    <3>1. all[i] = e
      BY <1>7, <2>2
    <3>2. QED
      BY <1>1, <1>5, <2>2, <3>1
  <2>3. CASE i > n + 1
    <3>1. PICK j \in 1 .. m : i = n + 1 + j
      <4>1. i - n - 1 \in 1 .. m /\ i = n + 1 + (i - n - 1)
        BY <1>5, <2>3
      <4>2. QED
        BY <4>1
    <3>2. all[i] = derived[j]
      BY <1>7, <3>1
    <3>3. all[i].at = e.at /\ all[i].session = e.session /\ all[i].id = next + j
      BY <1>8, <3>2
    <3>4. ~(i <= n) /\ next + j = next + (i - n - 1)
      BY <1>1, <1>5, <3>1
    <3>5. QED
      BY <3>3, <3>4
  <2>4. QED
    BY <1>5, <2>1, <2>2, <2>3
<1>11. last \in Nat \ {0} /\ last = next + 1 + m
  BY <1>1, <1>5
<1> HIDE DEF last
<1>12. \A i \in DOMAIN all : /\ all[i].id \in 1 .. (last - 1) /\ all[i].at \in Nat
                             /\ all[i].session \in Sessions
  BY <1>1, <1>5, <1>10, <1>11
<1>13. ASSUME NEW i \in DOMAIN all, NEW j \in DOMAIN all, i < j
       PROVE  all[i].id < all[j].id
  <2>1. CASE j <= n
    <3>1. i \in 1 .. n /\ j \in 1 .. n
      BY <1>5, <1>13, <2>1
    <3>2. table[i].id < table[j].id
      BY <1>5, <1>13, <3>1 DEF IsTable
    <3>3. QED
      BY <1>7, <3>1, <3>2
  <2>2. CASE j > n /\ i <= n
    BY <1>1, <1>5, <1>10, <1>13, <2>2
  <2>3. CASE i > n
    <3>1. j > n
      BY <1>5, <1>13, <2>3
    <3>2. all[i].id = next + (i - n - 1) /\ all[j].id = next + (j - n - 1)
      BY <1>5, <1>10, <2>3, <3>1
    <3>3. next + (i - n - 1) < next + (j - n - 1)
      BY <1>1, <1>5, <1>13
    <3>4. QED
      BY <3>2, <3>3
  <2>4. QED
    BY <1>5, <2>1, <2>2, <2>3
<1>14. IsTable(all, last)
  BY <1>4, <1>11, <1>12, <1>13 DEF IsTable
<1>15. Elements(all) = Elements(table) \cup {e} \cup Elements(derived) /\ Len(table) <= Len(all)
  BY <1>2, <1>3, <1>4, <1>5, <1>6
<1>16. QED
  BY <1>6, <1>11, <1>14, <1>15 DEF all, with, one

\* What is written for an event: its row e, the rows derived from it, and the
\* row of its task in task_sessions once e is projected onto it.
Written(s, t, signal, at, e, derived, first) ==
  /\ e.id = nextId /\ e.session = s /\ e.task = t /\ e.at = at /\ e.seq = count[s] + 1
  /\ e.type = signal.type /\ IsRaw(e)
  /\ first = (IF t = None THEN NoRow ELSE ProjectTask(task[<<s, t>>], e))
  /\ IsList(derived) /\ Len(derived) \in Nat
  /\ t = None => derived = <<>>
  /\ \A i \in DOMAIN derived : /\ derived[i].id = nextId + i /\ derived[i].session = s
                               /\ derived[i].at = at /\ derived[i].task = t
                               /\ derived[i].from = {e.id} /\ ~IsRaw(derived[i])
  /\ \A i \in DOMAIN derived : OutcomeOf(derived[i]) # None => i = 1 /\ first.outcome = None
  /\ \A i \in DOMAIN derived : OutcomeOf(derived[i]) \in TaskOutcomes \cup {None}
  /\ ClickedOnce(derived, e.type = "pointer_interaction")
  /\ Commit(s, e, derived, ProjectDerived(first, derived))
  /\ rows' = Joined(Joined(rows, <<e>>), derived)

\* An event is stored with what is derived from it.
LEMMA StoreWrites ==
  ASSUME TablesInv, NEW s \in Sessions, NEW t, NEW signal, NEW at \in Times(s),
         Store(s, t, signal, at)
  PROVE  \E e, derived, first : Written(s, t, signal, at, e, derived, first)
<1> DEFINE source == IF signal.type \in {"screen_view", "pointer_interaction"}
                     THEN "prototype_adapter" ELSE "runner"
           event == RawRow(nextId, signal.type, s, t, signal.screen, source, count[s] + 1, at,
                           signal.point, signal.handled)
           first == IF t = None THEN NoRow ELSE ProjectTask(task[<<s, t>>], event)
           table == rows \o <<event>>
           over == first.outcome # None
           next == nextId + 1
           derived == Derived(table, event, over, next)
<1>1. StoreRow(s, event, first)
  BY DEF Store
<1>2. /\ event.id = nextId /\ event.session = s /\ event.task = t /\ event.at = at
      /\ event.seq = count[s] + 1 /\ event.type = signal.type /\ IsRaw(event)
  BY DEF RawRow, IsRaw
<1>3. first = (IF t = None THEN NoRow ELSE ProjectTask(task[<<s, t>>], event))
  OBVIOUS
<1> HIDE DEF event, first
<1>4. Commit(s, event, derived, ProjectDerived(first, derived))
  BY <1>1 DEF StoreRow, CommitDerived
<1>5. nextId \in Nat /\ next \in Nat /\ next = nextId + 1
  BY DEF TablesInv, IsTable
<1>6. over \in BOOLEAN /\ (over <=> first.outcome # None)
  OBVIOUS
<1> HIDE DEF over, table, next
<1>7. DerivedFrom(derived, event, over, next)
  BY <1>5, <1>6, DerivedRows
<1> HIDE DEF derived
<1>8. \A i \in DOMAIN derived : next + i - 1 = nextId + i
  <2>1. DOMAIN derived = 1 .. Len(derived) /\ Len(derived) \in Nat
    BY <1>7, LenProperties DEF IsList, DerivedFrom
  <2>2. QED
    BY <1>5, <2>1
<1>9. rows' = Joined(Joined(rows, <<event>>), derived)
  BY <1>4 DEF Commit, Joined
<1>10. Written(s, t, signal, at, event, derived, first)
  BY <1>2, <1>3, <1>4, <1>6, <1>7, <1>8, <1>9 DEF Written, DerivedFrom
<1>11. QED
  BY <1>10

\* An event that is stored with what is derived from it.
LEMMA StoreFacts ==
  ASSUME TablesInv, NEW s \in Sessions, NEW t, NEW signal, NEW at \in Times(s),
         Store(s, t, signal, at)
  PROVE  /\ IsTable(rows', nextId')
         /\ Elements(rows) \subseteq Elements(rows') /\ Len(rows) <= Len(rows')
         /\ clock' \in [Sessions -> 0 .. scenario.maxAt] /\ count' \in [Sessions -> Nat]
         /\ session' \in [Sessions -> Statuses]
         /\ \A p \in Sessions : session[p] \notin {"none", "purged"} =>
                                  session'[p] \notin {"none", "purged"}
<1>1. PICK event, derived, first : Written(s, t, signal, at, event, derived, first)
  BY StoreWrites
<1>2. event.id = nextId /\ event.session = s /\ event.at = at
  BY <1>1 DEF Written
<1> DEFINE row == ProjectDerived(first, derived)
<1>3. Commit(s, event, derived, row)
  BY <1>1 DEF Written
<1>4. IsTable(rows, nextId)
  BY DEF TablesInv
<1>5. /\ IsList(derived)
      /\ \A i \in DOMAIN derived : /\ derived[i].id = nextId + i
                                   /\ derived[i].session = event.session
                                   /\ derived[i].at = event.at
  BY <1>1 DEF Written
<1> HIDE DEF row
<1>6. at \in 0 .. scenario.maxAt /\ at \in Nat /\ scenario.maxAt \in Nat
  <2>1. scenario.maxAt \in Nat
    BY ReadAssumption DEF TablesInv
  <2>2. clock[s] \in 0 .. scenario.maxAt
    BY DEF TablesInv
  <2>3. QED
    BY <2>1, <2>2 DEF Times
<1> DEFINE all == Joined(Joined(rows, <<event>>), derived)
<1>7. rows' = all /\ nextId' = nextId + 1 + Len(derived)
  BY <1>1, <1>3 DEF Commit, Written
<1>8. /\ IsTable(all, nextId + 1 + Len(derived))
      /\ Elements(all) = Elements(rows) \cup {event} \cup Elements(derived)
      /\ Len(rows) <= Len(all)
  <2>1. event.id = nextId /\ event.at \in Nat /\ event.session \in Sessions
    BY <1>2, <1>6
  <2>2. QED
    BY <1>4, <1>5, <2>1, TableGrows
<1>9. IsTable(rows', nextId') /\ Elements(rows) \subseteq Elements(rows') /\ Len(rows) <= Len(rows')
  BY <1>7, <1>8
<1>10. clock' \in [Sessions -> 0 .. scenario.maxAt] /\ count' \in [Sessions -> Nat]
  <2>1. /\ clock' = [clock EXCEPT ![s] = at]
        /\ count' = [count EXCEPT ![s] = @ + 1]
    BY <1>2, <1>3 DEF Commit
  <2>2. clock \in [Sessions -> 0 .. scenario.maxAt] /\ count \in [Sessions -> Nat]
    BY DEF TablesInv
  <2>3. clock' \in [Sessions -> 0 .. scenario.maxAt]
    BY <1>6, <2>1, <2>2
  <2>4. count' \in [Sessions -> Nat]
    BY <2>1, <2>2
  <2>5. QED
    BY <2>3, <2>4
<1>11. /\ session' \in [Sessions -> Statuses]
       /\ \A p \in Sessions : session[p] \notin {"none", "purged"} =>
                                session'[p] \notin {"none", "purged"}
  <2>1. session \in [Sessions -> Statuses]
    BY DEF TablesInv
  <2>2. CASE ~EndsSession(session[s], event)
    BY <1>3, <2>1, <2>2 DEF Commit
  <2>3. CASE EndsSession(session[s], event)
    <3>1. session' = [session EXCEPT ![s] = SessionEnd[event.type]] /\ event.type \in DOMAIN SessionEnd
      BY <1>3, <2>3 DEF Commit, EndsSession
    <3>2. SessionEnd[event.type] \in Statuses
      BY <3>1 DEF Statuses
    <3>3. SessionEnd[event.type] \notin {"none", "purged"}
      BY <3>1 DEF SessionEnd
    <3>4. QED
      BY <2>1, <3>1, <3>2, <3>3
  <2>4. QED
    BY <2>2, <2>3
<1>12. QED
  BY <1>9, <1>10, <1>11

-----------------------------------------------------------------------------
(* Every step keeps the invariant. *)

\* What is written while nothing is purged: tables that only grow.
Grown ==
  /\ IsTable(rows', nextId')
  /\ Elements(rows) \subseteq Elements(rows') /\ Len(rows) <= Len(rows')
  /\ answers \subseteq answers'

\* The invariant holds at first.
LEMMA ReadInitial == ReadInit => ReadInvariant
<1> SUFFICES ASSUME ReadInit PROVE ReadInvariant
  OBVIOUS
<1>1. scenario \in Scenarios /\ scenario.maxAt \in Nat
  BY ReadAssumption DEF ReadInit
<1>2. IsTable(rows, nextId)
  <2>1. IsList(<<>>) /\ DOMAIN <<>> = {}
    BY DEF IsList
  <2>2. QED
    BY <2>1 DEF ReadInit, IsTable
<1>3. "none" \in Statuses
  BY DEF Statuses
<1>4. TablesInv
  BY <1>1, <1>2, <1>3 DEF ReadInit, TablesInv
<1>5. ReaderInv
  BY DEF ReadInit, ReaderInv, ReaderRecord, Closed, Steps
<1>6. QED
  BY <1>4, <1>5 DEF ReadInvariant

\* One raw event is stored by an action of a participant.
LEMMA StoreStep ==
  ASSUME TablesInv, NEW s \in Sessions, NEW t, NEW signal, NEW at \in Times(s),
         Store(s, t, signal, at), UNCHANGED <<scenario, answers>>,
         place' \in [Sessions -> Tasks \cup {None}], toDo' \in [Sessions -> SUBSET Tasks]
  PROVE  TablesInv' /\ Grown
<1>1. /\ IsTable(rows', nextId')
      /\ Elements(rows) \subseteq Elements(rows') /\ Len(rows) <= Len(rows')
      /\ clock' \in [Sessions -> 0 .. scenario.maxAt] /\ count' \in [Sessions -> Nat]
      /\ session' \in [Sessions -> Statuses]
      /\ \A p \in Sessions : session[p] \notin {"none", "purged"} =>
                               session'[p] \notin {"none", "purged"}
  BY StoreFacts
<1>2. \A x \in answers : x.session \in Sessions /\ session'[x.session] \notin {"none", "purged"}
  BY <1>1 DEF TablesInv
<1>3. QED
  BY <1>1, <1>2 DEF TablesInv, Grown

\* What a participant does: the tables grow, but for a purge.
LEMMA WriteStep ==
  ASSUME TablesInv, NEW s \in Sessions, Write(s)
  PROVE  TablesInv' /\ UNCHANGED <<scenario, reader>> /\ (scenario.purging \/ Grown)
<1>1. /\ place \in [Sessions -> Tasks \cup {None}] /\ toDo \in [Sessions -> SUBSET Tasks]
      /\ session \in [Sessions -> Statuses]
      /\ IsTable(rows, nextId)
  BY DEF TablesInv
<1>2. IsTable(rows, nextId) => Len(rows) \in Nat
  BY LenProperties DEF IsTable, IsList
<1>3. CASE Enter(s)
  <2>1. /\ session' = [session EXCEPT ![s] = "active"] /\ session[s] = "none"
        /\ UNCHANGED <<scenario, rows, task, answers, place, toDo, clock, count, nextId, reader>>
    BY <1>3 DEF Enter, writer
  <2>2. session' \in [Sessions -> Statuses]
    BY <1>1, <2>1 DEF Statuses
  <2>3. \A x \in answers : session'[x.session] \notin {"none", "purged"}
    BY <1>1, <2>1 DEF TablesInv
  <2>4. TablesInv'
    BY <2>1, <2>2, <2>3 DEF TablesInv
  <2>5. Grown
    BY <1>1, <1>2, <2>1 DEF Grown
  <2>6. QED
    BY <2>1, <2>4, <2>5
<1>4. CASE StartSession(s)
  <2>1. PICK at \in Times(s) : Store(s, None, Plain("session_started"), at)
    BY <1>4 DEF StartSession
  <2>2. UNCHANGED <<scenario, answers, place, toDo, reader>>
    BY <1>4 DEF StartSession
  <2>3. QED
    BY <1>1, <2>1, <2>2, StoreStep
<1>5. CASE StartTask(s)
  <2>1. PICK t \in toDo[s], at \in Times(s) :
          /\ Store(s, t, Plain("task_started"), at)
          /\ place' = [place EXCEPT ![s] = t]
          /\ toDo' = [toDo EXCEPT ![s] = @ \ {t}]
    BY <1>5 DEF StartTask
  <2>2. UNCHANGED <<scenario, answers, reader>>
    BY <1>5 DEF StartTask
  <2>3. place' \in [Sessions -> Tasks \cup {None}] /\ toDo' \in [Sessions -> SUBSET Tasks]
    BY <1>1, <2>1
  <2>4. QED
    BY <2>1, <2>2, <2>3, StoreStep
<1>6. CASE Act(s)
  <2>1. PICK signal \in scenario.signals, at \in Times(s) : Store(s, place[s], signal, at)
    BY <1>6 DEF Act
  <2>2. UNCHANGED <<scenario, answers, place, toDo, reader>>
    BY <1>6 DEF Act
  <2>3. QED
    BY <1>1, <2>1, <2>2, StoreStep
<1>7. CASE EndTask(s)
  <2>1. PICK type \in DOMAIN RawTerminal, at \in Times(s) : Store(s, place[s], Plain(type), at)
    BY <1>7 DEF EndTask
  <2>2. /\ place' = [place EXCEPT ![s] = None]
        /\ UNCHANGED <<scenario, answers, toDo, reader>>
    BY <1>7 DEF EndTask
  <2>3. place' \in [Sessions -> Tasks \cup {None}] /\ toDo' \in [Sessions -> SUBSET Tasks]
    BY <1>1, <2>2
  <2>4. QED
    BY <2>1, <2>2, <2>3, StoreStep
<1>8. CASE Continue(s)
  <2>1. /\ place' = [place EXCEPT ![s] = None]
        /\ UNCHANGED <<scenario, rows, task, session, answers, toDo, clock, count, nextId, reader>>
    BY <1>8 DEF Continue, tables
  <2>2. TablesInv'
    BY <1>1, <2>1 DEF TablesInv
  <2>3. Grown
    BY <1>1, <1>2, <2>1 DEF Grown
  <2>4. QED
    BY <2>1, <2>2, <2>3
<1>9. CASE Answer(s)
  <2>1. PICK t \in Tasks :
          answers' = answers \cup {[session |-> s, task |-> t, key |-> "seq",
                                    field |-> "response", score |-> 5]}
    BY <1>9 DEF Answer
  <2>2. /\ session[s] = "active"
        /\ UNCHANGED <<scenario, rows, task, session, place, toDo, clock, count, nextId, reader>>
    BY <1>9 DEF Answer, writer
  <2>3. \A x \in answers' : x.session \in Sessions /\ session[x.session] \notin {"none", "purged"}
    BY <2>1, <2>2 DEF TablesInv
  <2>4. TablesInv'
    BY <2>2, <2>3 DEF TablesInv
  <2>5. Grown
    BY <1>1, <1>2, <2>1, <2>2 DEF Grown
  <2>6. QED
    BY <2>2, <2>4, <2>5
<1>10. CASE EndSession(s)
  <2>1. PICK at \in Times(s) : Store(s, None, Plain("session_completed"), at)
    BY <1>10 DEF EndSession
  <2>2. UNCHANGED <<scenario, answers, place, toDo, reader>>
    BY <1>10 DEF EndSession
  <2>3. QED
    BY <1>1, <2>1, <2>2, StoreStep
<1>11. CASE Purge(s)
  <2> DEFINE kept == {i \in DOMAIN rows : rows[i].session # s}
  <2>1. /\ scenario.purging
        /\ session' = [session EXCEPT ![s] = "purged"]
        /\ rows' = KeepAt(rows, kept)
        /\ answers' = {x \in answers : x.session # s}
        /\ UNCHANGED <<scenario, place, toDo, clock, count, nextId, reader>>
    BY <1>11 DEF Purge, writer
  <2>2. IsList(rows) /\ nextId \in Nat \ {0}
    BY <1>1 DEF IsTable
  <2>3. rows \in Seq(Elements(rows))
    BY <2>2 DEF IsList
  <2>4. kept \in SUBSET DOMAIN rows
    OBVIOUS
  <2> HIDE DEF kept
  <2>5. /\ KeepAt(rows, kept) \in Seq(Elements(rows))
        /\ \A k \in DOMAIN KeepAt(rows, kept) :
             Nth(kept, k) \in kept /\ KeepAt(rows, kept)[k] = rows[Nth(kept, k)]
        /\ \A k, l \in DOMAIN KeepAt(rows, kept) : k < l => Nth(kept, k) < Nth(kept, l)
    BY <2>3, <2>4, KeepAtFacts
  <2>6. IsList(rows')
    BY <2>1, <2>5, ElementsFacts DEF IsList
  <2>7. \A i \in DOMAIN rows' : /\ rows'[i].id \in 1 .. (nextId - 1) /\ rows'[i].at \in Nat
                                /\ rows'[i].session \in Sessions
    BY <1>1, <2>1, <2>4, <2>5 DEF IsTable
  <2>8. \A i, j \in DOMAIN rows' : i < j => rows'[i].id < rows'[j].id
    BY <1>1, <2>1, <2>4, <2>5 DEF IsTable
  <2>9. IsTable(rows', nextId')
    BY <2>1, <2>2, <2>6, <2>7, <2>8 DEF IsTable
  <2>10. session' \in [Sessions -> Statuses]
    BY <1>1, <2>1 DEF Statuses
  <2>11. \A x \in answers' : x.session \in Sessions /\ session'[x.session] \notin {"none", "purged"}
    BY <1>1, <2>1 DEF TablesInv
  <2>12. TablesInv'
    BY <2>1, <2>9, <2>10, <2>11 DEF TablesInv
  <2>13. QED
    BY <2>1, <2>12
<1>12. QED
  BY <1>3, <1>4, <1>5, <1>6, <1>7, <1>8, <1>9, <1>10, <1>11 DEF Write

\* A reader that has skipped nothing has not when the tables have grown.
LEMMA GrowthSkipsNothing ==
  ASSUME ReadInvariant, Grown, UNCHANGED reader, NothingSkipped
  PROVE  NothingSkipped'
<1>1. IsTable(rows, nextId) /\ IsTable(rows', nextId')
  BY DEF ReadInvariant, TablesInv, Grown
<1>2. Len(rows) \in Nat /\ Len(rows') \in Nat /\ reader.offset \in Nat
  BY <1>1, PlaceFacts DEF ReadInvariant, ReaderInv
<1>3. IsFiniteSet(Elements(rows')) /\ Elements(rows) \subseteq Elements(rows') /\ Len(rows) <= Len(rows')
  BY <1>1, ElementsFacts DEF IsTable, IsList, Grown
<1>4. \A e : /\ PlaceOf(e, rows) \in Nat /\ PlaceOf(e, rows') \in Nat
             /\ PlaceOf(e, rows) <= PlaceOf(e, rows')
  BY <1>3, PlacesMoveOn
<1>5. \A e : reader.offset < PlaceOf(e, rows) => reader.offset < PlaceOf(e, rows')
  BY <1>2, <1>4
<1>6. reader.offset <= Len(rows) => reader.offset <= Len(rows')
  BY <1>2, <1>3
<1>7. answers \subseteq answers'
  BY DEF Grown
<1>8. QED
  BY <1>3, <1>5, <1>6, <1>7 DEF NothingSkipped

\* A page holds the rows whose places are on it.
LEMMA PageFacts ==
  ASSUME IsTable(rows, nextId), NEW offset \in Nat, offset <= Len(rows)
  PROVE  /\ IsList(Page(offset)) /\ Len(Page(offset)) \in Nat
         /\ Elements(Page(offset)) \subseteq Elements(rows)
         /\ \A e \in Elements(rows) :
              offset < PlaceOf(e, rows) /\ PlaceOf(e, rows) <= offset + PageSize
                => e \in Elements(Page(offset))
         /\ ~(Len(Page(offset)) < PageSize) => offset + PageSize <= Len(rows)
         /\ Len(Page(offset)) < PageSize =>
              \A e \in Elements(rows) : PlaceOf(e, rows) <= offset + PageSize
<1> DEFINE table == InPageOrder(rows)
           n == Len(rows)
           last == IF offset + PageSize < n THEN offset + PageSize ELSE n
           slice == [k \in 1 .. (last - offset) |-> table[offset + k]]
<1>1. /\ n \in Nat /\ PageSize \in Nat \ {0}
      /\ \A e \in Elements(rows) : PlaceOf(e, rows) \in 1 .. n
      /\ table \in Seq(Elements(rows)) /\ Len(table) = n
      /\ \A e \in Elements(rows) : table[PlaceOf(e, rows)] = e
  BY PlaceFacts, ReadAssumption
<1>2. table \in [1 .. n -> Elements(rows)]
  BY <1>1, LenProperties
<1> HIDE DEF table
<1>3. Page(offset) = SubSeq(table, offset + 1, last)
  BY <1>1 DEF Page, table
<1>4. n = Len(rows)
  OBVIOUS
<1> HIDE DEF n
<1>5. last \in Nat /\ last <= n /\ offset <= last /\ last - offset \in Nat
  BY <1>1, <1>4
<1>6. Page(offset) = slice
  <2> DEFINE cut == SubSeq(table, offset + 1, last)
  <2>1. /\ cut \in Seq(Elements(rows))
        /\ Len(cut) = IF offset + 1 <= last THEN last - (offset + 1) + 1 ELSE 0
        /\ \A k \in 1 .. (last - (offset + 1) + 1) : cut[k] = table[offset + 1 + k - 1]
    <3> DEFINE first == offset + 1
    <3>1. first \in 1 .. (Len(table) + 1) /\ last \in (first - 1) .. Len(table)
      BY <1>1, <1>5
    <3>2. table \in Seq(Elements(rows))
      BY <1>1
    <3> HIDE DEF last, first
    <3>3. /\ SubSeq(table, first, last) \in Seq(Elements(rows))
          /\ Len(SubSeq(table, first, last)) = IF first <= last THEN last - first + 1 ELSE 0
          /\ \A k \in 1 .. (last - first + 1) : SubSeq(table, first, last)[k] = table[first + k - 1]
      BY <3>1, <3>2, SubSeqProperties
    <3>4. QED
      BY <3>3 DEF first
  <2> HIDE DEF cut
  <2>2. Len(cut) = last - offset /\ last - (offset + 1) + 1 = last - offset
    BY <1>5, <2>1
  <2>3. \A k \in 1 .. (last - offset) : offset + 1 + k - 1 = offset + k
    BY <1>5
  <2> HIDE DEF last
  <2>4. cut = [k \in 1 .. (last - offset) |-> cut[k]]
    BY <2>1, <2>2, LenProperties
  <2>5. \A k \in 1 .. (last - offset) : cut[k] = table[offset + k]
    BY <2>1, <2>2, <2>3
  <2>6. cut = slice
    BY <2>4, <2>5
  <2>7. QED
    BY <1>3, <2>6 DEF cut
<1>7. \A k \in 1 .. (last - offset) : offset + k \in 1 .. n
  BY <1>1, <1>5
<1>8. slice \in Seq(Elements(rows)) /\ Len(slice) = last - offset /\ DOMAIN slice = 1 .. (last - offset)
  <2>1. slice \in [1 .. (last - offset) -> Elements(rows)]
    BY <1>2, <1>7
  <2> DEFINE m == last - offset
  <2>2. m \in Nat /\ slice \in [1 .. m -> Elements(rows)]
    BY <1>5, <2>1
  <2> HIDE DEF m, slice
  <2>3. slice \in Seq(Elements(rows)) /\ Len(slice) = m /\ DOMAIN slice = 1 .. m
    BY <2>2
  <2>4. QED
    BY <2>3 DEF m
<1>9. ASSUME NEW e \in Elements(rows), offset < PlaceOf(e, rows), PlaceOf(e, rows) <= offset + PageSize
      PROVE  e \in Elements(slice)
  <2> DEFINE k == PlaceOf(e, rows) - offset
  <2>1. PlaceOf(e, rows) \in 1 .. n
    BY <1>1
  <2>2. k \in 1 .. (last - offset) /\ offset + k = PlaceOf(e, rows)
    BY <1>1, <1>5, <1>9, <2>1
  <2>3. slice[k] = e
    BY <1>1, <2>2
  <2>4. QED
    BY <1>8, <2>2, <2>3 DEF Elements
<1>10. IsList(slice) /\ Elements(slice) \subseteq Elements(rows)
  BY <1>8, ElementsFacts DEF IsList
<1>11. ~(Len(slice) < PageSize) => offset + PageSize <= n
  BY <1>1, <1>5, <1>8
<1>12. Len(slice) < PageSize => n <= offset + PageSize
  BY <1>1, <1>5, <1>8
<1> HIDE DEF slice, last
<1>13. Len(slice) < PageSize => \A e \in Elements(rows) : PlaceOf(e, rows) <= offset + PageSize
  BY <1>1, <1>12
<1>14. QED
  BY <1>4, <1>5, <1>6, <1>8, <1>9, <1>10, <1>11, <1>13

\* What the results slice does.
LEMMA ReadStep ==
  ASSUME ReadInvariant, Read
  PROVE  ReadInvariant'
<1>1. UNCHANGED <<scenario, rows, task, session, answers, place, toDo, clock, count, nextId>>
  BY DEF Read, Open, ReadEvents, ReadSessions, ReadAnswers, tables, writer
<1>2. TablesInv'
  BY <1>1 DEF ReadInvariant, TablesInv
<1>3. ReaderRecord /\ reader.step \in Steps /\ reader.offset \in Nat
  BY DEF ReadInvariant, ReaderInv
<1>4. IsTable(rows, nextId) /\ Len(rows) \in Nat
  BY PlaceFacts DEF ReadInvariant, TablesInv
<1>5. \A e \in Elements(rows) : PlaceOf(e, rows) \in 1 .. Len(rows)
  BY <1>4, PlaceFacts
<1>6. CASE Open
  <2>1. reader' = [step |-> "events", offset |-> 0, got |-> <<>>, sessions |-> None,
                   answers |-> {}, rowsBefore |-> Elements(rows), answersBefore |-> answers]
    BY <1>6 DEF Open, Closed
  <2>2. ReaderRecord' /\ reader'.step = "events" /\ reader'.offset = 0 /\ reader'.sessions = None
        /\ reader'.rowsBefore = Elements(rows) /\ reader'.answersBefore = answers /\ reader'.got = <<>>
    BY <2>1 DEF ReaderRecord
  <2>3. IsList(<<>>) /\ Elements(<<>>) = {}
    BY DEF IsList, Elements
  <2>4. NothingSkipped'
    BY <1>1, <1>4, <1>5, <2>2, <2>3 DEF NothingSkipped
  <2>5. QED
    BY <1>2, <2>2, <2>4 DEF ReadInvariant, ReaderInv, Steps
<1>7. CASE ReadEvents
  <2> DEFINE slice == Page(reader.offset)
             got == Joined(reader.got, slice)
             step == IF Len(slice) < PageSize THEN "answers" ELSE "events"
  <2>1. /\ reader.step = "events"
        /\ reader' = [reader EXCEPT !.got = got, !.offset = @ + PageSize, !.step = step]
    BY <1>7 DEF ReadEvents, Joined
  <2>2. step \in {"answers", "events"}
    OBVIOUS
  <2>3. step = "answers" <=> Len(slice) < PageSize
    OBVIOUS
  <2> HIDE DEF slice, got, step
  <2>4. /\ ReaderRecord' /\ reader'.step = step /\ reader'.offset = reader.offset + PageSize
        /\ reader'.got = got /\ reader'.sessions = reader.sessions
        /\ reader'.answers = reader.answers /\ reader'.rowsBefore = reader.rowsBefore
        /\ reader'.answersBefore = reader.answersBefore
    BY <1>3, <2>1 DEF ReaderRecord
  <2>5. reader'.offset \in Nat /\ PageSize \in Nat
    BY <1>3, <2>4, ReadAssumption
  <2>6. ASSUME NothingSkipped PROVE NothingSkipped'
    <3>1. /\ reader.offset <= Len(rows) /\ IsList(reader.got)
          /\ Elements(reader.got) \subseteq Elements(rows)
      BY <2>1, <2>6 DEF NothingSkipped
    <3>2. /\ IsList(slice) /\ Elements(slice) \subseteq Elements(rows)
          /\ \A e \in Elements(rows) :
               reader.offset < PlaceOf(e, rows) /\ PlaceOf(e, rows) <= reader.offset + PageSize
                 => e \in Elements(slice)
          /\ ~(Len(slice) < PageSize) => reader.offset + PageSize <= Len(rows)
          /\ Len(slice) < PageSize =>
               \A e \in Elements(rows) : PlaceOf(e, rows) <= reader.offset + PageSize
      BY <1>3, <1>4, <3>1, PageFacts DEF slice
    <3>3. /\ IsList(got) /\ Elements(got) = Elements(reader.got) \cup Elements(slice)
          /\ Elements(got) \subseteq Elements(rows)
      BY <3>1, <3>2, ElementsOfConcat DEF got
    <3>4. \A e \in reader.rowsBefore :
            /\ e \in Elements(rows)
            /\ e \in Elements(reader.got) \/ reader.offset < PlaceOf(e, rows)
      BY <2>1, <2>6 DEF NothingSkipped
    <3>5. \A e \in reader.rowsBefore :
            e \in Elements(got) \/ reader.offset + PageSize < PlaceOf(e, rows)
      BY <1>3, <1>5, <2>5, <3>2, <3>3, <3>4
    <3>6. step # "events" => reader.rowsBefore \subseteq Elements(got)
      <4>1. ASSUME step # "events", NEW e \in reader.rowsBefore PROVE e \in Elements(got)
        <5>1. PlaceOf(e, rows) <= reader.offset + PageSize
          BY <2>2, <2>3, <3>2, <3>4, <4>1
        <5>2. ~(reader.offset + PageSize < PlaceOf(e, rows))
          BY <1>3, <1>5, <2>5, <3>4, <5>1
        <5>3. QED
          BY <3>5, <5>2
      <4>2. QED
        BY <4>1
    <3>7. step = "events" => reader.offset + PageSize <= Len(rows)
      BY <2>3, <3>2
    <3>8. /\ reader.rowsBefore \subseteq Elements(rows) /\ reader.answersBefore \subseteq answers
          /\ reader.sessions = None \/ \A x \in reader.answersBefore : x.session \in reader.sessions
      BY <2>6 DEF NothingSkipped
    <3>9. step # "done"
      BY <2>2
    <3>10. QED
      BY <1>1, <2>4, <3>3, <3>5, <3>6, <3>7, <3>8, <3>9 DEF NothingSkipped
  <2>7. reader.step # "closed" /\ reader'.step \in Steps
    BY <2>1, <2>2, <2>4 DEF Steps
  <2>8. QED
    BY <1>1, <1>2, <2>4, <2>5, <2>6, <2>7 DEF ReadInvariant, ReaderInv
<1>8. CASE ReadSessions
  <2> DEFINE listed == {s \in Sessions : session[s] \notin {"none", "purged"}}
  <2>1. reader.step \in {"events", "answers"} /\ reader' = [reader EXCEPT !.sessions = listed]
    BY <1>8 DEF ReadSessions
  <2>2. \A x \in answers : x.session \in listed
    BY DEF ReadInvariant, TablesInv
  <2> HIDE DEF listed
  <2>3. /\ ReaderRecord' /\ reader'.step = reader.step /\ reader'.offset = reader.offset
        /\ reader'.got = reader.got /\ reader'.sessions = listed
        /\ reader'.answers = reader.answers /\ reader'.rowsBefore = reader.rowsBefore
        /\ reader'.answersBefore = reader.answersBefore
    BY <1>3, <2>1 DEF ReaderRecord
  <2>4. NothingSkipped => NothingSkipped'
    BY <1>1, <2>2, <2>3 DEF NothingSkipped
  <2>5. QED
    BY <1>1, <1>2, <1>3, <2>1, <2>3, <2>4 DEF ReadInvariant, ReaderInv
<1>9. CASE ReadAnswers
  <2> DEFINE own == {x \in answers : x.session \in reader.sessions}
  <2>1. /\ reader.step = "answers" /\ reader.sessions # None
        /\ reader' = [reader EXCEPT !.step = "done", !.answers = own]
    BY <1>9 DEF ReadAnswers
  <2>2. NothingSkipped => reader.answersBefore \subseteq own
    BY <2>1 DEF NothingSkipped
  <2> HIDE DEF own
  <2>3. /\ ReaderRecord' /\ reader'.step = "done" /\ reader'.offset = reader.offset
        /\ reader'.got = reader.got /\ reader'.sessions = reader.sessions
        /\ reader'.answers = own /\ reader'.rowsBefore = reader.rowsBefore
        /\ reader'.answersBefore = reader.answersBefore
    BY <1>3, <2>1 DEF ReaderRecord
  <2>4. NothingSkipped => NothingSkipped'
    BY <1>1, <2>1, <2>2, <2>3 DEF NothingSkipped
  <2>5. QED
    BY <1>1, <1>2, <1>3, <2>1, <2>3, <2>4 DEF ReadInvariant, ReaderInv, Steps
<1>10. QED
  BY <1>6, <1>7, <1>8, <1>9 DEF Read

\* Every step keeps it.
LEMMA ReadNextStep == ReadInvariant /\ [ReadNext]_readVars => ReadInvariant'
<1> SUFFICES ASSUME ReadInvariant, [ReadNext]_readVars PROVE ReadInvariant'
  OBVIOUS
<1>1. ASSUME NEW s \in Sessions, Write(s) PROVE ReadInvariant'
  <2>1. TablesInv' /\ UNCHANGED <<scenario, reader>> /\ (scenario.purging \/ Grown)
    BY <1>1, WriteStep DEF ReadInvariant
  <2>2. NothingSkipped => scenario.purging \/ NothingSkipped'
    BY <2>1, GrowthSkipsNothing
  <2>3. ReaderInv'
    BY <2>1, <2>2 DEF ReadInvariant, ReaderInv, ReaderRecord
  <2>4. QED
    BY <2>1, <2>3 DEF ReadInvariant
<1>2. CASE Read
  BY <1>2, ReadStep
<1>3. CASE UNCHANGED readVars
  <2>1. UNCHANGED <<scenario, rows, task, session, answers, place, toDo, clock, count, nextId, reader>>
    BY <1>3 DEF readVars, tables, writer
  <2>2. NothingSkipped' <=> NothingSkipped
    BY <2>1 DEF NothingSkipped
  <2>3. QED
    BY <2>1, <2>2 DEF ReadInvariant, TablesInv, ReaderInv, ReaderRecord
<1>4. QED
  BY <1>1, <1>2, <1>3 DEF ReadNext

\* The reader has skipped nothing, whatever is written between its pages.
THEOREM ReadInvariantHolds == ReadSpec => []ReadInvariant
BY ReadInitial, ReadNextStep, PTL DEF ReadSpec

\* The type invariant.
THEOREM ReadTypes == ReadSpec => []ReadTypeOK
<1>1. ReadInvariant => ReadTypeOK
  <2> SUFFICES ASSUME ReadInvariant PROVE ReadTypeOK
    OBVIOUS
  <2>1. IsTable(rows, nextId) /\ DOMAIN rows \subseteq Nat
    BY LenProperties DEF ReadInvariant, TablesInv, IsTable, IsList
  <2>2. \A i, j \in DOMAIN rows : rows[i].id = rows[j].id => i = j
    <3>1. \A i, j \in DOMAIN rows : i < j \/ j < i \/ i = j
      BY <2>1
    <3>2. QED
      BY <2>1, <3>1 DEF IsTable
  <2>3. QED
    BY <2>1, <2>2 DEF ReadInvariant, TablesInv, ReaderInv, ReadTypeOK, IsTable, Statuses
<1>2. QED
  BY <1>1, ReadInvariantHolds, PTL

\* Every event and every answer that was stored when the page was opened is in
\* what was read, unless sessions are purged.
THEOREM NothingIsMissed == ReadSpec => []NothingMissed
<1>1. ReadInvariant => NothingMissed
  <2>1. ReadInvariant /\ reader.step = "done" /\ ~scenario.purging => NothingSkipped
    BY DEF ReadInvariant, ReaderInv
  <2>2. QED
    BY <2>1 DEF NothingMissed, NothingSkipped, Result
<1>2. QED
  BY <1>1, ReadInvariantHolds, PTL

-----------------------------------------------------------------------------
(* The funnel. *)

\* Where the search for the n-th screen ends, when the one before it ended
\* at c.
Found(path, screens, c, n) ==
  LET later == {k \in DOMAIN path : k > c /\ path[k] = screens[n]}
  IN  IF later = {} THEN Len(path) + 1 ELSE Min(later)

\* A function that is such a search.
Search(path, screens, m, c) ==
  c = [n \in 0 .. m |-> IF n = 0 THEN 0 ELSE Found(path, screens, c[n - 1], n)]

\* A screen that is found is the first one behind the cursor.
LEMMA FoundFacts ==
  ASSUME NEW path, DOMAIN path = 1 .. Len(path), Len(path) \in Nat, NEW screens,
         NEW c \in 0 .. (Len(path) + 1), NEW n
  PROVE  /\ Found(path, screens, c, n) \in 1 .. (Len(path) + 1)
         /\ Found(path, screens, c, n) <= Len(path) =>
              /\ c < Found(path, screens, c, n)
              /\ path[Found(path, screens, c, n)] = screens[n]
         /\ \A k \in DOMAIN path : k > c /\ path[k] = screens[n] => Found(path, screens, c, n) <= k
<1> DEFINE later == {k \in DOMAIN path : k > c /\ path[k] = screens[n]}
<1>1. CASE later = {}
  BY <1>1 DEF Found
<1>2. CASE later # {}
  <2>1. later \in SUBSET Nat
    OBVIOUS
  <2>2. Min(later) \in later /\ \A k \in later : Min(later) <= k
    BY <1>2, <2>1, LeastElement
  <2>3. Found(path, screens, c, n) = Min(later)
    BY <1>2 DEF Found
  <2>4. QED
    BY <2>2, <2>3
<1>3. QED
  BY <1>1, <1>2

\* There is a search of any length.
LEMMA SearchExists ==
  ASSUME NEW path, NEW screens, NEW m \in Nat
  PROVE  \E c : Search(path, screens, m, c)
<1> DEFINE Fails == {n \in Nat : ~\E c : Search(path, screens, n, c)}
<1>1. SUFFICES ASSUME Fails # {} PROVE FALSE
  OBVIOUS
<1>2. Min(Fails) \in Fails /\ \A n \in Fails : Min(Fails) <= n
  BY <1>1, LeastElement
<1> DEFINE n == Min(Fails)
<1>3. n \in Nat /\ ~\E c : Search(path, screens, n, c)
  BY <1>2
<1>4. CASE n = 0
  <2> DEFINE c == [k \in 0 .. 0 |-> 0]
  <2>1. c = [k \in 0 .. 0 |-> IF k = 0 THEN 0 ELSE Found(path, screens, c[k - 1], k)]
    OBVIOUS
  <2>2. Search(path, screens, 0, c)
    BY <2>1 DEF Search
  <2>3. QED
    BY <1>3, <1>4, <2>2
<1>5. CASE n # 0
  <2>1. n - 1 \in Nat /\ n - 1 \notin Fails
    <3>1. n - 1 \in Nat /\ ~(n <= n - 1)
      BY <1>3, <1>5
    <3>2. QED
      BY <1>2, <3>1
  <2>2. PICK c : Search(path, screens, n - 1, c)
    BY <2>1
  <2>3. n \in Nat
    BY <1>3
  <2> HIDE DEF n, Fails
  <2> DEFINE d == [k \in 0 .. n |-> IF k = n THEN Found(path, screens, c[n - 1], n) ELSE c[k]]
  <2>4. \A k \in 0 .. (n - 1) : /\ d[k] = c[k]
                                /\ c[k] = IF k = 0 THEN 0 ELSE Found(path, screens, c[k - 1], k)
    BY <2>3, <2>1, <2>2 DEF Search
  <2>5. ASSUME NEW k \in 0 .. n
        PROVE  d[k] = IF k = 0 THEN 0 ELSE Found(path, screens, d[k - 1], k)
    <3>1. CASE k = n
      <4>1. n - 1 \in 0 .. (n - 1) /\ k # 0
        BY <1>5, <2>3, <2>1, <3>1
      <4>2. d[n - 1] = c[n - 1]
        BY <2>4, <4>1
      <4>3. d[n] = Found(path, screens, c[n - 1], n)
        BY <2>3
      <4> HIDE DEF d
      <4>4. QED
        BY <3>1, <4>1, <4>2, <4>3
    <3>2. CASE k = 0 /\ k # n
      <4>1. 0 \in 0 .. (n - 1)
        BY <2>1
      <4>2. QED
        BY <2>4, <3>2, <4>1
    <3>3. CASE k # 0 /\ k # n
      <4>1. k \in 0 .. (n - 1) /\ k - 1 \in 0 .. (n - 1)
        BY <2>3, <3>3
      <4>2. d[k] = c[k] /\ d[k - 1] = c[k - 1] /\ c[k] = Found(path, screens, c[k - 1], k)
        BY <2>4, <3>3, <4>1
      <4> HIDE DEF d
      <4>3. QED
        BY <3>3, <4>2
    <3>4. QED
      BY <3>1, <3>2, <3>3
  <2>6. d = [k \in 0 .. n |-> d[k]]
    OBVIOUS
  <2>7. Search(path, screens, n, d)
    <3> HIDE DEF d
    <3>1. QED
      BY <2>5, <2>6 DEF Search
  <2>8. QED
    BY <1>3, <2>7 DEF n
<1>6. QED
  BY <1>4, <1>5

\* How a search goes on: upwards until it is past the end, and it is never
\* behind any other way to find the screens in this order.
LEMMA SearchFacts ==
  ASSUME NEW path, DOMAIN path = 1 .. Len(path), Len(path) \in Nat, NEW screens,
         NEW m \in Nat, NEW c, Search(path, screens, m, c)
  PROVE  /\ \A n \in 0 .. m : c[n] \in 0 .. (Len(path) + 1)
         /\ \A n \in 1 .. m : c[n] <= Len(path) =>
              /\ c[n] \in DOMAIN path /\ path[c[n]] = screens[n]
              /\ \A k \in 0 .. (n - 1) : c[k] < c[n]
         /\ \A n \in 1 .. m : \A k \in DOMAIN path :
              k > c[n - 1] /\ path[k] = screens[n] => c[n] <= k
<1>1. /\ c[0] = 0
      /\ \A n \in 1 .. m : n - 1 \in 0 .. m /\ c[n] = Found(path, screens, c[n - 1], n)
  BY DEF Search
<1>2. \A n \in 0 .. m : c[n] \in 0 .. (Len(path) + 1)
  <2>1. \A n \in 1 .. m : c[n - 1] \in 0 .. (Len(path) + 1) => c[n] \in 0 .. (Len(path) + 1)
    <3>1. TAKE n \in 1 .. m
    <3>2. HAVE c[n - 1] \in 0 .. (Len(path) + 1)
    <3>3. Found(path, screens, c[n - 1], n) \in 1 .. (Len(path) + 1)
      BY <3>2, FoundFacts
    <3>4. QED
      BY <1>1, <3>3
  <2> DEFINE Bad == {n \in 0 .. m : ~(c[n] \in 0 .. (Len(path) + 1))}
  <2>2. ASSUME Bad # {} PROVE FALSE
    <3>1. Bad \in SUBSET Nat
      OBVIOUS
    <3>2. Min(Bad) \in Bad /\ \A n \in Bad : Min(Bad) <= n
      BY <2>2, <3>1, LeastElement
    <3>3. PICK n \in 0 .. m : n = Min(Bad) /\ ~(c[n] \in 0 .. (Len(path) + 1))
      BY <3>2
    <3>4. n # 0
      BY <1>1, <3>3
    <3>5. n \in 1 .. m /\ n - 1 \in 0 .. m /\ ~(n <= n - 1)
      BY <3>4
    <3>6. n - 1 \notin Bad
      BY <3>2, <3>3, <3>5
    <3>7. QED
      BY <2>1, <3>3, <3>5, <3>6
  <2>3. QED
    BY <2>2
<1>3. \A n \in 1 .. m :
        /\ c[n] \in 1 .. (Len(path) + 1)
        /\ c[n] <= Len(path) => c[n - 1] < c[n] /\ path[c[n]] = screens[n]
        /\ \A k \in DOMAIN path : k > c[n - 1] /\ path[k] = screens[n] => c[n] <= k
  <2>1. TAKE n \in 1 .. m
  <2>2. c[n - 1] \in 0 .. (Len(path) + 1)
    BY <1>1, <1>2
  <2> DEFINE found == Found(path, screens, c[n - 1], n)
  <2>3. /\ found \in 1 .. (Len(path) + 1)
        /\ found <= Len(path) => c[n - 1] < found /\ path[found] = screens[n]
        /\ \A k \in DOMAIN path : k > c[n - 1] /\ path[k] = screens[n] => found <= k
    BY <2>2, FoundFacts
  <2>4. c[n] = found
    BY <1>1
  <2> HIDE DEF found
  <2>5. QED
    BY <2>3, <2>4
<1>4. \A n \in 1 .. m : c[n] <= Len(path) => \A k \in 0 .. (n - 1) : c[k] < c[n]
  <2> DEFINE Rises(n) == c[n] <= Len(path) => \A k \in 0 .. (n - 1) : c[k] < c[n]
             Bad == {n \in 1 .. m : ~Rises(n)}
  <2>1. ASSUME Bad # {} PROVE FALSE
    <3>1. Bad \in SUBSET Nat
      OBVIOUS
    <3>2. Min(Bad) \in Bad /\ \A n \in Bad : Min(Bad) <= n
      BY <2>1, <3>1, LeastElement
    <3>3. PICK n \in 1 .. m : n = Min(Bad) /\ ~Rises(n)
      BY <3>2
    <3>4. c[n] <= Len(path) /\ c[n - 1] < c[n]
      BY <1>3, <3>3
    <3>5. PICK k \in 0 .. (n - 1) : ~(c[k] < c[n])
      BY <3>3
    <3>6. k # n - 1
      BY <3>4, <3>5
    <3>7. n - 1 \in 1 .. m /\ ~(n <= n - 1) /\ k \in 0 .. (n - 2) /\ k \in 0 .. m /\ n - 1 \in 0 .. m
      BY <3>5, <3>6
    <3>8. Rises(n - 1)
      BY <3>2, <3>3, <3>7
    <3>9. /\ c[n - 1] \in 0 .. (Len(path) + 1) /\ c[n] \in 0 .. (Len(path) + 1)
          /\ c[k] \in 0 .. (Len(path) + 1)
      BY <1>2, <3>7
    <3>10. c[n - 1] <= Len(path)
      BY <3>4, <3>9
    <3>11. c[k] < c[n - 1]
      <4>1. k \in 0 .. ((n - 1) - 1)
        BY <3>7
      <4>2. QED
        BY <3>8, <3>10, <4>1
    <3>12. QED
      BY <3>4, <3>5, <3>9, <3>11
  <2>2. QED
    BY <2>1
<1>5. \A n \in 1 .. m : c[n] <= Len(path) => c[n] \in DOMAIN path
  BY <1>3
<1>6. QED
  BY <1>2, <1>3, <1>4, <1>5

\* The greedy search gets as far as any.
LEMMA SearchVisits ==
  ASSUME NEW path, DOMAIN path = 1 .. Len(path), Len(path) \in Nat,
         NEW T, NEW screens \in Seq(T), NEW c, Search(path, screens, Len(screens), c),
         NEW n \in 0 .. Len(screens)
  PROVE  c[n] <= Len(path) <=> Visits(path, SubSeq(screens, 1, n))
<1> DEFINE m == Len(screens)
           prefix == SubSeq(screens, 1, n)
<1>1. m \in Nat /\ n \in Nat /\ DOMAIN screens = 1 .. m
  BY LenProperties
<1>2. DOMAIN prefix = 1 .. n /\ \A k \in 1 .. n : prefix[k] = screens[k]
  <2>1. \A i \in 1 .. n : screens[i] \in T
    BY <1>1, ElementOfSeq
  <2>2. /\ prefix \in Seq(T) /\ Len(prefix) = IF 1 <= n THEN n - 1 + 1 ELSE 0
        /\ \A i \in 1 .. (n - 1 + 1) : prefix[i] = screens[1 + i - 1]
    BY <1>1, <2>1, SubSeqProperties
  <2> HIDE DEF prefix
  <2>3. Len(prefix) = n
    BY <1>1, <2>2
  <2>4. QED
    BY <1>1, <2>2, <2>3, LenProperties
<1> HIDE DEF prefix
<1>3. /\ \A k \in 0 .. m : c[k] \in 0 .. (Len(path) + 1)
      /\ \A k \in 1 .. m : c[k] <= Len(path) =>
           /\ c[k] \in DOMAIN path /\ path[c[k]] = screens[k]
           /\ \A j \in 0 .. (k - 1) : c[j] < c[k]
      /\ \A k \in 1 .. m : \A i \in DOMAIN path :
           i > c[k - 1] /\ path[i] = screens[k] => c[k] <= i
  BY <1>1, SearchFacts
<1>4. c[0] = 0
  BY <1>1 DEF Search
<1>5. ASSUME c[n] <= Len(path) PROVE Visits(path, prefix)
  <2> DEFINE at == [k \in 1 .. n |-> c[k]]
  <2>1. \A k \in 1 .. n : k \in 1 .. m /\ c[k] <= Len(path)
    <3>1. TAKE k \in 1 .. n
    <3>2. CASE k = n
      BY <1>1, <1>5, <3>2
    <3>3. CASE k # n
      <4>1. n \in 1 .. m /\ k \in 0 .. (n - 1) /\ k \in 0 .. m /\ n \in 0 .. m
        BY <1>1, <3>3
      <4>2. c[k] < c[n] /\ c[k] \in 0 .. (Len(path) + 1) /\ c[n] \in 0 .. (Len(path) + 1)
        BY <1>3, <1>5, <4>1
      <4>3. QED
        BY <1>1, <1>5, <4>1, <4>2
    <3>4. QED
      BY <3>2, <3>3
  <2>2. at \in [DOMAIN prefix -> DOMAIN path]
    BY <1>2, <1>3, <2>1
  <2>3. \A k \in DOMAIN prefix : path[at[k]] = prefix[k]
    BY <1>2, <1>3, <2>1
  <2>4. \A j, k \in DOMAIN prefix : j < k => at[j] < at[k]
    <3>1. \A j, k \in 1 .. n : j < k => j \in 0 .. (k - 1)
      BY <1>1
    <3>2. QED
      BY <1>2, <1>3, <2>1, <3>1
  <2>5. QED
    BY <2>2, <2>3, <2>4 DEF Visits
<1>6. ASSUME Visits(path, prefix) PROVE c[n] <= Len(path)
  <2>1. PICK at \in [DOMAIN prefix -> DOMAIN path] :
          /\ \A k \in DOMAIN prefix : path[at[k]] = prefix[k]
          /\ \A j, k \in DOMAIN prefix : j < k => at[j] < at[k]
    BY <1>6 DEF Visits
  <2> DEFINE Behind == {k \in 1 .. n : ~(c[k] <= at[k])}
  <2>2. ASSUME Behind # {} PROVE FALSE
    <3>1. Behind \in SUBSET Nat
      OBVIOUS
    <3>2. Min(Behind) \in Behind /\ \A k \in Behind : Min(Behind) <= k
      BY <2>2, <3>1, LeastElement
    <3>3. PICK k \in 1 .. n : k = Min(Behind) /\ ~(c[k] <= at[k])
      BY <3>2
    <3>4. k \in 1 .. m /\ k - 1 \in 0 .. m /\ ~(k <= k - 1) /\ k \in Nat
      BY <1>1
    <3>5. at[k] \in DOMAIN path /\ path[at[k]] = screens[k]
      BY <1>2, <2>1
    <3>6. c[k - 1] < at[k]
      <4>1. CASE k = 1
        <5>1. k - 1 = 0
          BY <4>1
        <5>2. QED
          BY <1>4, <3>5, <5>1
      <4>2. CASE k # 1
        <5>1. k - 1 \in 1 .. n /\ k - 1 < k
          BY <1>1, <4>2
        <5>2. c[k - 1] <= at[k - 1]
          BY <3>2, <3>3, <3>4, <5>1
        <5>3. at[k - 1] < at[k] /\ at[k - 1] \in DOMAIN path
          BY <1>2, <2>1, <5>1
        <5>4. c[k - 1] \in Nat /\ at[k - 1] \in Nat /\ at[k] \in Nat
          BY <1>3, <3>4, <3>5, <5>3
        <5>5. QED
          BY <5>2, <5>3, <5>4
      <4>3. QED
        BY <4>1, <4>2
    <3>7. c[k] <= at[k]
      BY <1>3, <3>4, <3>5, <3>6
    <3>8. QED
      BY <3>3, <3>7
  <2>3. CASE n = 0
    BY <1>4, <2>3
  <2>4. CASE n # 0
    <3>1. n \in 1 .. n /\ n \in 0 .. m
      BY <1>1, <2>4
    <3>2. c[n] <= at[n] /\ at[n] \in DOMAIN path
      BY <1>2, <2>1, <2>2, <3>1
    <3>3. c[n] \in Nat
      BY <1>3, <3>1
    <3>4. QED
      BY <3>2, <3>3
  <2>5. QED
    BY <2>3, <2>4
<1>7. QED
  BY <1>5, <1>6 DEF prefix

\* Progress is what the search defines.
LEMMA ProgressIsLongest ==
  ASSUME NEW path, DOMAIN path = 1 .. Len(path), Len(path) \in Nat,
         NEW T, NEW screens \in Seq(T)
  PROVE  Progress(path, screens) =
           Max({n \in 0 .. Len(screens) : Visits(path, SubSeq(screens, 1, n))})
<1> DEFINE m == Len(screens)
           c == CHOOSE c : Search(path, screens, m, c)
<1>1. m \in Nat
  BY LenProperties
<1>2. Search(path, screens, m, c)
  BY <1>1, SearchExists
<1>3. Progress(path, screens) = Max({n \in 0 .. m : c[n] <= Len(path)})
  BY DEF Progress, Search, Found
<1>4. \A n \in 0 .. m : c[n] <= Len(path) <=> Visits(path, SubSeq(screens, 1, n))
  BY <1>2, SearchVisits
<1> HIDE DEF c
<1>5. {n \in 0 .. m : c[n] <= Len(path)} = {n \in 0 .. m : Visits(path, SubSeq(screens, 1, n))}
  BY <1>4
<1>6. QED
  BY <1>3, <1>5

\* How far a session gets through the funnel is the longest prefix of its
\* screens that its path visits in this order: nothing is gained by passing
\* over the first visit of a screen.
THEOREM FunnelIsRight == ReadSpec => []FunnelIsLongestPrefix
<1>1. ReadInvariant => FunnelIsLongestPrefix
  <2> SUFFICES ASSUME ReadInvariant, NEW s
               PROVE  LET path == SessionPath(rows, s)
                      IN  Progress(path, ScreenFunnel) =
                            Max({n \in 0 .. Len(ScreenFunnel) :
                                   Visits(path, SubSeq(ScreenFunnel, 1, n))})
    BY DEF FunnelIsLongestPrefix
  <2> DEFINE views == {i \in DOMAIN rows : /\ rows[i].session = s /\ IsRaw(rows[i])
                                           /\ rows[i].type = "screen_view" /\ rows[i].screen # None}
             path == SessionPath(rows, s)
  <2>1. DOMAIN rows = 1 .. Len(rows) /\ Len(rows) \in Nat
    BY LenProperties DEF ReadInvariant, TablesInv, IsTable, IsList
  <2>2. IsFiniteSet(views)
    <3>1. IsFiniteSet(DOMAIN rows) /\ views \in SUBSET DOMAIN rows
      BY <2>1, FS_Interval
    <3>2. QED
      BY <3>1, FS_Subset
  <2>3. Cardinality(views) \in Nat
    BY <2>2, FS_CardinalityType
  <2>4. \E v : path = [k \in 1 .. Cardinality(views) |-> v[k]]
    <3> DEFINE v == path
               order == InPlaces(views, [i \in views |-> Append(BySequence(rows[i]), i)])
    <3>1. DOMAIN order = 1 .. Cardinality(views)
      BY DEF InPlaces
    <3>2. path = [k \in DOMAIN order |-> rows[order[k]].screen]
      BY DEF SessionPath
    <3> HIDE DEF order
    <3>3. path = [k \in 1 .. Cardinality(views) |-> path[k]]
      BY <3>1, <3>2
    <3>4. QED
      BY <3>3
  <2> HIDE DEF path, views
  <2>5. DOMAIN path = 1 .. Len(path) /\ Len(path) \in Nat
    BY <2>3, <2>4
  <2>6. ScreenFunnel \in Seq(Screens)
    BY ReadAssumption
  <2>7. QED
    BY <2>5, <2>6, ProgressIsLongest DEF path
<1>2. QED
  BY <1>1, ReadInvariantHolds, PTL

-----------------------------------------------------------------------------
(* What the tables tell of an attempt. *)

\* A derived row, and the raw one it was derived from.
From(e, r) == /\ IsRaw(r) /\ r.session = e.session /\ r.task = e.task /\ r.at = e.at
              /\ e.from = {r.id} /\ r.id < e.id

\* The terminal evidence that decided an attempt, of which the rows are found:
\* the only one, but for what the participant sent later.
Decides(e, row, found) ==
  /\ e \in found /\ OutcomeOf(e) # None /\ OutcomeOf(e) = row.outcome /\ e.at = row.ended
  /\ \A d \in found : OutcomeOf(d) # None => d = e \/ (IsRaw(d) /\ e.id < d.id)

\* A raw row that tells of the start.
Starts(e) == IsRaw(e) /\ e.type = "task_started"

\* A row of task_sessions says what the rows of its attempt do: when it was
\* started, by the one event that does, and by what it was decided.
Tells(row, found) ==
  /\ row = [startedAt |-> row.startedAt, outcome |-> row.outcome, ended |-> row.ended]
  /\ row.outcome # None => Started(row)
  /\ \A e \in found : Starts(e) => e.at = row.startedAt /\ \A d \in found : Starts(d) => d = e
  /\ row.outcome = None => \A e \in found : OutcomeOf(e) = None
  /\ row.outcome # None => \E e \in found : Decides(e, row, found)

\* The projection of a raw event keeps to this.
LEMMA ProjectionTells ==
  ASSUME NEW row, NEW found, Tells(row, found), NEW e, IsRaw(e), e.at \in Nat, None \notin Nat,
         \A d \in found : d.id < e.id,
         \/ Starts(e) /\ row = NoRow /\ found = {}
         \/ ~Starts(e) /\ Started(row)
  PROVE  Tells(ProjectTask(row, e), found \cup {e}) /\ Started(ProjectTask(row, e))
<1> DEFINE after == ProjectTask(row, e)
           all == found \cup {e}
<1>1. row = [startedAt |-> row.startedAt, outcome |-> row.outcome, ended |-> row.ended]
  BY DEF Tells
<1>2. CASE Starts(e) /\ row = NoRow /\ found = {}
  <2>1. after = [startedAt |-> e.at, outcome |-> None, ended |-> None]
    <3>1. ~Started(row) /\ row = [startedAt |-> None, outcome |-> None, ended |-> None]
      BY <1>2 DEF NoRow, Started
    <3>2. after = [row EXCEPT !.startedAt = e.at]
      BY <1>2, <3>1 DEF ProjectTask, Starts
    <3>3. QED
      BY <3>1, <3>2
  <2>2. OutcomeOf(e) = None
    BY <1>2 DEF OutcomeOf, Starts, RawTerminal
  <2>3. all = {e}
    BY <1>2
  <2> HIDE DEF after
  <2>4. QED
    BY <2>1, <2>2, <2>3 DEF Tells, Started, after
<1>3. CASE ~Starts(e) /\ Started(row) /\ ~(OutcomeOf(e) # None /\ row.outcome = None)
  <2>1. after = row
    BY <1>3 DEF ProjectTask, Starts
  <2>2. row.outcome # None => \E d \in all : Decides(d, row, all)
    <3>1. ASSUME row.outcome # None, NEW d \in found, Decides(d, row, found)
          PROVE  Decides(d, row, all)
      BY <3>1 DEF Decides
    <3>2. QED
      BY <3>1 DEF Tells
  <2>3. row.outcome = None => \A d \in all : OutcomeOf(d) = None
    BY <1>3 DEF Tells
  <2>4. \A c \in all : Starts(c) => c.at = row.startedAt /\ \A d \in all : Starts(d) => d = c
    BY <1>3 DEF Tells
  <2> HIDE DEF after
  <2>5. QED
    BY <1>1, <1>3, <2>1, <2>2, <2>3, <2>4 DEF Tells, after
<1>4. CASE ~Starts(e) /\ Started(row) /\ OutcomeOf(e) # None /\ row.outcome = None
  <2>1. after = [row EXCEPT !.outcome = OutcomeOf(e), !.ended = e.at]
    BY <1>4 DEF ProjectTask, Starts
  <2>2. after = [startedAt |-> row.startedAt, outcome |-> OutcomeOf(e), ended |-> e.at]
    BY <1>1, <2>1
  <2> HIDE DEF after
  <2>3. \A d \in found : OutcomeOf(d) = None
    BY <1>4 DEF Tells
  <2>4. Decides(e, after, all)
    BY <1>4, <2>2, <2>3 DEF Decides
  <2>5. \A c \in all : Starts(c) => c.at = after.startedAt /\ \A d \in all : Starts(d) => d = c
    BY <1>4, <2>2 DEF Tells
  <2>6. Started(after)
    BY <1>4, <2>2 DEF Started
  <2>7. QED
    BY <1>4, <2>2, <2>4, <2>5, <2>6 DEF Tells, after
<1>5. QED
  BY <1>2, <1>3, <1>4

\* So does that of what is derived from it.
LEMMA DerivedTell ==
  ASSUME NEW row, NEW found, Tells(row, found), Started(row), NEW derived,
         \A i \in DOMAIN derived : ~IsRaw(derived[i]),
         \A i \in DOMAIN derived : OutcomeOf(derived[i]) # None => i = 1 /\ row.outcome = None
  PROVE  Tells(ProjectDerived(row, derived), found \cup Elements(derived))
<1> DEFINE after == ProjectDerived(row, derived)
           all == found \cup Elements(derived)
           decides == {d \in Elements(derived) : OutcomeOf(d) # None}
<1>1. row = [startedAt |-> row.startedAt, outcome |-> row.outcome, ended |-> row.ended]
  BY DEF Tells
<1>2. \A d \in Elements(derived) : ~IsRaw(d) /\ ~Starts(d)
  BY DEF Elements, Starts
<1>3. \A d \in decides : d = derived[1] /\ row.outcome = None
  BY DEF Elements
<1>4. \A c \in all : Starts(c) => c.at = row.startedAt /\ \A d \in all : Starts(d) => d = c
  BY <1>2 DEF Tells
<1>5. CASE decides = {}
  <2>1. \A d \in Elements(derived) : OutcomeOf(d) = None
    BY <1>5
  <2>2. after = row
    BY <2>1 DEF ProjectDerived
  <2> HIDE DEF after, decides
  <2>3. row.outcome # None => \E d \in all : Decides(d, row, all)
    <3>1. ASSUME row.outcome # None, NEW d \in found, Decides(d, row, found)
          PROVE  Decides(d, row, all)
      BY <2>1, <3>1 DEF Decides
    <3>2. QED
      BY <3>1 DEF Tells
  <2>4. row.outcome = None => \A d \in all : OutcomeOf(d) = None
    BY <2>1 DEF Tells
  <2>5. QED
    BY <1>1, <1>4, <2>2, <2>3, <2>4 DEF Tells, after
<1>6. CASE decides # {}
  <2> DEFINE e == CHOOSE d \in Elements(derived) : OutcomeOf(d) # None
  <2>1. e \in decides
    BY <1>6
  <2>2. after = ProjectTask(row, e)
    BY <1>6 DEF ProjectDerived
  <2> HIDE DEF e, after
  <2>3. /\ e \in Elements(derived) /\ OutcomeOf(e) # None /\ ~IsRaw(e) /\ row.outcome = None
        /\ \A d \in Elements(derived) : OutcomeOf(d) # None => d = e
    BY <1>2, <1>3, <2>1
  <2> HIDE DEF decides
  <2>4. after = [row EXCEPT !.outcome = OutcomeOf(e), !.ended = e.at]
    BY <2>2, <2>3 DEF ProjectTask
  <2>5. after = [startedAt |-> row.startedAt, outcome |-> OutcomeOf(e), ended |-> e.at]
    BY <1>1, <2>4
  <2>6. \A d \in found : OutcomeOf(d) = None
    BY <2>3 DEF Tells
  <2>7. Decides(e, after, all)
    BY <2>3, <2>5, <2>6 DEF Decides
  <2>8. \A c \in all : Starts(c) => c.at = after.startedAt
    BY <1>4, <2>5
  <2>9. after.outcome # None /\ Started(after)
    BY <2>3, <2>5 DEF Started
  <2>10. QED
    BY <1>4, <2>3, <2>5, <2>7, <2>8, <2>9 DEF Tells, after
<1>7. QED
  BY <1>5, <1>6

-----------------------------------------------------------------------------
(* The invariant of the evidence. *)

\* The rows of an attempt.
RowsOf(a) == {e \in Elements(rows) : e.session = a[1] /\ e.task = a[2]}

\* Every derived row has its raw row in the table.
Evidenced ==
  \A e \in Elements(rows) : /\ e.task \in Tasks \cup {None}
                            /\ IsRaw(e) \/ \E r \in Elements(rows) : From(e, r)

\* The raw rows of a session are numbered in the order of their insertion.
InSequence ==
  \A e \in Elements(rows) : IsRaw(e) =>
    /\ e.seq \in 1 .. count[e.session]
    /\ \A d \in Elements(rows) : IsRaw(d) /\ d.session = e.session /\ d.id < e.id => d.seq < e.seq

\* The row of an attempt tells what its events do, and keeps to the constraint
\* of its table.
AttemptsTold ==
  /\ task = [a \in Sessions \X Tasks |-> task[a]]
  /\ \A a \in Sessions \X Tasks : Tells(task[a], RowsOf(a)) /\ ~BreaksCheck(task[a])

\* A participant is in a task that was started, and has not been in those to
\* come.
InOrder ==
  \A s \in Sessions :
    /\ place[s] # None => /\ session[s] = "active" /\ place[s] \notin toDo[s]
                          /\ Started(task[<<s, place[s]>>])
    /\ \A t \in toDo[s] : task[<<s, t>>] = NoRow /\ RowsOf(<<s, t>>) = {}

EvidenceInv == Evidenced /\ InSequence /\ AttemptsTold /\ InOrder

\* The rows of the table once an event is stored.
LEMMA WrittenRows ==
  ASSUME TablesInv, NEW s \in Sessions, NEW t, NEW signal, NEW at \in Times(s),
         NEW e, NEW derived, NEW first, Written(s, t, signal, at, e, derived, first)
  PROVE  /\ at \in Nat /\ nextId \in Nat
         /\ \A d \in Elements(rows) : d.id \in 1 .. (nextId - 1) /\ d.session \in Sessions
         /\ Elements(rows') = Elements(rows) \cup {e} \cup Elements(derived)
         /\ \A d \in Elements(derived) : /\ d.session = s /\ d.task = t /\ d.at = at
                                         /\ d.from = {e.id} /\ ~IsRaw(d) /\ e.id < d.id
<1>1. at \in Nat
  <2>1. clock[s] \in Nat /\ scenario.maxAt \in Nat
    BY ReadAssumption DEF TablesInv
  <2>2. QED
    BY <2>1 DEF Times
<1>2. nextId \in Nat /\ \A d \in Elements(rows) : d.id \in 1 .. (nextId - 1) /\ d.session \in Sessions
  BY DEF TablesInv, IsTable, Elements
<1>3. Elements(rows') = Elements(rows) \cup {e} \cup Elements(derived)
  <2>1. IsList(rows) /\ IsList(derived)
    BY DEF TablesInv, IsTable, Written
  <2> DEFINE one == <<e>>
  <2>2. one \in Seq({e}) /\ Elements(one) = {e}
    BY DEF Elements
  <2>3. IsList(one)
    BY <2>2 DEF IsList
  <2> HIDE DEF one
  <2>4. IsList(Joined(rows, one)) /\ Elements(Joined(rows, one)) = Elements(rows) \cup Elements(one)
    BY <2>1, <2>3, ElementsOfConcat
  <2>5. Elements(Joined(Joined(rows, one), derived)) = Elements(Joined(rows, one)) \cup Elements(derived)
    BY <2>1, <2>4, ElementsOfConcat
  <2>6. rows' = Joined(Joined(rows, one), derived)
    BY DEF Written, one
  <2>7. QED
    BY <2>2, <2>4, <2>5, <2>6
<1>4. DOMAIN derived = 1 .. Len(derived) /\ Len(derived) \in Nat
  BY LenProperties DEF IsList, Written
<1>5. \A i \in DOMAIN derived : /\ derived[i].session = s /\ derived[i].task = t /\ derived[i].at = at
                                /\ derived[i].from = {e.id} /\ ~IsRaw(derived[i])
                                /\ derived[i].id = nextId + i
  BY DEF Written
<1>6. \A i \in DOMAIN derived : e.id < nextId + i
  BY <1>2, <1>4 DEF Written
<1>7. \A d \in Elements(derived) : /\ d.session = s /\ d.task = t /\ d.at = at
                                   /\ d.from = {e.id} /\ ~IsRaw(d) /\ e.id < d.id
  BY <1>5, <1>6 DEF Elements
<1>8. QED
  BY <1>1, <1>2, <1>3, <1>7

\* Storing an event keeps its evidence with every row, and the numbers in order.
LEMMA StoreKeepsEvidence ==
  ASSUME TablesInv, Evidenced, InSequence,
         NEW s \in Sessions, NEW t \in Tasks \cup {None}, NEW signal, NEW at \in Times(s),
         NEW e, NEW derived, NEW first, Written(s, t, signal, at, e, derived, first)
  PROVE  Evidenced' /\ InSequence'
<1> DEFINE old == Elements(rows)
           new == Elements(derived)
           all == Elements(rows')
<1>1. /\ at \in Nat /\ nextId \in Nat
      /\ \A d \in old : d.id \in 1 .. (nextId - 1) /\ d.session \in Sessions
      /\ all = old \cup {e} \cup new
      /\ \A d \in new : /\ d.session = s /\ d.task = t /\ d.at = at
                        /\ d.from = {e.id} /\ ~IsRaw(d) /\ e.id < d.id
  BY WrittenRows
<1>2. e.id = nextId /\ e.session = s /\ e.task = t /\ e.at = at /\ e.seq = count[s] + 1 /\ IsRaw(e)
  BY DEF Written
<1>3. count' = [count EXCEPT ![s] = @ + 1] /\ count \in [Sessions -> Nat]
  BY DEF Written, Commit, TablesInv
<1> HIDE DEF old, new, all
<1>4. \A d \in old : /\ d.task \in Tasks \cup {None}
                     /\ IsRaw(d) \/ \E r \in old : From(d, r)
  BY DEF Evidenced, old
<1>5. \A d \in new : From(d, e)
  BY <1>1, <1>2 DEF From
<1>6. \A d \in all : d.task \in Tasks \cup {None} /\ (IsRaw(d) \/ \E r \in all : From(d, r))
  BY <1>1, <1>2, <1>4, <1>5
<1>7. Evidenced'
  BY <1>6 DEF Evidenced, all
<1>8. \A c \in old : IsRaw(c) =>
        /\ c.seq \in 1 .. count[c.session]
        /\ \A d \in old : IsRaw(d) /\ d.session = c.session /\ d.id < c.id => d.seq < c.seq
  BY DEF InSequence, old
<1>9. ASSUME NEW c \in all, IsRaw(c)
      PROVE  /\ c.seq \in 1 .. count'[c.session]
             /\ \A d \in all : IsRaw(d) /\ d.session = c.session /\ d.id < c.id => d.seq < c.seq
  <2>1. CASE c \in old
    <3>1. \A d \in all : IsRaw(d) /\ d.id < c.id => d \in old
      BY <1>1, <1>2, <2>1
    <3>2. count[c.session] \in Nat /\ count'[c.session] \in Nat /\ count[c.session] <= count'[c.session]
      BY <1>1, <1>3, <2>1
    <3>3. c.seq \in 1 .. count'[c.session]
      BY <1>8, <1>9, <2>1, <3>2
    <3>4. QED
      BY <1>8, <1>9, <2>1, <3>1, <3>3
  <2>2. CASE c = e
    <3>1. c.session = s /\ c.seq = count[s] + 1 /\ count[s] \in Nat /\ count'[s] = count[s] + 1
      BY <1>2, <1>3, <2>2
    <3>2. \A d \in all : IsRaw(d) /\ d.id < c.id => d \in old
      BY <1>1, <1>2, <2>2
    <3>3. \A d \in old : IsRaw(d) /\ d.session = s => d.seq \in 1 .. count[s]
      BY <1>8
    <3>4. \A d \in all : IsRaw(d) /\ d.session = s /\ d.id < c.id => d.seq < c.seq
      BY <3>1, <3>2, <3>3
    <3>5. QED
      BY <3>1, <3>4
  <2>3. QED
    BY <1>1, <1>9, <2>1, <2>2
<1>10. InSequence'
  BY <1>9 DEF InSequence, all
<1>11. QED
  BY <1>7, <1>10

\* Where an event may be stored: in no task, in one that starts with it, or in
\* one that was started.
Timely(s, t, type) ==
  \/ t = None
  \/ t \in Tasks /\ type = "task_started" /\ task[<<s, t>>] = NoRow /\ RowsOf(<<s, t>>) = {}
  \/ t \in Tasks /\ type # "task_started" /\ Started(task[<<s, t>>])

\* Storing an event keeps the rows of task_sessions to their events; it does
\* nothing to other attempts.
LEMMA StoreTells ==
  ASSUME TablesInv, AttemptsTold,
         NEW s \in Sessions, NEW t, NEW signal, NEW at \in Times(s), Timely(s, t, signal.type),
         NEW e, NEW derived, NEW first, Written(s, t, signal, at, e, derived, first)
  PROVE  /\ AttemptsTold'
         /\ \A a \in Sessions \X Tasks : a # <<s, t>> => RowsOf(a)' = RowsOf(a) /\ task'[a] = task[a]
         /\ t \in Tasks => Started(task'[<<s, t>>])
<1> DEFINE old == Elements(rows)
           new == Elements(derived)
           all == Elements(rows')
<1>1. /\ at \in Nat /\ nextId \in Nat
      /\ \A d \in old : d.id \in 1 .. (nextId - 1) /\ d.session \in Sessions
      /\ all = old \cup {e} \cup new
      /\ \A d \in new : /\ d.session = s /\ d.task = t /\ d.at = at
                        /\ d.from = {e.id} /\ ~IsRaw(d) /\ e.id < d.id
  BY WrittenRows
<1>2. /\ e.id = nextId /\ e.session = s /\ e.task = t /\ e.at = at /\ e.type = signal.type /\ IsRaw(e)
      /\ t \in Tasks => first = ProjectTask(task[<<s, t>>], e)
      /\ \A i \in DOMAIN derived : ~IsRaw(derived[i])
      /\ \A i \in DOMAIN derived : OutcomeOf(derived[i]) # None => i = 1 /\ first.outcome = None
      /\ Commit(s, e, derived, ProjectDerived(first, derived))
  BY ReadAssumption DEF Written
<1>3. task = [a \in Sessions \X Tasks |-> task[a]]
  BY DEF AttemptsTold
<1> DEFINE row == ProjectDerived(first, derived)
<1>4. /\ t = None => task' = task
      /\ t # None => task' = [task EXCEPT ![<<s, t>>] = row] /\ ~BreaksCheck(row)
  BY <1>2 DEF Commit
<1>5. \A a \in Sessions \X Tasks : RowsOf(a)' = {d \in all : d.session = a[1] /\ d.task = a[2]}
  BY DEF RowsOf, all
<1>6. \A a \in Sessions \X Tasks : RowsOf(a) = {d \in old : d.session = a[1] /\ d.task = a[2]}
  BY DEF RowsOf, old
<1> HIDE DEF old, new, all, row
<1>7. \A a \in Sessions \X Tasks : a # <<s, t>> => RowsOf(a)' = RowsOf(a) /\ task'[a] = task[a]
  <2>1. TAKE a \in Sessions \X Tasks
  <2>2. HAVE a # <<s, t>>
  <2>3. ~(a[1] = s /\ a[2] = t)
    BY <2>2
  <2>4. {d \in all : d.session = a[1] /\ d.task = a[2]} = {d \in old : d.session = a[1] /\ d.task = a[2]}
    BY <1>1, <1>2, <2>3
  <2>5. task'[a] = task[a]
    BY <1>3, <1>4, <2>2
  <2>6. QED
    BY <1>5, <1>6, <2>4, <2>5
<1>8. task' = [a \in Sessions \X Tasks |-> task'[a]]
  BY <1>3, <1>4
<1>9. \A a \in Sessions \X Tasks : a # <<s, t>> => Tells(task'[a], RowsOf(a)') /\ ~BreaksCheck(task'[a])
  BY <1>7 DEF AttemptsTold
<1>10. ASSUME t \in Tasks
       PROVE  /\ Tells(task'[<<s, t>>], RowsOf(<<s, t>>)') /\ ~BreaksCheck(task'[<<s, t>>])
              /\ Started(task'[<<s, t>>])
  <2> DEFINE a == <<s, t>>
             found == RowsOf(a)
  <2>1. a \in Sessions \X Tasks /\ t # None /\ a[1] = s /\ a[2] = t
    BY <1>10, ReadAssumption
  <2>2. task'[a] = row /\ ~BreaksCheck(row)
    BY <1>3, <1>4, <2>1
  <2> HIDE DEF a
  <2>3. Tells(task[a], found)
    BY <2>1 DEF AttemptsTold
  <2>4. found = {d \in old : d.session = s /\ d.task = t}
    BY <1>6, <2>1
  <2>5. RowsOf(a)' = {d \in all : d.session = s /\ d.task = t}
    BY <1>5, <2>1
  <2>6. RowsOf(a)' = (found \cup {e}) \cup new
    BY <1>1, <1>2, <2>4, <2>5
  <2>7. \A d \in found : d.id < e.id
    BY <1>1, <1>2, <2>4
  <2>8. \/ Starts(e) /\ task[a] = NoRow /\ found = {}
        \/ ~Starts(e) /\ Started(task[a])
    BY <1>2, <2>1 DEF Timely, Starts, a
  <2>9. None \notin Nat /\ e.at \in Nat
    BY <1>1, <1>2, ReadAssumption
  <2>10. first = ProjectTask(task[a], e)
    BY <1>2, <1>10 DEF a
  <2> HIDE DEF found
  <2>11. Tells(first, found \cup {e}) /\ Started(first)
    BY <1>2, <2>3, <2>7, <2>8, <2>9, <2>10, ProjectionTells
  <2>12. Tells(ProjectDerived(first, derived), (found \cup {e}) \cup Elements(derived))
    BY <1>2, <2>11, DerivedTell
  <2>13. Tells(row, RowsOf(a)')
    BY <2>6, <2>12 DEF row, new
  <2>14. Started(row)
    BY <2>11 DEF row, ProjectDerived, ProjectTask, Started
  <2>15. QED
    BY <2>2, <2>13, <2>14 DEF a
<1>11. AttemptsTold'
  <2>1. \A a \in Sessions \X Tasks : Tells(task'[a], RowsOf(a)') /\ ~BreaksCheck(task'[a])
    <3>1. TAKE a \in Sessions \X Tasks
    <3>2. CASE a = <<s, t>>
      <4>1. t \in Tasks
        BY <3>2
      <4>2. QED
        BY <1>10, <3>2, <4>1
    <3>3. QED
      BY <1>9, <3>2
  <2>2. QED
    BY <1>8, <2>1 DEF AttemptsTold
<1>12. QED
  BY <1>7, <1>10, <1>11

\* An event stored by an action of a participant who stays in its task, or in
\* none, and whose tasks to come are the others.
LEMMA StoreEvidence ==
  ASSUME TablesInv, EvidenceInv,
         NEW s \in Sessions, NEW t \in Tasks \cup {None}, NEW signal, NEW at \in Times(s),
         Store(s, t, signal, at), Timely(s, t, signal.type),
         place' \in [Sessions -> Tasks \cup {None}], toDo' \in [Sessions -> SUBSET Tasks],
         \A p \in Sessions : p # s => place'[p] = place[p] /\ toDo'[p] = toDo[p],
         place'[s] \in {None, t, place[s]}, toDo'[s] = toDo[s] \ {t},
         place'[s] # None => session[s] = "active" /\ signal.type \notin DOMAIN SessionEnd
  PROVE  EvidenceInv'
<1>1. PICK e, derived, first : Written(s, t, signal, at, e, derived, first)
  BY StoreWrites
<1>2. Evidenced' /\ InSequence'
  BY <1>1, StoreKeepsEvidence DEF EvidenceInv
<1>3. /\ AttemptsTold'
      /\ \A a \in Sessions \X Tasks : a # <<s, t>> => RowsOf(a)' = RowsOf(a) /\ task'[a] = task[a]
      /\ t \in Tasks => Started(task'[<<s, t>>])
  BY <1>1, StoreTells DEF EvidenceInv
<1>4. /\ session \in [Sessions -> Statuses]
      /\ session' = IF EndsSession(session[s], e)
                    THEN [session EXCEPT ![s] = SessionEnd[e.type]] ELSE session
      /\ e.type = signal.type
  BY <1>1 DEF Written, Commit, TablesInv
<1>5. \A p \in Sessions : p # s \/ signal.type \notin DOMAIN SessionEnd => session'[p] = session[p]
  BY <1>4 DEF EndsSession
<1>6. None \notin Tasks
  BY ReadAssumption
<1>7. ASSUME NEW p \in Sessions
      PROVE  /\ place'[p] # None => /\ session'[p] = "active" /\ place'[p] \notin toDo'[p]
                                    /\ Started(task'[<<p, place'[p]>>])
             /\ \A u \in toDo'[p] : task'[<<p, u>>] = NoRow /\ RowsOf(<<p, u>>)' = {}
  <2>1. /\ place[p] # None => /\ session[p] = "active" /\ place[p] \notin toDo[p]
                              /\ Started(task[<<p, place[p]>>])
        /\ \A u \in toDo[p] : task[<<p, u>>] = NoRow /\ RowsOf(<<p, u>>) = {}
    BY DEF EvidenceInv, InOrder
  <2>2. /\ toDo'[p] \in SUBSET Tasks /\ place'[p] \in Tasks \cup {None}
    OBVIOUS
  <2>3. CASE p # s
    <3>1. \A u \in Tasks : RowsOf(<<p, u>>)' = RowsOf(<<p, u>>) /\ task'[<<p, u>>] = task[<<p, u>>]
      <4>1. TAKE u \in Tasks
      <4>2. <<p, u>> \in Sessions \X Tasks /\ <<p, u>> # <<s, t>>
        BY <2>3
      <4>3. QED
        BY <1>3, <4>2
    <3>2. place'[p] = place[p] /\ toDo'[p] = toDo[p] /\ session'[p] = session[p]
      BY <1>5, <2>3
    <3>3. place'[p] # None => Started(task'[<<p, place'[p]>>])
      BY <2>1, <2>2, <3>1, <3>2
    <3>4. \A u \in toDo'[p] : task'[<<p, u>>] = NoRow /\ RowsOf(<<p, u>>)' = {}
      BY <2>1, <2>2, <3>1, <3>2
    <3>5. QED
      BY <2>1, <3>2, <3>3, <3>4
  <2>4. CASE p = s
    <3>1. ASSUME place'[s] # None
          PROVE  session'[s] = "active" /\ place'[s] \notin toDo'[s] /\ Started(task'[<<s, place'[s]>>])
      <4>1. session'[s] = "active"
        BY <1>5, <3>1
      <4>2. CASE place'[s] = t
        <5>1. t \in Tasks
          BY <3>1, <4>2
        <5>2. QED
          BY <1>3, <4>1, <4>2, <5>1
      <4>3. CASE place'[s] # t
        <5> DEFINE u == place[s]
        <5>1. place'[s] = u /\ u # None /\ u \in Tasks /\ u # t
          BY <2>2, <2>4, <3>1, <4>3
        <5>2. Started(task[<<s, u>>]) /\ u \notin toDo[s]
          BY <2>1, <2>4, <5>1
        <5> HIDE DEF u
        <5>3. <<s, u>> \in Sessions \X Tasks /\ <<s, u>> # <<s, t>>
          BY <5>1
        <5>4. task'[<<s, u>>] = task[<<s, u>>]
          BY <1>3, <5>3
        <5>5. QED
          BY <4>1, <5>1, <5>2, <5>4
      <4>4. QED
        BY <4>2, <4>3
    <3>2. ASSUME NEW u \in toDo'[s] PROVE task'[<<s, u>>] = NoRow /\ RowsOf(<<s, u>>)' = {}
      <4>1. u \in Tasks /\ u \in toDo[s] /\ u # t
        BY <2>2, <2>4, <3>2
      <4>2. <<s, u>> \in Sessions \X Tasks /\ <<s, u>> # <<s, t>>
        BY <4>1
      <4>3. RowsOf(<<s, u>>)' = RowsOf(<<s, u>>) /\ task'[<<s, u>>] = task[<<s, u>>]
        BY <1>3, <4>2
      <4>4. QED
        BY <2>1, <2>4, <4>1, <4>3
    <3>3. QED
      BY <2>4, <3>1, <3>2
  <2>5. QED
    BY <2>3, <2>4
<1>8. InOrder'
  BY <1>7 DEF InOrder
<1>9. QED
  BY <1>2, <1>3, <1>8 DEF EvidenceInv

\* What the purge of a session leaves.
LEMMA PurgeEvidence ==
  ASSUME TablesInv, EvidenceInv, NEW s \in Sessions, Purge(s)
  PROVE  EvidenceInv'
<1> DEFINE kept == {i \in DOMAIN rows : rows[i].session # s}
           old == Elements(rows)
           all == Elements(rows')
<1>1. /\ session[s] = "completed" /\ session' = [session EXCEPT ![s] = "purged"]
      /\ rows' = KeepAt(rows, kept)
      /\ task' = [a \in DOMAIN task |-> IF a[1] = s THEN NoRow ELSE task[a]]
      /\ UNCHANGED <<place, toDo, count>>
  BY DEF Purge, writer
<1>2. rows \in Seq(Elements(rows))
  BY DEF TablesInv, IsTable, IsList
<1>3. all = {d \in old : d.session # s}
  <2>1. kept \in SUBSET DOMAIN rows
    OBVIOUS
  <2>2. DOMAIN rows \subseteq Nat
    BY <1>2, LenProperties
  <2>3. /\ KeepAt(rows, kept) \in Seq(Elements(rows)) /\ IsFiniteSet(kept)
        /\ Len(KeepAt(rows, kept)) = Cardinality(kept)
        /\ \A k \in DOMAIN KeepAt(rows, kept) :
             Nth(kept, k) \in kept /\ KeepAt(rows, kept)[k] = rows[Nth(kept, k)]
    BY <1>2, <2>1, KeepAtFacts
  <2>4. DOMAIN rows' = 1 .. Cardinality(kept)
    BY <1>1, <2>3, LenProperties
  <2>5. \A i \in kept : \E k \in 1 .. Cardinality(kept) : Nth(kept, k) = i
    <3>1. kept \in SUBSET Nat
      BY <2>1, <2>2
    <3>2. QED
      BY <2>3, <3>1, NthFacts
  <2>6. \A d \in all : d \in old /\ d.session # s
    BY <1>1, <2>3 DEF Elements
  <2>7. \A d \in old : d.session # s => d \in all
    <3>1. TAKE d \in old
    <3>2. HAVE d.session # s
    <3>3. PICK i \in kept : d = rows[i]
      BY <3>2 DEF Elements
    <3>4. PICK k \in DOMAIN rows' : Nth(kept, k) = i
      BY <2>4, <2>5
    <3>5. rows'[k] = d
      BY <1>1, <2>3, <3>3, <3>4
    <3>6. QED
      BY <3>5 DEF Elements
  <2>8. QED
    BY <2>6, <2>7
<1> HIDE DEF kept
<1>4. Evidenced'
  <2>1. \A d \in old : /\ d.task \in Tasks \cup {None}
                       /\ IsRaw(d) \/ \E r \in old : From(d, r)
    BY DEF EvidenceInv, Evidenced
  <2>2. \A d \in all, r \in old : From(d, r) => r \in all
    BY <1>3 DEF From
  <2>3. \A d \in all : d \in old
    BY <1>3
  <2> HIDE DEF all, old
  <2>4. \A d \in all : /\ d.task \in Tasks \cup {None}
                       /\ IsRaw(d) \/ \E r \in all : From(d, r)
    BY <2>1, <2>2, <2>3
  <2>5. QED
    BY <2>4 DEF Evidenced, all
<1>5. InSequence'
  BY <1>1, <1>3 DEF EvidenceInv, InSequence
<1>6. task = [a \in Sessions \X Tasks |-> task[a]]
  BY DEF EvidenceInv, AttemptsTold
<1>7. \A a \in Sessions \X Tasks :
        /\ a[1] = s => RowsOf(a)' = {} /\ task'[a] = NoRow
        /\ a[1] # s => RowsOf(a)' = RowsOf(a) /\ task'[a] = task[a]
  <2>1. TAKE a \in Sessions \X Tasks
  <2>2. RowsOf(a)' = {d \in all : d.session = a[1] /\ d.task = a[2]}
    BY DEF RowsOf
  <2>3. a \in DOMAIN task
    BY <1>6
  <2>4. QED
    BY <1>1, <1>3, <2>2, <2>3 DEF RowsOf
<1>8. task' = [a \in Sessions \X Tasks |-> task'[a]]
  BY <1>1, <1>6
<1>9. Tells(NoRow, {}) /\ ~BreaksCheck(NoRow)
  BY DEF Tells, NoRow, BreaksCheck
<1>10. AttemptsTold'
  <2>1. \A a \in Sessions \X Tasks : Tells(task'[a], RowsOf(a)') /\ ~BreaksCheck(task'[a])
    BY <1>7, <1>9 DEF EvidenceInv, AttemptsTold
  <2>2. QED
    BY <1>8, <2>1 DEF AttemptsTold
<1>11. InOrder'
  <2>1. TablesInv => /\ place \in [Sessions -> Tasks \cup {None}]
                     /\ toDo \in [Sessions -> SUBSET Tasks]
                     /\ session \in [Sessions -> Statuses]
    BY DEF TablesInv
  <2>2. ASSUME NEW p \in Sessions
        PROVE  /\ place'[p] # None => /\ session'[p] = "active" /\ place'[p] \notin toDo'[p]
                                      /\ Started(task'[<<p, place'[p]>>])
               /\ \A u \in toDo'[p] : task'[<<p, u>>] = NoRow /\ RowsOf(<<p, u>>)' = {}
    <3>1. /\ place[p] # None => /\ session[p] = "active" /\ place[p] \notin toDo[p]
                                /\ Started(task[<<p, place[p]>>])
          /\ \A u \in toDo[p] : task[<<p, u>>] = NoRow /\ RowsOf(<<p, u>>) = {}
      BY DEF EvidenceInv, InOrder
    <3>2. \A u \in Tasks : /\ p = s => RowsOf(<<p, u>>)' = {} /\ task'[<<p, u>>] = NoRow
                           /\ p # s => RowsOf(<<p, u>>)' = RowsOf(<<p, u>>) /\ task'[<<p, u>>] = task[<<p, u>>]
      <4>1. TAKE u \in Tasks
      <4>2. <<p, u>> \in Sessions \X Tasks /\ <<p, u>>[1] = p
        OBVIOUS
      <4>3. QED
        BY <1>7, <4>2
    <3>3. \A u \in toDo'[p] : task'[<<p, u>>] = NoRow /\ RowsOf(<<p, u>>)' = {}
      BY <1>1, <2>1, <3>1, <3>2
    <3>4. ASSUME place'[p] # None
          PROVE  session'[p] = "active" /\ place'[p] \notin toDo'[p] /\ Started(task'[<<p, place'[p]>>])
      <4>1. place[p] # None /\ p # s /\ place[p] \in Tasks
        BY <1>1, <2>1, <3>1, <3>4
      <4>2. task'[<<p, place[p]>>] = task[<<p, place[p]>>]
        BY <3>2, <4>1
      <4>3. QED
        BY <1>1, <2>1, <3>1, <4>1, <4>2
    <3>5. QED
      BY <3>3, <3>4
  <2>3. QED
    BY <2>2 DEF InOrder
<1>12. QED
  BY <1>4, <1>5, <1>10, <1>11 DEF EvidenceInv

\* What leaves the rows and task_sessions alone.
LEMMA TablesAlone ==
  ASSUME EvidenceInv, UNCHANGED <<rows, task, count>>, InOrder'
  PROVE  EvidenceInv'
<1>1. \A a : RowsOf(a)' = RowsOf(a)
  BY DEF RowsOf
<1>2. AttemptsTold'
  BY <1>1 DEF EvidenceInv, AttemptsTold
<1>3. QED
  BY <1>2 DEF EvidenceInv, Evidenced, InSequence

\* What a participant does keeps the evidence.
LEMMA WriteEvidence ==
  ASSUME TablesInv, EvidenceInv, NEW s \in Sessions, Write(s)
  PROVE  EvidenceInv'
<1>1. /\ place \in [Sessions -> Tasks \cup {None}] /\ toDo \in [Sessions -> SUBSET Tasks]
      /\ session \in [Sessions -> Statuses]
  BY DEF TablesInv
<1>2. \A p \in Sessions :
        /\ place[p] # None => /\ session[p] = "active" /\ place[p] \notin toDo[p]
                              /\ Started(task[<<p, place[p]>>])
        /\ \A u \in toDo[p] : task[<<p, u>>] = NoRow /\ RowsOf(<<p, u>>) = {}
  BY DEF EvidenceInv, InOrder
<1>3. None \notin Tasks
  BY ReadAssumption
<1>4. \A type : Plain(type).type = type
  BY DEF Plain
<1>5. CASE Enter(s)
  <2>1. /\ session[s] = "none" /\ session' = [session EXCEPT ![s] = "active"]
        /\ UNCHANGED <<rows, task, count, place, toDo>>
    BY <1>5 DEF Enter, writer
  <2>2. \A a : RowsOf(a)' = RowsOf(a)
    BY <2>1 DEF RowsOf
  <2>3. InOrder'
    BY <1>1, <1>2, <2>1, <2>2 DEF InOrder
  <2>4. QED
    BY <2>1, <2>3, TablesAlone
<1>6. CASE StartSession(s)
  <2>1. PICK at \in Times(s) : Store(s, None, Plain("session_started"), at)
    BY <1>6 DEF StartSession
  <2>2. UNCHANGED <<place, toDo>> /\ session[s] = "active"
    BY <1>6 DEF StartSession
  <2>3. Timely(s, None, Plain("session_started").type)
    BY DEF Timely
  <2>4. Plain("session_started").type \notin DOMAIN SessionEnd
    BY <1>4 DEF SessionEnd
  <2>5. toDo[s] \ {None} = toDo[s]
    BY <1>1, <1>3
  <2>6. QED
    BY <1>1, <2>1, <2>2, <2>3, <2>4, <2>5, StoreEvidence
<1>7. CASE StartTask(s)
  <2>1. PICK t \in toDo[s], at \in Times(s) :
          /\ Store(s, t, Plain("task_started"), at)
          /\ place' = [place EXCEPT ![s] = t]
          /\ toDo' = [toDo EXCEPT ![s] = @ \ {t}]
    BY <1>7 DEF StartTask
  <2>2. session[s] = "active" /\ t \in Tasks
    BY <1>1, <1>7 DEF StartTask
  <2>3. Timely(s, t, Plain("task_started").type)
    BY <1>2, <1>4, <2>2 DEF Timely
  <2>4. Plain("task_started").type \notin DOMAIN SessionEnd
    BY <1>4 DEF SessionEnd
  <2>5. /\ place' \in [Sessions -> Tasks \cup {None}] /\ toDo' \in [Sessions -> SUBSET Tasks]
        /\ \A p \in Sessions : p # s => place'[p] = place[p] /\ toDo'[p] = toDo[p]
        /\ place'[s] = t /\ toDo'[s] = toDo[s] \ {t}
    BY <1>1, <2>1, <2>2
  <2>6. QED
    BY <2>1, <2>2, <2>3, <2>4, <2>5, StoreEvidence
<1>8. CASE Act(s)
  <2>1. PICK signal \in scenario.signals, at \in Times(s) : Store(s, place[s], signal, at)
    BY <1>8 DEF Act
  <2>2. UNCHANGED <<place, toDo>> /\ place[s] # None
    BY <1>8 DEF Act
  <2>3. signal.type \in Interactions
    BY ReadAssumption DEF TablesInv
  <2>4. signal.type # "task_started" /\ signal.type \notin DOMAIN SessionEnd
    BY <2>3 DEF Interactions, SessionEnd
  <2> DEFINE t == place[s]
  <2>5. t \in Tasks /\ session[s] = "active" /\ Started(task[<<s, t>>]) /\ t \notin toDo[s]
    BY <1>1, <1>2, <2>2
  <2>6. Timely(s, t, signal.type)
    BY <2>4, <2>5 DEF Timely
  <2>7. toDo[s] \ {t} = toDo[s] /\ place'[s] = t
    BY <2>2, <2>5
  <2> HIDE DEF t
  <2>8. Store(s, t, signal, at)
    BY <2>1 DEF t
  <2>9. QED
    BY <1>1, <2>2, <2>4, <2>5, <2>6, <2>7, <2>8, StoreEvidence
<1>9. CASE EndTask(s)
  <2>1. PICK type \in DOMAIN RawTerminal, at \in Times(s) : Store(s, place[s], Plain(type), at)
    BY <1>9 DEF EndTask
  <2>2. place' = [place EXCEPT ![s] = None] /\ UNCHANGED toDo /\ place[s] # None
    BY <1>9 DEF EndTask
  <2>3. type # "task_started"
    BY DEF RawTerminal
  <2> DEFINE t == place[s]
  <2>4. t \in Tasks /\ session[s] = "active" /\ Started(task[<<s, t>>]) /\ t \notin toDo[s]
    BY <1>1, <1>2, <2>2
  <2>5. Timely(s, t, Plain(type).type)
    BY <1>4, <2>3, <2>4 DEF Timely
  <2>6. toDo[s] \ {t} = toDo[s]
    BY <2>4
  <2> HIDE DEF t
  <2>7. Store(s, t, Plain(type), at)
    BY <2>1 DEF t
  <2>8. /\ place' \in [Sessions -> Tasks \cup {None}]
        /\ \A p \in Sessions : p # s => place'[p] = place[p]
        /\ place'[s] = None
    BY <1>1, <2>2
  <2>9. QED
    BY <1>1, <2>2, <2>4, <2>5, <2>6, <2>7, <2>8, StoreEvidence
<1>10. CASE Continue(s)
  <2>1. /\ place' = [place EXCEPT ![s] = None]
        /\ UNCHANGED <<rows, task, count, toDo, session>>
    BY <1>10 DEF Continue, tables
  <2>2. \A a : RowsOf(a)' = RowsOf(a)
    BY <2>1 DEF RowsOf
  <2>3. InOrder'
    BY <1>1, <1>2, <2>1, <2>2 DEF InOrder
  <2>4. QED
    BY <2>1, <2>3, TablesAlone
<1>11. CASE Answer(s)
  <2>1. UNCHANGED <<rows, task, count, place, toDo, session>>
    BY <1>11 DEF Answer, writer
  <2>2. \A a : RowsOf(a)' = RowsOf(a)
    BY <2>1 DEF RowsOf
  <2>3. InOrder'
    BY <1>2, <2>1, <2>2 DEF InOrder
  <2>4. QED
    BY <2>1, <2>3, TablesAlone
<1>12. CASE EndSession(s)
  <2>1. PICK at \in Times(s) : Store(s, None, Plain("session_completed"), at)
    BY <1>12 DEF EndSession
  <2>2. UNCHANGED <<place, toDo>> /\ place[s] = None
    BY <1>12 DEF EndSession
  <2>3. Timely(s, None, Plain("session_completed").type)
    BY DEF Timely
  <2>4. toDo[s] \ {None} = toDo[s]
    BY <1>1, <1>3
  <2>5. QED
    BY <1>1, <2>1, <2>2, <2>3, <2>4, StoreEvidence
<1>13. CASE Purge(s)
  BY <1>13, PurgeEvidence
<1>14. QED
  BY <1>5, <1>6, <1>7, <1>8, <1>9, <1>10, <1>11, <1>12, <1>13 DEF Write

\* Initially there is nothing to tell.
LEMMA NoEvidence == ReadInit => EvidenceInv
<1> SUFFICES ASSUME ReadInit PROVE EvidenceInv
  OBVIOUS
<1>1. Elements(rows) = {}
  BY DEF ReadInit, Elements
<1>2. \A a : RowsOf(a) = {}
  BY <1>1 DEF RowsOf
<1>3. Tells(NoRow, {}) /\ ~BreaksCheck(NoRow)
  BY DEF Tells, NoRow, BreaksCheck
<1>4. task = [a \in Sessions \X Tasks |-> NoRow] /\ \A s \in Sessions : place[s] = None /\ toDo[s] = Tasks
  BY DEF ReadInit
<1>5. AttemptsTold
  BY <1>2, <1>3, <1>4 DEF AttemptsTold
<1>6. InOrder
  BY <1>2, <1>4 DEF InOrder
<1>7. QED
  BY <1>1, <1>5, <1>6 DEF EvidenceInv, Evidenced, InSequence

\* Every step keeps the evidence.
LEMMA EvidenceNextStep == ReadInvariant /\ EvidenceInv /\ [ReadNext]_readVars => EvidenceInv'
<1> SUFFICES ASSUME ReadInvariant, EvidenceInv, [ReadNext]_readVars PROVE EvidenceInv'
  OBVIOUS
<1>1. ASSUME NEW s \in Sessions, Write(s) PROVE EvidenceInv'
  BY <1>1, WriteEvidence DEF ReadInvariant
<1>2. ASSUME UNCHANGED <<rows, task, session, place, toDo, count>> PROVE EvidenceInv'
  <2>1. \A a : RowsOf(a)' = RowsOf(a)
    BY <1>2 DEF RowsOf
  <2>2. InOrder'
    BY <1>2, <2>1 DEF EvidenceInv, InOrder
  <2>3. QED
    BY <1>2, <2>2, TablesAlone
<1>3. CASE Read
  BY <1>2, <1>3 DEF Read, Open, ReadEvents, ReadSessions, ReadAnswers, tables, writer
<1>4. CASE UNCHANGED readVars
  BY <1>2, <1>4 DEF readVars, tables, writer
<1>5. QED
  BY <1>1, <1>3, <1>4 DEF ReadNext

\* The tables keep the evidence of all they tell.
THEOREM EvidenceHolds == ReadSpec => []EvidenceInv
<1>1. ReadInvariant /\ ReadInvariant' /\ EvidenceInv /\ [ReadNext]_readVars => EvidenceInv'
  BY EvidenceNextStep
<1>2. QED
  BY <1>1, NoEvidence, ReadInvariantHolds, PTL DEF ReadSpec

-----------------------------------------------------------------------------
(* The results are computed. *)

\* The elements at the positions that are kept.
LEMMA ElementsOfKept ==
  ASSUME NEW x, IsList(x), NEW S \in SUBSET DOMAIN x
  PROVE  IsList(KeepAt(x, S)) /\ Elements(KeepAt(x, S)) = {x[i] : i \in S}
<1>1. x \in Seq(Elements(x))
  BY DEF IsList
<1>2. DOMAIN x \subseteq Nat
  BY <1>1, LenProperties
<1> DEFINE kept == KeepAt(x, S)
<1>3. /\ kept \in Seq(Elements(x)) /\ IsFiniteSet(S) /\ Len(kept) = Cardinality(S)
      /\ \A k \in DOMAIN kept : Nth(S, k) \in S /\ kept[k] = x[Nth(S, k)]
  BY <1>1, KeepAtFacts
<1> HIDE DEF kept
<1>4. DOMAIN kept = 1 .. Cardinality(S)
  BY <1>3, LenProperties
<1>5. \A i \in S : \E k \in 1 .. Cardinality(S) : Nth(S, k) = i
  <2>1. S \in SUBSET Nat
    BY <1>2
  <2>2. QED
    BY <1>3, <2>1, NthFacts
<1>6. Elements(kept) = {x[i] : i \in S}
  <2>1. \A e \in Elements(kept) : e \in {x[i] : i \in S}
    BY <1>3 DEF Elements
  <2>2. \A i \in S : x[i] \in Elements(kept)
    <3>1. TAKE i \in S
    <3>2. PICK k \in DOMAIN kept : Nth(S, k) = i
      BY <1>4, <1>5
    <3>3. kept[k] = x[i]
      BY <1>3, <3>2
    <3>4. QED
      BY <3>3 DEF Elements
  <2>3. QED
    BY <2>1, <2>2
<1>7. IsList(kept)
  BY <1>3, ElementsFacts DEF IsList
<1>8. QED
  BY <1>6, <1>7 DEF kept

\* Only repeats are taken out.
LEMMA AcceptedElements ==
  ASSUME NEW x, IsList(x), \A d, e \in Elements(x) : d.id = e.id => d = e
  PROVE  IsList(Accepted(x)) /\ Elements(Accepted(x)) = Elements(x)
<1> DEFINE S == {i \in DOMAIN x : \A j \in 1 .. (i - 1) : x[j].id # x[i].id}
<1>1. DOMAIN x = 1 .. Len(x) /\ Len(x) \in Nat
  BY LenProperties DEF IsList
<1>2. IsList(KeepAt(x, S)) /\ Elements(KeepAt(x, S)) = {x[i] : i \in S}
  <2>1. S \in SUBSET DOMAIN x
    OBVIOUS
  <2> HIDE DEF S
  <2>2. QED
    BY <2>1, ElementsOfKept
<1>3. ASSUME NEW e \in Elements(x) PROVE \E i \in S : x[i] = e
  <2> DEFINE same == {i \in DOMAIN x : x[i].id = e.id}
  <2>1. same \in SUBSET Nat /\ same # {}
    BY <1>1, <1>3 DEF Elements
  <2>2. PICK i \in same : \A j \in same : i <= j
    BY <2>1, LeastElement
  <2>3. \A j \in 1 .. (i - 1) : j \in DOMAIN x /\ j \notin same
    BY <1>1, <2>2
  <2>4. i \in S
    BY <2>3
  <2>5. x[i] \in Elements(x)
    BY DEF Elements
  <2>6. QED
    BY <2>4, <2>5
<1>4. \A i \in S : x[i] \in Elements(x)
  BY DEF Elements
<1> HIDE DEF S
<1>5. {x[i] : i \in S} = Elements(x)
  BY <1>3, <1>4
<1>6. QED
  BY <1>2, <1>5 DEF Accepted, S

\* The rows of an attempt among those read.
LEMMA AttemptElements ==
  ASSUME NEW x, IsList(x), NEW s, NEW t
  PROVE  /\ IsList(AttemptRows(x, s, t))
         /\ Elements(AttemptRows(x, s, t)) = {e \in Elements(x) : e.session = s /\ e.task = t}
<1> DEFINE S == {i \in DOMAIN x : x[i].session = s /\ x[i].task = t}
<1>1. {x[i] : i \in S} = {e \in Elements(x) : e.session = s /\ e.task = t}
  BY DEF Elements
<1>2. S \in SUBSET DOMAIN x
  OBVIOUS
<1> HIDE DEF S
<1>3. QED
  BY <1>1, <1>2, ElementsOfKept DEF AttemptRows, S

\* Rows of the table that are read with those they were derived from.
WithSources(x) ==
  /\ Elements(x) \subseteq Elements(rows)
  /\ \A e \in Elements(x), r \in Elements(rows) : ~IsRaw(e) /\ From(e, r) => r \in Elements(x)

\* The anchor of a row: its own number, or that of the row it was derived from.
LEMMA AnchorFacts ==
  ASSUME TablesInv, Evidenced, InSequence, NEW x, WithSources(x), NEW e \in Elements(x)
  PROVE  /\ IsRaw(e) \/ Resolves(x, e)
         /\ LooseAnchor(x, e) = Anchor(x, e)
         /\ \E r \in Elements(x) : /\ IsRaw(r) /\ r.session = e.session /\ (r = e \/ r.id < e.id)
                                   /\ IsRaw(e) => r = e
                                   /\ r.at = e.at /\ Anchor(x, e) = r.seq /\ r.seq \in Nat
<1>1. \A d \in Elements(rows) : IsRaw(d) => d.seq \in Nat
  <2>1. \A d \in Elements(rows) : d.session \in Sessions
    BY DEF TablesInv, IsTable, Elements
  <2>2. \A p \in Sessions : count[p] \in Nat
    BY DEF TablesInv
  <2>3. \A d \in Elements(rows) : IsRaw(d) => d.seq \in 1 .. count[d.session]
    BY DEF InSequence
  <2>4. QED
    BY <2>1, <2>2, <2>3
<1>2. e \in Elements(rows) /\ \A d \in Elements(x) : d \in Elements(rows)
  BY DEF WithSources
<1>3. CASE IsRaw(e)
  BY <1>1, <1>2, <1>3 DEF Anchor, LooseAnchor
<1>4. CASE ~IsRaw(e)
  <2>1. PICK r \in Elements(rows) : From(e, r)
    BY <1>2, <1>4 DEF Evidenced
  <2>2. /\ r \in Elements(x) /\ IsRaw(r) /\ r.session = e.session /\ r.task = e.task
        /\ r.at = e.at /\ e.from = {r.id} /\ r.id < e.id /\ r.seq \in Nat
    BY <1>1, <1>4, <2>1 DEF WithSources, From
  <2>3. \A d \in Elements(rows) : d.id = r.id => d = r
    <3>1. DOMAIN rows = 1 .. Len(rows) /\ Len(rows) \in Nat /\ \A i \in DOMAIN rows : rows[i].id \in Nat
      BY LenProperties DEF TablesInv, IsTable, IsList
    <3>2. \A i, j \in DOMAIN rows : rows[i].id = rows[j].id => i = j
      <4>1. \A i, j \in DOMAIN rows : i < j \/ j < i \/ i = j
        BY <3>1
      <4>2. QED
        BY <3>1, <4>1 DEF TablesInv, IsTable
    <3>3. QED
      BY <3>2 DEF Elements
  <2>4. Sources(x, e) = {r}
    BY <1>2, <2>2, <2>3 DEF Sources
  <2>5. {d.id : d \in Sources(x, e)} = {r.id} /\ {d.seq : d \in Sources(x, e)} = {r.seq}
    BY <2>4
  <2>6. Max({r.seq}) = r.seq
    BY <2>2 DEF Max
  <2>7. Resolves(x, e)
    BY <2>2, <2>5 DEF Resolves
  <2>8. Anchor(x, e) = r.seq /\ LooseAnchor(x, e) = r.seq
    BY <1>4, <2>4, <2>5, <2>6 DEF Anchor, LooseAnchor
  <2>9. QED
    BY <1>4, <2>2, <2>7, <2>8
<1>5. QED
  BY <1>3, <1>4

\* What decided an attempt is anchored before its other terminal evidence.
LEMMA DeciderFirst ==
  ASSUME TablesInv, Evidenced, InSequence, NEW x, WithSources(x),
         NEW a, NEW row, NEW e \in Elements(x), Decides(e, row, RowsOf(a))
  PROVE  /\ Anchor(x, e) \in Nat
         /\ \A d \in RowsOf(a) \cap Elements(x) : OutcomeOf(d) # None /\ d # e =>
              Anchor(x, d) \in Nat /\ Anchor(x, e) < Anchor(x, d)
<1>1. e \in RowsOf(a) /\ e \in Elements(x)
  BY DEF Decides
<1>2. PICK r \in Elements(x) : /\ IsRaw(r) /\ r.session = e.session /\ (r = e \/ r.id < e.id)
                               /\ IsRaw(e) => r = e
                               /\ Anchor(x, e) = r.seq /\ r.seq \in Nat
  BY <1>1, AnchorFacts
<1>3. ASSUME NEW d \in RowsOf(a) \cap Elements(x), OutcomeOf(d) # None, d # e
      PROVE  Anchor(x, d) \in Nat /\ Anchor(x, e) < Anchor(x, d)
  <2>1. IsRaw(d) /\ e.id < d.id /\ d \in Elements(x)
    BY <1>3 DEF Decides
  <2>2. PICK q \in Elements(x) : /\ IsRaw(q) /\ q.session = d.session /\ (q = d \/ q.id < d.id)
                                 /\ IsRaw(d) => q = d
                                 /\ Anchor(x, d) = q.seq /\ q.seq \in Nat
    BY <2>1, AnchorFacts
  <2>3. Anchor(x, d) = d.seq /\ d.seq \in Nat
    BY <2>1, <2>2
  <2>4. d.session = e.session /\ d \in Elements(rows) /\ e \in Elements(rows) /\ r \in Elements(rows)
    BY <1>1, <1>2 DEF RowsOf, WithSources
  <2>5. \A c \in Elements(rows) : c.id \in Nat
    BY DEF TablesInv, IsTable, Elements
  <2>6. r.id < d.id
    BY <1>2, <2>1, <2>4, <2>5
  <2>7. r.seq < d.seq
    BY <1>2, <2>1, <2>4, <2>6 DEF InSequence
  <2>8. QED
    BY <1>2, <2>3, <2>7
<1>4. QED
  BY <1>2, <1>3

\* The order of tuples whose first numbers differ.
LEMMA FirstNumberDecides ==
  ASSUME NEW i \in Nat, NEW j \in Nat, i < j, NEW b, NEW c, NEW d, NEW e
  PROVE  Precedes(<<i, b, c>>, <<j, d, e>>) /\ ~Precedes(<<j, d, e>>, <<i, b, c>>)
<1>1. 1 .. (1 - 1) = {}
  OBVIOUS
<1>2. Precedes(<<i, b, c>>, <<j, d, e>>)
  BY <1>1 DEF Precedes
<1>3. ASSUME NEW k \in DOMAIN <<j, d, e>>, <<j, d, e>>[k] < <<i, b, c>>[k],
             \A m \in 1 .. (k - 1) : <<j, d, e>>[m] = <<i, b, c>>[m]
      PROVE  FALSE
  <2>1. k \in 1 .. 3
    OBVIOUS
  <2>2. CASE k = 1
    BY <1>3, <2>2
  <2>3. CASE k # 1
    <3>1. 1 \in 1 .. (k - 1)
      BY <2>1, <2>3
    <3>2. <<j, d, e>>[1] = <<i, b, c>>[1]
      BY <1>3, <3>1
    <3>3. QED
      BY <3>2
  <2>4. QED
    BY <2>2, <2>3
<1>4. QED
  BY <1>2, <1>3 DEF Precedes

\* The terminal rows that no other precedes, by anchor, time and id.
ByAnchor(x, e) == <<Anchor(x, e), e.at, e.id>>
FirstByAnchor(x, T) == {e \in T : \A d \in T : d = e \/ Precedes(ByAnchor(x, e), ByAnchor(x, d))}

\* What decided an attempt, alone, or nothing if it is not decided.
OnlyDecider(F, a) ==
  /\ task[a].outcome = None => F = {}
  /\ task[a].outcome # None => \E e : F = {e} /\ Decides(e, task[a], RowsOf(a))

\* Whoever looks for the decisive evidence by its anchor finds the one that
\* decided the attempt, if any did, in whatever part of its rows has that one.
LEMMA FirstIsDecider ==
  ASSUME TablesInv, EvidenceInv, NEW x, WithSources(x), NEW a \in Sessions \X Tasks,
         NEW found, found \subseteq RowsOf(a), found \subseteq Elements(x),
         \A e \in RowsOf(a) : Decides(e, task[a], RowsOf(a)) => e \in found,
         NEW T, T = {d \in found : OutcomeOf(d) # None}
  PROVE  OnlyDecider(FirstByAnchor(x, T), a)
<1>1. Tells(task[a], RowsOf(a))
  BY DEF EvidenceInv, AttemptsTold
<1>2. CASE task[a].outcome = None
  <2>1. T = {}
    BY <1>1, <1>2 DEF Tells
  <2>2. QED
    BY <1>2, <2>1 DEF FirstByAnchor, OnlyDecider
<1>3. CASE task[a].outcome # None
  <2>1. PICK e \in RowsOf(a) : Decides(e, task[a], RowsOf(a))
    BY <1>1, <1>3 DEF Tells
  <2>2. e \in T /\ e \in Elements(x)
    BY <2>1 DEF Decides
  <2>3. /\ Anchor(x, e) \in Nat
        /\ \A d \in T : d # e => Anchor(x, d) \in Nat /\ Anchor(x, e) < Anchor(x, d)
    BY <2>1, <2>2, DeciderFirst DEF EvidenceInv
  <2>4. \A d \in T : d # e => /\ Precedes(ByAnchor(x, e), ByAnchor(x, d))
                              /\ ~Precedes(ByAnchor(x, d), ByAnchor(x, e))
    BY <2>3, FirstNumberDecides DEF ByAnchor
  <2>5. FirstByAnchor(x, T) = {e}
    BY <2>2, <2>4 DEF FirstByAnchor
  <2>6. QED
    BY <1>3, <2>1, <2>5 DEF OnlyDecider
<1>4. QED
  BY <1>2, <1>3

\* So does the aggregation.
LEMMA TerminalDecides ==
  ASSUME TablesInv, EvidenceInv, NEW x, WithSources(x), NEW a \in Sessions \X Tasks,
         NEW attempt, Elements(attempt) \subseteq RowsOf(a), Elements(attempt) \subseteq Elements(x),
         \A e \in RowsOf(a) : Decides(e, task[a], RowsOf(a)) => e \in Elements(attempt)
  PROVE  OnlyDecider(Terminal(x, attempt), a)
<1> DEFINE T == TerminalRows(attempt)
<1>1. T = {d \in Elements(attempt) : OutcomeOf(d) # None}
  BY DEF TerminalRows
<1>2. Terminal(x, attempt) = FirstByAnchor(x, T)
  BY DEF Terminal, Foremost, FirstByAnchor, ByAnchor
<1> HIDE DEF T
<1>3. OnlyDecider(FirstByAnchor(x, T), a)
  BY <1>1, FirstIsDecider
<1>4. QED
  BY <1>2, <1>3

\* It finds the start that task_sessions tells of.
LEMMA StartIsFound ==
  ASSUME EvidenceInv, NEW a \in Sessions \X Tasks, NEW attempt, Elements(attempt) \subseteq RowsOf(a)
  PROVE  /\ FirstOf(attempt, {"task_started"}) = {e \in Elements(attempt) : Starts(e)}
         /\ \A e \in Elements(attempt) : Starts(e) =>
              e.at = task[a].startedAt /\ FirstOf(attempt, {"task_started"}) = {e}
<1> DEFINE S == {e \in Elements(attempt) : IsRaw(e) /\ e.type \in {"task_started"}}
<1>1. FirstOf(attempt, {"task_started"}) =
        {e \in S : \A d \in S : d = e \/ Precedes(BySequence(e), BySequence(d))}
  BY DEF FirstOf, Foremost
<1>2. S = {e \in Elements(attempt) : Starts(e)}
  BY DEF Starts
<1>3. \A e \in S : e.at = task[a].startedAt /\ \A d \in S : d = e
  BY <1>2 DEF EvidenceInv, AttemptsTold, Tells
<1> HIDE DEF S
<1>4. FirstOf(attempt, {"task_started"}) = S
  BY <1>1, <1>3
<1>5. QED
  BY <1>2, <1>3, <1>4

\* The pages hold the rows of the table.
LEMMA TableElements ==
  ASSUME TablesInv
  PROVE  /\ IsList(Table) /\ Elements(Table) = Elements(rows)
         /\ \A d, e \in Elements(rows) : d.id = e.id => d = e
<1>1. IsTable(rows, nextId) => 
      /\ Len(rows) \in Nat
      /\ \A e \in Elements(rows) : PlaceOf(e, rows) \in 1 .. Len(rows)
      /\ InPageOrder(rows) \in Seq(Elements(rows))
      /\ Len(InPageOrder(rows)) = Len(rows)
      /\ \A e \in Elements(rows) : InPageOrder(rows)[PlaceOf(e, rows)] = e
  BY PlaceFacts
<1>2. IsTable(rows, nextId)
  BY DEF TablesInv
<1> DEFINE table == InPageOrder(rows)
<1> HIDE DEF table
<1>3. DOMAIN table = 1 .. Len(rows) /\ table \in Seq(Elements(rows))
  BY <1>1, <1>2, LenProperties DEF table
<1>4. \A e \in Elements(rows) : PlaceOf(e, rows) \in DOMAIN table /\ table[PlaceOf(e, rows)] = e
  BY <1>1, <1>2, <1>3 DEF table
<1>5. Elements(rows) \subseteq Elements(table)
  <2>1. ASSUME NEW e \in Elements(rows) PROVE e \in Elements(table)
    <3> DEFINE k == PlaceOf(e, rows)
    <3>1. k \in DOMAIN table /\ table[k] = e
      BY <1>4
    <3> HIDE DEF k
    <3>2. QED
      BY <3>1 DEF Elements
  <2>2. QED
    BY <2>1
<1>6. Elements(table) \subseteq Elements(rows) /\ IsList(table)
  BY <1>3, ElementsFacts DEF IsList
<1>7. \A i, j \in DOMAIN rows : rows[i].id = rows[j].id => i = j
  <2>1. DOMAIN rows = 1 .. Len(rows) /\ Len(rows) \in Nat /\ \A i \in DOMAIN rows : rows[i].id \in Nat
    BY <1>2, LenProperties DEF IsTable, IsList
  <2>2. \A i, j \in DOMAIN rows : i < j \/ j < i \/ i = j
    BY <2>1
  <2>3. QED
    BY <1>2, <2>1, <2>2 DEF IsTable
<1>8. \A d, e \in Elements(rows) : d.id = e.id => d = e
  BY <1>7 DEF Elements
<1>9. QED
  BY <1>5, <1>6, <1>8 DEF table, Table

\* What the triggers store can be aggregated: every derived row finds the row
\* it was derived from, and no task ends before it starts.
THEOREM ResultsAreComputed == ReadSpec => []ResultsComputed
<1>1. ReadInvariant /\ EvidenceInv => ResultsComputed
  <2> SUFFICES ASSUME ReadInvariant, EvidenceInv PROVE CanAggregate(Table)
    BY DEF ResultsComputed
  <2> DEFINE x == Accepted(Table)
  <2>1. TablesInv
    BY DEF ReadInvariant
  <2>2. /\ IsList(Table) /\ Elements(Table) = Elements(rows)
        /\ \A d, e \in Elements(rows) : d.id = e.id => d = e
    BY <2>1, TableElements
  <2>3. IsList(x) /\ Elements(x) = Elements(rows)
    BY <2>2, AcceptedElements
  <2> HIDE DEF x
  <2>4. WithSources(x)
    BY <2>3 DEF WithSources
  <2>5. \A e \in Elements(x) : IsRaw(e) \/ Resolves(x, e)
    BY <2>1, <2>4, AnchorFacts DEF EvidenceInv
  <2>6. ASSUME NEW a \in Attempts(x)
        PROVE  ~DurationFails(FirstOf(AttemptRows(x, a[1], a[2]), {"task_started"}),
                              Terminal(x, AttemptRows(x, a[1], a[2])))
    <3>1. a \in Sessions \X Tasks
      <4>1. \A e \in Elements(rows) : e.session \in Sessions /\ e.task \in Tasks \cup {None}
        BY <2>1 DEF TablesInv, IsTable, Elements, EvidenceInv, Evidenced
      <4>2. QED
        BY <2>3, <4>1 DEF Attempts
    <3> DEFINE attempt == AttemptRows(x, a[1], a[2])
               start == FirstOf(attempt, {"task_started"})
               end == Terminal(x, attempt)
    <3>2. Elements(attempt) = RowsOf(a)
      BY <2>3, AttemptElements DEF RowsOf
    <3>3. RowsOf(a) \subseteq Elements(x)
      BY <2>3 DEF RowsOf
    <3> HIDE DEF attempt
    <3>4. \A d \in start : d.at = task[a].startedAt
      BY <3>1, <3>2, StartIsFound
    <3>5. \A e \in end : Decides(e, task[a], RowsOf(a))
      <4>1. OnlyDecider(end, a)
        BY <2>1, <2>4, <3>1, <3>2, <3>3, TerminalDecides
      <4>2. QED
        BY <4>1 DEF OnlyDecider
    <3>6. ~BreaksCheck(task[a])
      BY <3>1 DEF EvidenceInv, AttemptsTold
    <3> HIDE DEF start, end
    <3>7. ASSUME NEW d \in start, NEW e \in end, e.at < d.at PROVE FALSE
      <4>1. e.at = task[a].ended /\ e \in RowsOf(a)
        BY <3>5 DEF Decides
      <4>2. e.at \in Nat
        BY <2>1, <4>1 DEF RowsOf, TablesInv, IsTable, Elements
      <4>3. None \notin Nat
        BY ReadAssumption
      <4>4. QED
        BY <3>4, <3>6, <3>7, <4>1, <4>2, <4>3 DEF BreaksCheck
    <3>8. QED
      BY <3>7 DEF DurationFails, start, end, attempt
  <2>7. QED
    BY <2>5, <2>6 DEF CanAggregate, x
<1>2. QED
  BY <1>1, ReadInvariantHolds, EvidenceHolds, PTL

-----------------------------------------------------------------------------
(* Repeats do not count. *)

\* Rows of which none is repeated.
Unrepeated(x) == \A i, j \in DOMAIN x : x[i].id = x[j].id => i = j

\* Some of them.
LEMMA KeptUnrepeated ==
  ASSUME NEW x, IsList(x), NEW S \in SUBSET DOMAIN x,
         \A i, j \in S : x[i].id = x[j].id => i = j
  PROVE  Unrepeated(KeepAt(x, S))
<1> DEFINE kept == KeepAt(x, S)
<1>1. x \in Seq(Elements(x))
  BY DEF IsList
<1>2. /\ kept \in Seq(Elements(x)) /\ Len(kept) = Cardinality(S)
      /\ \A k \in DOMAIN kept : Nth(S, k) \in S /\ kept[k] = x[Nth(S, k)]
      /\ \A k, l \in DOMAIN kept : k < l => Nth(S, k) < Nth(S, l)
  BY <1>1, KeepAtFacts
<1> HIDE DEF kept
<1>3. DOMAIN kept \subseteq Nat /\ DOMAIN x \subseteq Nat
  BY <1>1, <1>2, LenProperties
<1>4. ASSUME NEW k \in DOMAIN kept, NEW l \in DOMAIN kept, kept[k].id = kept[l].id PROVE k = l
  <2>1. Nth(S, k) = Nth(S, l) /\ Nth(S, k) \in Nat
    BY <1>2, <1>3, <1>4
  <2>2. ~(k < l) /\ ~(l < k)
    BY <1>2, <2>1
  <2>3. QED
    BY <1>3, <2>2
<1>5. QED
  BY <1>4 DEF Unrepeated, kept

\* The aggregation keeps each row once.
LEMMA AcceptedUnrepeated ==
  ASSUME NEW x, IsList(x)
  PROVE  Unrepeated(Accepted(x))
<1> DEFINE S == {i \in DOMAIN x : \A j \in 1 .. (i - 1) : x[j].id # x[i].id}
<1>1. DOMAIN x = 1 .. Len(x) /\ Len(x) \in Nat
  BY LenProperties DEF IsList
<1>2. ASSUME NEW i \in S, NEW j \in S, x[i].id = x[j].id PROVE i = j
  <2>1. ~(i < j)
    <3>1. i < j => i \in 1 .. (j - 1)
      BY <1>1
    <3>2. QED
      BY <1>2, <3>1
  <2>2. ~(j < i)
    <3>1. j < i => j \in 1 .. (i - 1)
      BY <1>1
    <3>2. QED
      BY <1>2, <3>1
  <2>3. QED
    BY <1>1, <2>1, <2>2
<1>3. S \in SUBSET DOMAIN x
  OBVIOUS
<1> HIDE DEF S
<1>4. Unrepeated(KeepAt(x, S))
  BY <1>2, <1>3, KeptUnrepeated
<1>5. QED
  BY <1>4 DEF Accepted, S

\* The same rows, each once, in two orders.
Reordered(x, y) ==
  /\ IsList(x) /\ IsList(y) /\ Unrepeated(x) /\ Unrepeated(y) /\ Elements(x) = Elements(y)

\* The rows of an attempt are in two orders then, too.
LEMMA ReorderedAttempt ==
  ASSUME NEW x, NEW y, Reordered(x, y), NEW s, NEW t
  PROVE  Reordered(AttemptRows(x, s, t), AttemptRows(y, s, t))
<1>1. ASSUME NEW z, IsList(z), Unrepeated(z) PROVE Unrepeated(AttemptRows(z, s, t))
  <2> DEFINE S == {i \in DOMAIN z : z[i].session = s /\ z[i].task = t}
  <2>1. S \in SUBSET DOMAIN z /\ \A i, j \in S : z[i].id = z[j].id => i = j
    BY <1>1 DEF Unrepeated
  <2> HIDE DEF S
  <2>2. Unrepeated(KeepAt(z, S))
    BY <1>1, <2>1, KeptUnrepeated
  <2>3. QED
    BY <2>2 DEF AttemptRows, S
<1> DEFINE a == AttemptRows(x, s, t)
           b == AttemptRows(y, s, t)
<1>2. /\ IsList(x) /\ IsList(y) /\ Unrepeated(x) /\ Unrepeated(y) /\ Elements(x) = Elements(y)
  BY DEF Reordered
<1>3. /\ IsList(a) /\ Elements(a) = {e \in Elements(x) : e.session = s /\ e.task = t}
      /\ IsList(b) /\ Elements(b) = {e \in Elements(y) : e.session = s /\ e.task = t}
  BY <1>2, AttemptElements
<1>4. Unrepeated(a) /\ Unrepeated(b)
  BY <1>1, <1>2
<1> HIDE DEF a, b
<1>5. Elements(a) = Elements(b)
  BY <1>2, <1>3
<1>6. Reordered(a, b)
  BY <1>3, <1>4, <1>5 DEF Reordered
<1>7. QED
  BY <1>6 DEF a, b

\* Rows are counted as often as they are there.
LEMMA PlacesOfRows ==
  ASSUME NEW x, IsList(x), Unrepeated(x), NEW P \in SUBSET Elements(x)
  PROVE  Cardinality({i \in DOMAIN x : x[i] \in P}) = Cardinality(P)
<1> DEFINE S == {i \in DOMAIN x : x[i] \in P}
           f == [i \in S |-> x[i]]
<1>1. f \in Bijection(S, P)
  <2>1. f \in [S -> P]
    OBVIOUS
  <2>2. \A i, j \in S : f[i] = f[j] => i = j
    BY DEF Unrepeated
  <2>3. \A e \in P : \E i \in S : f[i] = e
    BY DEF Elements
  <2>4. QED
    BY <2>1, <2>2, <2>3 DEF Bijection, Injection, Surjection, IsInjective
<1>2. IsFiniteSet(S)
  <2>1. DOMAIN x = 1 .. Len(x) /\ Len(x) \in Nat
    BY LenProperties DEF IsList
  <2>2. IsFiniteSet(DOMAIN x) /\ S \in SUBSET DOMAIN x
    BY <2>1, FS_Interval
  <2>3. QED
    BY <2>2, FS_Subset
<1>3. ExistsBijection(S, P)
  BY <1>1, Zenon DEF ExistsBijection
<1>4. QED
  BY <1>2, <1>3, FS_Bijection

\* An instance does not depend on the order.
LEMMA ReorderedInstance ==
  ASSUME NEW x, NEW y, Reordered(x, y), NEW s, NEW t
  PROVE  Instance(x, s, t) = Instance(y, s, t)
<1> DEFINE start(S) == Foremost({e \in S : IsRaw(e) /\ e.type \in {"task_started"}}, BySequence)
           sources(S, e) == {r \in S : /\ r.id \in e.from /\ IsRaw(r)
                                       /\ r.session = e.session /\ r.task = e.task}
           anchor(S, e) == IF IsRaw(e) THEN e.seq ELSE Max({r.seq : r \in sources(S, e)})
           end(S, A) == Foremost({e \in A : OutcomeOf(e) # None},
                                 LAMBDA e : <<anchor(S, e), e.at, e.id>>)
           a == AttemptRows(x, s, t)
           b == AttemptRows(y, s, t)
           E == Elements(a)
<1>1. /\ IsList(a) /\ IsList(b) /\ Unrepeated(a) /\ Unrepeated(b) /\ Elements(a) = Elements(b)
      /\ Elements(x) = Elements(y)
  BY ReorderedAttempt DEF Reordered
<1>2. \A z : FirstOf(z, {"task_started"}) = start(Elements(z))
  BY DEF FirstOf
<1>3. \A z, w : Terminal(z, w) = end(Elements(z), Elements(w))
  BY DEF Terminal, TerminalRows, Anchor, Sources
<1> HIDE DEF start, end, sources, anchor, a, b
<1>4. FirstOf(a, {"task_started"}) = FirstOf(b, {"task_started"}) /\ Terminal(x, a) = Terminal(y, b)
  BY <1>1, <1>2, <1>3
<1> DEFINE pointers == {e \in E : IsRaw(e) /\ e.type = "pointer_interaction"}
           misclicks == {e \in E : ~IsRaw(e) /\ e.type = "misclick"}
<1>5. ASSUME NEW z, IsList(z), Unrepeated(z), Elements(z) = E, NEW c, NEW d
      PROVE  InstanceOf(s, t, z, c, d) =
               [session |-> s, task |-> t, started |-> c, terminal |-> d,
                outcome |-> IfAny(d, OutcomeOf),
                duration |-> Lasted(c, d),
                events |-> {e.id : e \in E},
                pointers |-> Cardinality(pointers), misclicks |-> Cardinality(misclicks),
                clicks |-> {e.id : e \in pointers \cup misclicks}]
  <2> DEFINE P == {i \in DOMAIN z : IsRaw(z[i]) /\ z[i].type = "pointer_interaction"}
             M == {i \in DOMAIN z : ~IsRaw(z[i]) /\ z[i].type = "misclick"}
  <2>1. P = {i \in DOMAIN z : z[i] \in pointers} /\ M = {i \in DOMAIN z : z[i] \in misclicks}
    BY <1>5 DEF Elements
  <2>2. pointers \in SUBSET Elements(z) /\ misclicks \in SUBSET Elements(z)
    BY <1>5
  <2>3. {z[i].id : i \in P \cup M} = {e.id : e \in pointers \cup misclicks}
    BY <1>5 DEF Elements
  <2>4. Ids(z) = {e.id : e \in E}
    BY <1>5 DEF Ids
  <2>5. InstanceOf(s, t, z, c, d) =
          [session |-> s, task |-> t, started |-> c, terminal |-> d,
           outcome |-> IfAny(d, OutcomeOf),
           duration |-> Lasted(c, d),
           events |-> Ids(z),
           pointers |-> Cardinality(P), misclicks |-> Cardinality(M),
           clicks |-> {z[i].id : i \in P \cup M}]
    BY DEF InstanceOf
  <2> HIDE DEF P, M, pointers, misclicks
  <2>6. Cardinality(P) = Cardinality(pointers) /\ Cardinality(M) = Cardinality(misclicks)
    <3>1. /\ Cardinality({i \in DOMAIN z : z[i] \in pointers}) = Cardinality(pointers)
          /\ Cardinality({i \in DOMAIN z : z[i] \in misclicks}) = Cardinality(misclicks)
      BY <1>5, <2>2, PlacesOfRows
    <3>2. QED
      BY <2>1, <3>1
  <2>7. QED
    BY <2>3, <2>4, <2>5, <2>6
<1> HIDE DEF pointers, misclicks, E
<1>6. ASSUME NEW c, NEW d PROVE InstanceOf(s, t, a, c, d) = InstanceOf(s, t, b, c, d)
  <2> DEFINE value ==
               [session |-> s, task |-> t, started |-> c, terminal |-> d,
                outcome |-> IfAny(d, OutcomeOf),
                duration |-> Lasted(c, d),
                events |-> {e.id : e \in E},
                pointers |-> Cardinality(pointers), misclicks |-> Cardinality(misclicks),
                clicks |-> {e.id : e \in pointers \cup misclicks}]
  <2>1. Elements(a) = E /\ Elements(b) = E
    BY <1>1 DEF E
  <2>2. InstanceOf(s, t, a, c, d) = value
    BY <1>1, <1>5, <2>1
  <2>3. InstanceOf(s, t, b, c, d) = value
    BY <1>1, <1>5, <2>1
  <2>4. QED
    BY <2>2, <2>3
<1>7. QED
  BY <1>4, <1>6 DEF Instance, a, b

\* The rows of a session.
LEMMA SessionElements ==
  ASSUME NEW x, IsList(x), NEW s
  PROVE  Elements(SessionRows(x, s)) = {e \in Elements(x) : e.session = s}
<1> DEFINE S == {i \in DOMAIN x : x[i].session = s}
<1>1. S \in SUBSET DOMAIN x /\ {x[i] : i \in S} = {e \in Elements(x) : e.session = s}
  BY DEF Elements
<1> HIDE DEF S
<1>2. Elements(KeepAt(x, S)) = {x[i] : i \in S}
  BY <1>1, ElementsOfKept
<1>3. QED
  BY <1>1, <1>2 DEF SessionRows, S

\* Nor do the results of the aggregation.
LEMMA ReorderedAnalytics ==
  ASSUME NEW x, NEW y, IsList(x), IsList(y), Elements(x) = Elements(y),
         \A d, e \in Elements(x) : d.id = e.id => d = e
  PROVE  Analytics(x) = Analytics(y)
<1> DEFINE a == Accepted(x)
           b == Accepted(y)
<1>1. Reordered(a, b)
  <2>1. /\ IsList(a) /\ Elements(a) = Elements(x) /\ Unrepeated(a)
        /\ IsList(b) /\ Elements(b) = Elements(y) /\ Unrepeated(b)
    BY AcceptedElements, AcceptedUnrepeated
  <2>2. QED
    BY <2>1 DEF Reordered
<1> HIDE DEF a, b
<1>2. Elements(a) = Elements(b)
  BY <1>1 DEF Reordered
<1> DEFINE attempts(S) == {<<e.session, e.task>> : e \in {d \in S : d.task # None}}
           tasks(S) == {e.task : e \in S} \ {None}
           sessions(S) == {e.session : e \in S}
           trace(S, ids) ==
             ids \cup UNION {{r.id : r \in {r \in S : /\ r.id \in e.from /\ IsRaw(r)
                                                     /\ r.session = e.session /\ r.task = e.task}} :
                               e \in {d \in S : d.id \in ids /\ ~IsRaw(d)}}
<1>3. \A z : Attempts(z) = attempts(Elements(z)) /\ TasksOf(z) = tasks(Elements(z))
             /\ SessionsOf(z) = sessions(Elements(z))
  BY DEF Attempts, TasksOf, SessionsOf
<1>4. \A z, ids : Trace(z, ids) = trace(Elements(z), ids)
  BY DEF Trace, Sources
<1> HIDE DEF attempts, tasks, sessions, trace
<1>5. Attempts(a) = Attempts(b) /\ TasksOf(a) = TasksOf(b) /\ SessionsOf(a) = SessionsOf(b)
  BY <1>2, <1>3
<1>6. \A ids : Trace(a, ids) = Trace(b, ids)
  BY <1>2, <1>4
<1>7. Instances(a) = Instances(b)
  <2>1. \A s, t : Instance(a, s, t) = Instance(b, s, t)
    BY <1>1, ReorderedInstance
  <2>2. QED
    BY <1>5, <2>1 DEF Instances
<1>8. \A t : TaskMetric(a, t) = TaskMetric(b, t)
  <2>1. \A S : TaskTrace(a, S) = TaskTrace(b, S)
    BY <1>6 DEF TaskTrace
  <2>2. QED
    BY <1>7, <2>1 DEF TaskMetric
<1>9. \A s : SessionAggregate(a, s) = SessionAggregate(b, s)
  <2> DEFINE first(S, types) == Foremost({e \in S : IsRaw(e) /\ e.type \in types}, BySequence)
  <2>1. \A z, types : FirstOf(z, types) = first(Elements(z), types)
    BY DEF FirstOf
  <2> HIDE DEF first
  <2>2. TAKE s
  <2>3. Elements(SessionRows(a, s)) = Elements(SessionRows(b, s))
    <3>1. /\ Elements(SessionRows(a, s)) = {e \in Elements(a) : e.session = s}
          /\ Elements(SessionRows(b, s)) = {e \in Elements(b) : e.session = s}
      BY <1>1, SessionElements DEF Reordered
    <3>2. QED
      BY <1>2, <3>1
  <2>4. \A types : FirstOf(SessionRows(a, s), types) = FirstOf(SessionRows(b, s), types)
    BY <2>1, <2>3
  <2>5. Ids(SessionRows(a, s)) = Ids(SessionRows(b, s))
    BY <2>3 DEF Ids
  <2>6. SessionTerminal(SessionRows(a, s)) = SessionTerminal(SessionRows(b, s))
    BY <2>4 DEF SessionTerminal
  <2>7. QED
    BY <1>6, <1>7, <2>4, <2>5, <2>6 DEF SessionAggregate
<1>10. QED
  BY <1>5, <1>8, <1>9 DEF Analytics, a, b

-----------------------------------------------------------------------------
\* Keys of views compare by sequence, time, id and position.
Foregoes(d, e) ==
  \/ d.seq < e.seq
  \/ d.seq = e.seq /\ d.at < e.at
  \/ d.seq = e.seq /\ d.at = e.at /\ d.id < e.id

\* Position i comes before position j in the sort of the path.
Ahead(x, i, j) == Precedes(Append(BySequence(x[i]), i), Append(BySequence(x[j]), j))

\* A row is numbered by the collector and the clocks.
HasNumbers(e) == e.seq \in Nat /\ e.at \in Nat /\ e.id \in Nat

\* Tuples of four numbers, compared.
LEMMA FourPrecede ==
  ASSUME NEW x \in Seq(Nat), NEW y \in Seq(Nat), Len(x) = 4, Len(y) = 4
  PROVE  Precedes(x, y) <=>
           \/ x[1] < y[1]
           \/ x[1] = y[1] /\ x[2] < y[2]
           \/ x[1] = y[1] /\ x[2] = y[2] /\ x[3] < y[3]
           \/ x[1] = y[1] /\ x[2] = y[2] /\ x[3] = y[3] /\ x[4] < y[4]
<1> DEFINE Q(k) == x[k] < y[k] /\ \A j \in 1 .. (k - 1) : x[j] = y[j]
<1>1. DOMAIN x = {1, 2, 3, 4}
  BY LenProperties
<1>2. Precedes(x, y) <=> \E k \in {1, 2, 3, 4} : Q(k)
  BY <1>1 DEF Precedes
<1>3. 1 .. (1 - 1) = {} /\ 1 .. (2 - 1) = {1} /\ 1 .. (3 - 1) = {1, 2} /\ 1 .. (4 - 1) = {1, 2, 3}
  OBVIOUS
<1>4. Q(1) <=> x[1] < y[1]
  BY <1>3
<1>5. Q(2) <=> (x[1] = y[1] /\ x[2] < y[2])
  BY <1>3
<1>6. Q(3) <=> (x[1] = y[1] /\ x[2] = y[2] /\ x[3] < y[3])
  BY <1>3
<1>7. Q(4) <=> (x[1] = y[1] /\ x[2] = y[2] /\ x[3] = y[3] /\ x[4] < y[4])
  BY <1>3
<1> HIDE DEF Q
<1>8. Precedes(x, y) <=> Q(1) \/ Q(2) \/ Q(3) \/ Q(4)
  BY <1>2
<1>9. QED
  BY <1>4, <1>5, <1>6, <1>7, <1>8

\* The sort of the path goes by sequence, time and id, and then by position.
LEMMA AheadMeans ==
  ASSUME NEW x, NEW i \in Nat, NEW j \in Nat, HasNumbers(x[i]), HasNumbers(x[j])
  PROVE  Ahead(x, i, j) <=>
           \/ Foregoes(x[i], x[j])
           \/ x[i].seq = x[j].seq /\ x[i].at = x[j].at /\ x[i].id = x[j].id /\ i < j
<1> DEFINE Keyed(q, d, k) == /\ q \in Seq(Nat) /\ Len(q) = 4
                             /\ q[1] = d.seq /\ q[2] = d.at /\ q[3] = d.id /\ q[4] = k
<1>1. ASSUME NEW d, HasNumbers(d), NEW k \in Nat, NEW q, q = Append(BySequence(d), k)
      PROVE  Keyed(q, d, k)
  <2> DEFINE a == d.seq
             b == d.at
             c == d.id
             p == <<a, b, c>>
  <2>1. a \in Nat /\ b \in Nat /\ c \in Nat
    BY <1>1 DEF HasNumbers
  <2>2. q = Append(p, k)
    BY <1>1 DEF BySequence
  <2> HIDE DEF a, b, c
  <2>3. p \in Seq(Nat) /\ Len(p) = 3 /\ p[1] = a /\ p[2] = b /\ p[3] = c
    BY <2>1
  <2> HIDE DEF p
  <2>4. /\ Append(p, k) \in Seq(Nat) /\ Len(Append(p, k)) = Len(p) + 1
        /\ \A m \in 1 .. Len(p) : Append(p, k)[m] = p[m]
        /\ Append(p, k)[Len(p) + 1] = k
    <3>1. k \in Nat /\ p \in Seq(Nat)
      BY <1>1, <2>3
    <3>2. QED
      BY <3>1, AppendProperties
  <2>5. QED
    BY <2>2, <2>3, <2>4 DEF a, b, c
<1> HIDE DEF Keyed
<1>2. PICK q : q = Append(BySequence(x[i]), i)
  OBVIOUS
<1>3. PICK r : r = Append(BySequence(x[j]), j)
  OBVIOUS
<1>4. Keyed(q, x[i], i)
  BY <1>1, <1>2
<1>5. Keyed(r, x[j], j)
  BY <1>1, <1>3
<1>6. Ahead(x, i, j) <=> Precedes(q, r)
  BY <1>2, <1>3 DEF Ahead
<1>7. Precedes(q, r) <=>
           \/ q[1] < r[1]
           \/ q[1] = r[1] /\ q[2] < r[2]
           \/ q[1] = r[1] /\ q[2] = r[2] /\ q[3] < r[3]
           \/ q[1] = r[1] /\ q[2] = r[2] /\ q[3] = r[3] /\ q[4] < r[4]
  BY <1>4, <1>5, FourPrecede DEF Keyed
<1>8. QED
  BY <1>4, <1>5, <1>6, <1>7 DEF Foregoes, Keyed

-----------------------------------------------------------------------------
\* The positions of the screen views of a session.
ViewsAt(x, s) == {i \in DOMAIN x : /\ x[i].session = s /\ IsRaw(x[i])
                                   /\ x[i].type = "screen_view" /\ x[i].screen # None}

\* Where the sort puts them.
ViewPlace(x, s, i) == Cardinality({j \in ViewsAt(x, s) : j = i \/ Ahead(x, j, i)})
ViewChosen(x, s, k) == CHOOSE i \in ViewsAt(x, s) : ViewPlace(x, s, i) = k

\* The sort of the path is one: every view has a place of its own.
LEMMA ViewsNumbered ==
  ASSUME NEW x, IsList(x), NEW s, \A i \in ViewsAt(x, s) : HasNumbers(x[i])
  PROVE  LET V == ViewsAt(x, s)
         IN  /\ V \subseteq Nat /\ Cardinality(V) \in Nat
             /\ \A i \in V : /\ ViewPlace(x, s, i) \in 1 .. Cardinality(V)
                             /\ ViewChosen(x, s, ViewPlace(x, s, i)) = i
             /\ \A k \in 1 .. Cardinality(V) : ViewChosen(x, s, k) \in V
             /\ \A i, j \in V : ViewPlace(x, s, i) < ViewPlace(x, s, j) <=> Ahead(x, i, j)
             /\ \A k, l \in 1 .. Cardinality(V) : k < l => Ahead(x, ViewChosen(x, s, k), ViewChosen(x, s, l))
<1> DEFINE V == ViewsAt(x, s)
           R == {p \in V \X V : Ahead(x, p[1], p[2])}
           rank == [i \in V |-> Cardinality({j \in V : j = i \/ <<j, i>> \in R})]
<1>1. V \subseteq Nat /\ IsFiniteSet(V)
  <2>1. DOMAIN x = 1 .. Len(x) /\ Len(x) \in Nat
    BY LenProperties DEF IsList
  <2>2. IsFiniteSet(DOMAIN x) /\ V \in SUBSET DOMAIN x
    BY <2>1, FS_Interval DEF ViewsAt
  <2>3. QED
    BY <2>1, <2>2, FS_Subset
<1>2. \A i \in V : HasNumbers(x[i])
  OBVIOUS
<1> HIDE DEF V
<1>3. \A i, j \in V : Ahead(x, i, j) <=>
           \/ Foregoes(x[i], x[j])
           \/ x[i].seq = x[j].seq /\ x[i].at = x[j].at /\ x[i].id = x[j].id /\ i < j
  BY <1>1, <1>2, AheadMeans
<1>4. \A i, j \in V : <<i, j>> \in R <=> Ahead(x, i, j)
  OBVIOUS
<1>5. /\ \A i \in V : ~Ahead(x, i, i)
      /\ \A i, j \in V : i = j \/ Ahead(x, i, j) \/ Ahead(x, j, i)
      /\ \A i, j, k \in V : Ahead(x, i, j) /\ Ahead(x, j, k) => Ahead(x, i, k)
  <2>1. \A i \in V : ~Ahead(x, i, i)
    BY <1>1, <1>2, <1>3 DEF Foregoes, HasNumbers
  <2>2. \A i, j \in V : i = j \/ Ahead(x, i, j) \/ Ahead(x, j, i)
    <3>1. TAKE i, j \in V
    <3>2. /\ x[i].seq \in Nat /\ x[i].at \in Nat /\ x[i].id \in Nat /\ i \in Nat
          /\ x[j].seq \in Nat /\ x[j].at \in Nat /\ x[j].id \in Nat /\ j \in Nat
      BY <1>1, <1>2 DEF HasNumbers
    <3>3. \/ i = j \/ i < j \/ j < i
      BY <3>2
    <3>4. \/ Foregoes(x[i], x[j]) \/ Foregoes(x[j], x[i])
          \/ x[i].seq = x[j].seq /\ x[i].at = x[j].at /\ x[i].id = x[j].id
      BY <3>2 DEF Foregoes
    <3>5. QED
      BY <1>3, <3>3, <3>4
  <2>3. ASSUME NEW i \in V, NEW j \in V, NEW k \in V, Ahead(x, i, j), Ahead(x, j, k)
        PROVE  Ahead(x, i, k)
    <3> DEFINE Same(d, e) == d.seq = e.seq /\ d.at = e.at /\ d.id = e.id
    <3>1. /\ x[i].seq \in Nat /\ x[i].at \in Nat /\ x[i].id \in Nat /\ i \in Nat
          /\ x[j].seq \in Nat /\ x[j].at \in Nat /\ x[j].id \in Nat /\ j \in Nat
          /\ x[k].seq \in Nat /\ x[k].at \in Nat /\ x[k].id \in Nat /\ k \in Nat
      BY <1>1, <1>2 DEF HasNumbers
    <3>2. /\ Foregoes(x[i], x[j]) \/ (Same(x[i], x[j]) /\ i < j)
          /\ Foregoes(x[j], x[k]) \/ (Same(x[j], x[k]) /\ j < k)
      BY <1>3, <2>3
    <3>3. Foregoes(x[i], x[j]) /\ Foregoes(x[j], x[k]) => Foregoes(x[i], x[k])
      BY <3>1 DEF Foregoes
    <3>4. Foregoes(x[i], x[j]) /\ Same(x[j], x[k]) => Foregoes(x[i], x[k])
      BY DEF Foregoes
    <3>5. Same(x[i], x[j]) /\ Foregoes(x[j], x[k]) => Foregoes(x[i], x[k])
      BY DEF Foregoes
    <3>6. Same(x[i], x[j]) /\ Same(x[j], x[k]) /\ i < j /\ j < k => Same(x[i], x[k]) /\ i < k
      BY <3>1
    <3>7. Foregoes(x[i], x[k]) \/ (Same(x[i], x[k]) /\ i < k)
      BY <3>2, <3>3, <3>4, <3>5, <3>6
    <3>8. QED
      BY <1>3, <3>7
  <2>4. QED
    BY <2>1, <2>2, <2>3
<1> HIDE DEF R
<1>6. /\ \A i \in V : rank[i] \in 1 .. Cardinality(V)
      /\ \A i, j \in V : rank[i] < rank[j] <=> <<i, j>> \in R
      /\ \A i, j \in V : rank[i] = rank[j] => i = j
      /\ \A k \in 1 .. Cardinality(V) : \E i \in V : rank[i] = k
  <2>1. /\ \A i \in V : <<i, i>> \notin R
        /\ \A i, j \in V : i = j \/ <<i, j>> \in R \/ <<j, i>> \in R
        /\ \A i, j, k \in V : <<i, j>> \in R /\ <<j, k>> \in R => <<i, k>> \in R
    BY <1>4, <1>5
  <2>2. \A f : f = [i \in V |-> Cardinality({j \in V : j = i \/ <<j, i>> \in R})] =>
          /\ \A i \in V : f[i] \in 1 .. Cardinality(V)
          /\ \A i, j \in V : f[i] < f[j] <=> <<i, j>> \in R
          /\ \A i, j \in V : f[i] = f[j] => i = j
          /\ \A k \in 1 .. Cardinality(V) : \E i \in V : f[i] = k
    BY <1>1, <2>1, RanksNumber
  <2>3. QED
    BY <2>2
<1>7. \A i \in V : rank[i] = ViewPlace(x, s, i)
  <2>1. TAKE i \in V
  <2>2. {j \in V : j = i \/ <<j, i>> \in R} = {j \in V : j = i \/ Ahead(x, j, i)}
    BY <1>4
  <2>3. QED
    BY <2>2 DEF ViewPlace, V
<1> HIDE DEF rank
<1>8. /\ \A i \in V : ViewPlace(x, s, i) \in 1 .. Cardinality(V)
      /\ \A i, j \in V : ViewPlace(x, s, i) < ViewPlace(x, s, j) <=> Ahead(x, i, j)
      /\ \A i, j \in V : ViewPlace(x, s, i) = ViewPlace(x, s, j) => i = j
      /\ \A k \in 1 .. Cardinality(V) : \E i \in V : ViewPlace(x, s, i) = k
  <2>1. \A i \in V : ViewPlace(x, s, i) \in 1 .. Cardinality(V)
    BY <1>6, <1>7
  <2>2. \A i, j \in V : ViewPlace(x, s, i) < ViewPlace(x, s, j) <=> Ahead(x, i, j)
    <3>1. TAKE i, j \in V
    <3>2. rank[i] < rank[j] <=> <<i, j>> \in R
      BY <1>6
    <3>3. QED
      BY <1>4, <1>7, <3>2
  <2>3. \A i, j \in V : ViewPlace(x, s, i) = ViewPlace(x, s, j) => i = j
    BY <1>6, <1>7
  <2>4. \A k \in 1 .. Cardinality(V) : \E i \in V : ViewPlace(x, s, i) = k
    BY <1>6, <1>7
  <2>5. QED
    BY <2>1, <2>2, <2>3, <2>4
<1>9. \A k \in 1 .. Cardinality(V) :
        ViewChosen(x, s, k) \in V /\ ViewPlace(x, s, ViewChosen(x, s, k)) = k
  <2>1. TAKE k \in 1 .. Cardinality(V)
  <2>2. \E i \in V : ViewPlace(x, s, i) = k
    BY <1>8
  <2>3. ViewChosen(x, s, k) = CHOOSE i \in V : ViewPlace(x, s, i) = k
    BY DEF ViewChosen, V
  <2>4. QED
    BY <2>2, <2>3
<1>10. \A i \in V : ViewChosen(x, s, ViewPlace(x, s, i)) = i
  BY <1>8, <1>9
<1>11. \A k, l \in 1 .. Cardinality(V) : k < l => Ahead(x, ViewChosen(x, s, k), ViewChosen(x, s, l))
  <2>1. TAKE k, l \in 1 .. Cardinality(V)
  <2> DEFINE i == ViewChosen(x, s, k)
             j == ViewChosen(x, s, l)
  <2>2. i \in V /\ j \in V /\ ViewPlace(x, s, i) = k /\ ViewPlace(x, s, j) = l
    BY <1>9
  <2> HIDE DEF i, j
  <2>3. ViewPlace(x, s, i) < ViewPlace(x, s, j) <=> Ahead(x, i, j)
    BY <1>8, <2>2
  <2>4. QED
    BY <2>2, <2>3 DEF i, j
<1>12. Cardinality(V) \in Nat
  BY <1>1, FS_CardinalityType
<1>13. QED
  BY <1>1, <1>8, <1>10, <1>9, <1>11, <1>12 DEF V

\* The path is made of the views in the order of their places.
LEMMA PathIsChosen ==
  ASSUME NEW x, NEW s
  PROVE  SessionPath(x, s) =
           [k \in 1 .. Cardinality(ViewsAt(x, s)) |-> x[ViewChosen(x, s, k)].screen]
<1> DEFINE V == ViewsAt(x, s)
           key == [i \in V |-> Append(BySequence(x[i]), i)]
           order == InPlaces(V, key)
<1>1. SessionPath(x, s) = [k \in DOMAIN order |-> x[order[k]].screen]
  BY DEF SessionPath, ViewsAt
<1>2. \A i, j \in V : Precedes(key[j], key[i]) <=> Ahead(x, j, i)
  BY DEF Ahead
<1>3. order = [k \in 1 .. Cardinality(V) |->
                 CHOOSE i \in V : Cardinality({j \in V : j = i \/ Precedes(key[j], key[i])}) = k]
  BY DEF InPlaces
<1> HIDE DEF key, order
<1>4. \A i \in V : {j \in V : j = i \/ Precedes(key[j], key[i])} = {j \in V : j = i \/ Ahead(x, j, i)}
  BY <1>2
<1>5. \A i \in V : Cardinality({j \in V : j = i \/ Precedes(key[j], key[i])}) = ViewPlace(x, s, i)
  BY <1>4 DEF ViewPlace
<1>6. \A k : (CHOOSE i \in V : Cardinality({j \in V : j = i \/ Precedes(key[j], key[i])}) = k)
               = ViewChosen(x, s, k)
  BY <1>5 DEF ViewChosen
<1>7. order = [k \in 1 .. Cardinality(V) |-> ViewChosen(x, s, k)]
  BY <1>3, <1>6
<1>8. QED
  BY <1>1, <1>7

-----------------------------------------------------------------------------
\* The views of a session among some rows.
ViewRows(E, s) == {e \in E : /\ e.session = s /\ IsRaw(e)
                             /\ e.type = "screen_view" /\ e.screen # None}

\* Rows that visit the screens in their order.
RowsVisit(E, s, screens) ==
  \E g \in [DOMAIN screens -> ViewRows(E, s)] :
    /\ \A n \in DOMAIN screens : g[n].screen = screens[n]
    /\ \A m, n \in DOMAIN screens : m < n => Foregoes(g[m], g[n])

Distinct(screens) == \A m, n \in DOMAIN screens : screens[m] = screens[n] => m = n

\* A path visits different screens exactly when its rows do, however often
\* each of them was read and in whatever order.
LEMMA PathVisitsRows ==
  ASSUME NEW x, IsList(x), NEW s,
         \A e \in Elements(x) : IsRaw(e) => HasNumbers(e),
         \A d, e \in Elements(x) : d.id = e.id => d = e,
         NEW screens, Distinct(screens), DOMAIN screens \subseteq Nat
  PROVE  Visits(SessionPath(x, s), screens) <=> RowsVisit(Elements(x), s, screens)
<1> DEFINE V == ViewsAt(x, s)
           W == ViewRows(Elements(x), s)
           sel(k) == ViewChosen(x, s, k)
           pl(i) == ViewPlace(x, s, i)
           path == SessionPath(x, s)
           c == Cardinality(V)
<1>1. /\ \A i \in V : x[i] \in W
      /\ \A e \in W : \E i \in V : x[i] = e
      /\ V \subseteq DOMAIN x
  BY DEF ViewsAt, ViewRows, Elements
<1>2. \A i \in V : HasNumbers(x[i]) /\ x[i] \in Elements(x)
  BY <1>1 DEF ViewRows
<1>3. /\ V \subseteq Nat /\ c \in Nat
      /\ \A i \in V : pl(i) \in 1 .. c /\ sel(pl(i)) = i
      /\ \A k \in 1 .. c : sel(k) \in V
      /\ \A i, j \in V : pl(i) < pl(j) <=> Ahead(x, i, j)
      /\ \A k, l \in 1 .. c : k < l => Ahead(x, sel(k), sel(l))
  BY <1>2, ViewsNumbered
<1>4. path = [k \in 1 .. c |-> x[sel(k)].screen]
  BY PathIsChosen
<1> HIDE DEF V, W, sel, pl, path
<1>5. \A i, j \in V : Ahead(x, i, j) <=>
           \/ Foregoes(x[i], x[j])
           \/ x[i].seq = x[j].seq /\ x[i].at = x[j].at /\ x[i].id = x[j].id /\ i < j
  BY <1>2, <1>3, AheadMeans
<1> HIDE DEF c
<1>6. ASSUME Visits(path, screens) PROVE RowsVisit(Elements(x), s, screens)
  <2>1. PICK at \in [DOMAIN screens -> DOMAIN path] :
          /\ \A n \in DOMAIN screens : path[at[n]] = screens[n]
          /\ \A m, n \in DOMAIN screens : m < n => at[m] < at[n]
    BY <1>6 DEF Visits
  <2> DEFINE g == [n \in DOMAIN screens |-> x[sel(at[n])]]
  <2>2. \A n \in DOMAIN screens : at[n] \in 1 .. c /\ sel(at[n]) \in V
    BY <1>3, <1>4, <2>1
  <2>3. \A n \in DOMAIN screens : g[n] \in W /\ g[n] \in Elements(x) /\ g[n].screen = screens[n]
    BY <1>1, <1>2, <1>4, <2>1, <2>2
  <2>4. ASSUME NEW m \in DOMAIN screens, NEW n \in DOMAIN screens, m < n
        PROVE  Foregoes(g[m], g[n])
    <3>1. Ahead(x, sel(at[m]), sel(at[n]))
      BY <1>3, <2>1, <2>2, <2>4
    <3>2. screens[m] # screens[n]
      <4>1. m \in Nat /\ n \in Nat
        OBVIOUS
      <4>2. m # n
        BY <4>1, <2>4
      <4>3. QED
        BY <4>2 DEF Distinct
    <3>3. g[m] # g[n]
      BY <2>3, <3>2
    <3>4. g[m].id # g[n].id
      BY <2>3, <3>3
    <3>5. x[sel(at[m])].id # x[sel(at[n])].id
      BY <3>4
    <3>6. Foregoes(x[sel(at[m])], x[sel(at[n])])
      BY <1>5, <2>2, <3>1, <3>5
    <3>7. QED
      BY <3>6
  <2>5. g \in [DOMAIN screens -> W]
    BY <2>3
  <2> HIDE DEF g
  <2>6. QED
    BY <2>3, <2>4, <2>5 DEF RowsVisit, W
<1>7. ASSUME RowsVisit(Elements(x), s, screens) PROVE Visits(path, screens)
  <2>1. PICK g \in [DOMAIN screens -> W] :
          /\ \A n \in DOMAIN screens : g[n].screen = screens[n]
          /\ \A m, n \in DOMAIN screens : m < n => Foregoes(g[m], g[n])
    BY <1>7 DEF RowsVisit, W
  <2> DEFINE pos(e) == CHOOSE i \in V : x[i] = e
             at == [n \in DOMAIN screens |-> pl(pos(g[n]))]
  <2>2. \A e \in W : pos(e) \in V /\ x[pos(e)] = e
    BY <1>1
  <2> HIDE DEF pos
  <2>3. \A n \in DOMAIN screens : pos(g[n]) \in V /\ x[pos(g[n])] = g[n]
    BY <2>1, <2>2
  <2>4. DOMAIN path = 1 .. c
    BY <1>4
  <2>5. at \in [DOMAIN screens -> DOMAIN path]
    BY <1>3, <2>3, <2>4
  <2>6. \A n \in DOMAIN screens : path[at[n]] = screens[n]
    <3>1. TAKE n \in DOMAIN screens
    <3>2. at[n] \in 1 .. c /\ sel(at[n]) = pos(g[n])
      BY <1>3, <2>3
    <3>3. path[at[n]] = x[sel(at[n])].screen
      BY <1>4, <3>2
    <3>4. QED
      BY <2>1, <2>3, <3>2, <3>3
  <2>7. ASSUME NEW m \in DOMAIN screens, NEW n \in DOMAIN screens, m < n PROVE at[m] < at[n]
    <3>1. Foregoes(x[pos(g[m])], x[pos(g[n])])
      BY <2>1, <2>3, <2>7
    <3>2. Ahead(x, pos(g[m]), pos(g[n]))
      BY <1>5, <2>3, <3>1
    <3>3. QED
      BY <1>3, <2>3, <3>2
  <2> HIDE DEF at
  <2>8. QED
    BY <2>5, <2>6, <2>7 DEF Visits
<1>8. QED
  BY <1>6, <1>7 DEF path

\* The funnel depends on which rows were read, not on their order, and not on
\* how often.
LEMMA SameFunnel ==
  ASSUME NEW x, NEW y, IsList(x), IsList(y), Elements(x) = Elements(y),
         \A e \in Elements(x) : IsRaw(e) => HasNumbers(e),
         \A d, e \in Elements(x) : d.id = e.id => d = e
  PROVE  Funnel(x) = Funnel(y)
<1> DEFINE sessions(S) == {e.session : e \in S}
           halts(S) == \E e \in S : e.type \in {"session_technical_blocked", "task_technical_blocked"}
<1>1. \A z : SessionsOf(z) = sessions(Elements(z)) /\ (IsBlocked(z) <=> halts(Elements(z)))
  BY DEF SessionsOf, IsBlocked
<1> HIDE DEF sessions, halts
<1>2. SessionsOf(x) = SessionsOf(y)
  BY <1>1
<1>3. ASSUME NEW s PROVE IsBlocked(SessionRows(x, s)) <=> IsBlocked(SessionRows(y, s))
  <2>1. Elements(SessionRows(x, s)) = Elements(SessionRows(y, s))
    <3>1. Elements(SessionRows(x, s)) = {e \in Elements(x) : e.session = s}
      BY SessionElements
    <3>2. Elements(SessionRows(y, s)) = {e \in Elements(y) : e.session = s}
      BY SessionElements
    <3>3. QED
      BY <3>1, <3>2
  <2>2. QED
    BY <1>1, <2>1
<1>4. ASSUME NEW s
      PROVE  Progress(SessionPath(x, s), ScreenFunnel) = Progress(SessionPath(y, s), ScreenFunnel)
  <2>1. ScreenFunnel \in Seq(Screens) /\ Distinct(ScreenFunnel) /\ Len(ScreenFunnel) \in Nat
    BY ReadAssumption, LenProperties DEF Distinct
  <2>2. ASSUME NEW z, IsList(z), Elements(z) = Elements(x)
        PROVE  DOMAIN SessionPath(z, s) = 1 .. Len(SessionPath(z, s)) /\ Len(SessionPath(z, s)) \in Nat
    <3> DEFINE c == Cardinality(ViewsAt(z, s))
               path == SessionPath(z, s)
    <3>1. \A i \in ViewsAt(z, s) : HasNumbers(z[i])
      BY <2>2 DEF ViewsAt, Elements
    <3>2. c \in Nat
      BY <2>2, <3>1, ViewsNumbered
    <3>3. path = [k \in 1 .. c |-> path[k]]
      BY PathIsChosen
    <3> HIDE DEF c, path
    <3>4. DOMAIN path = 1 .. Len(path) /\ Len(path) \in Nat
      BY <3>2, <3>3
    <3>5. QED
      BY <3>4 DEF path
  <2>3. ASSUME NEW n \in 0 .. Len(ScreenFunnel)
        PROVE  Visits(SessionPath(x, s), SubSeq(ScreenFunnel, 1, n))
                 <=> Visits(SessionPath(y, s), SubSeq(ScreenFunnel, 1, n))
    <3> DEFINE screens == SubSeq(ScreenFunnel, 1, n)
    <3>1. DOMAIN screens = 1 .. n /\ \A i \in 1 .. n : screens[i] = ScreenFunnel[i]
      BY <2>1
    <3>2. DOMAIN ScreenFunnel = 1 .. Len(ScreenFunnel)
      BY <2>1, LenProperties
    <3> HIDE DEF screens
    <3>3. Distinct(screens) /\ DOMAIN screens \subseteq Nat
      BY <2>1, <3>1, <3>2 DEF Distinct
    <3>4. Visits(SessionPath(x, s), screens) <=> RowsVisit(Elements(x), s, screens)
      BY <3>3, PathVisitsRows
    <3>5. Visits(SessionPath(y, s), screens) <=> RowsVisit(Elements(y), s, screens)
      BY <3>3, PathVisitsRows
    <3>6. QED
      BY <3>4, <3>5 DEF screens
  <2> DEFINE longest(path) ==
               Max({n \in 0 .. Len(ScreenFunnel) : Visits(path, SubSeq(ScreenFunnel, 1, n))})
  <2>4. longest(SessionPath(x, s)) = longest(SessionPath(y, s))
    <3>1. {n \in 0 .. Len(ScreenFunnel) : Visits(SessionPath(x, s), SubSeq(ScreenFunnel, 1, n))}
            = {n \in 0 .. Len(ScreenFunnel) : Visits(SessionPath(y, s), SubSeq(ScreenFunnel, 1, n))}
      BY <2>3
    <3>2. QED
      BY <3>1
  <2>5. Progress(SessionPath(x, s), ScreenFunnel) = longest(SessionPath(x, s))
    BY <2>1, <2>2, ProgressIsLongest
  <2>6. Progress(SessionPath(y, s), ScreenFunnel) = longest(SessionPath(y, s))
    BY <2>1, <2>2, ProgressIsLongest
  <2>7. QED
    BY <2>4, <2>5, <2>6
<1>5. QED
  <2> DEFINE blocked(z) == {s \in SessionsOf(z) : IsBlocked(SessionRows(z, s))}
             counted(z) == SessionsOf(z) \ blocked(z)
             progress(z) == [s \in counted(z) |-> Progress(SessionPath(z, s), ScreenFunnel)]
  <2>1. blocked(x) = blocked(y)
    BY <1>2, <1>3
  <2>2. counted(x) = counted(y)
    BY <1>2, <2>1
  <2>3. progress(x) = progress(y)
    BY <1>4, <2>2
  <2>4. Funnel(x) = FunnelOf(counted(x), blocked(x), progress(x))
    BY DEF Funnel
  <2>5. Funnel(y) = FunnelOf(counted(y), blocked(y), progress(y))
    BY DEF Funnel
  <2> HIDE DEF blocked, counted, progress
  <2>6. QED
    BY <2>1, <2>2, <2>3, <2>4, <2>5

\* A row that two pages returned counts once, in every metric and in the
\* funnel: the numbers are those of the rows of the table that were read.
THEOREM RepeatsAreNotCounted == ReadSpec => []RepeatsDoNotCount
<1>1. ReadInvariant /\ EvidenceInv => RepeatsDoNotCount
  <2> SUFFICES ASSUME ReadInvariant, EvidenceInv, reader.step = "done", ~scenario.purging
               PROVE  Numbers(Result) =
                        Numbers(KeepAt(Table, {k \in DOMAIN Table : Table[k] \in Elements(Result)}))
    BY DEF RepeatsDoNotCount
  <2> DEFINE S == {k \in DOMAIN Table : Table[k] \in Elements(Result)}
             once == KeepAt(Table, S)
  <2>1. IsList(Result) /\ Elements(Result) \subseteq Elements(rows)
    BY DEF ReadInvariant, ReaderInv, NothingSkipped, Result
  <2>2. /\ IsList(Table) /\ Elements(Table) = Elements(rows)
        /\ \A d, e \in Elements(rows) : d.id = e.id => d = e
    BY TableElements DEF ReadInvariant
  <2>3. IsList(once) /\ Elements(once) = Elements(Result)
    <3>1. S \in SUBSET DOMAIN Table
      OBVIOUS
    <3>2. {Table[k] : k \in S} = Elements(Result)
      <4>1. \A e \in Elements(Result) : \E k \in DOMAIN Table : Table[k] = e
        BY <2>1, <2>2 DEF Elements
      <4>2. QED
        BY <4>1
    <3> HIDE DEF S
    <3>3. IsList(KeepAt(Table, S)) /\ Elements(KeepAt(Table, S)) = {Table[k] : k \in S}
      BY <2>2, <3>1, ElementsOfKept
    <3>4. QED
      BY <3>2, <3>3
  <2>4. \A e \in Elements(Result) : IsRaw(e) => HasNumbers(e)
    <3>1. \A e \in Elements(rows) : e.id \in Nat /\ e.at \in Nat /\ e.session \in Sessions
      BY DEF ReadInvariant, TablesInv, IsTable, Elements
    <3>2. \A e \in Elements(rows) : IsRaw(e) => e.seq \in 1 .. count[e.session]
      BY DEF EvidenceInv, InSequence
    <3>3. \A p \in Sessions : count[p] \in Nat
      BY DEF ReadInvariant, TablesInv
    <3>4. QED
      BY <2>1, <3>1, <3>2, <3>3 DEF HasNumbers
  <2>5. \A d, e \in Elements(Result) : d.id = e.id => d = e
    BY <2>1, <2>2
  <2> HIDE DEF once, S
  <2>6. Analytics(Result) = Analytics(once)
    BY <2>1, <2>3, <2>5, ReorderedAnalytics
  <2>7. Funnel(Result) = Funnel(once)
    BY <2>1, <2>3, <2>4, <2>5, SameFunnel
  <2>8. Numbers(Result) = Numbers(once)
    BY <2>6, <2>7 DEF Numbers
  <2>9. QED
    BY <2>8 DEF once, S
<1>2. QED
  BY <1>1, ReadInvariantHolds, EvidenceHolds, PTL

-----------------------------------------------------------------------------
(* What the views are made of. *)

\* Unless a clock was set back, the rows of a session come in the order of time.
Forward ==
  scenario.clocksStep \/ \A e \in Elements(rows) :
    /\ e.at <= clock[e.session]
    /\ \A d \in Elements(rows) : d.session = e.session /\ d.id < e.id => d.at <= e.at

\* A misclick was derived from a pointer event, and no two from the same one.
Misclick(e) == ~IsRaw(e) /\ e.type = "misclick"
Misclicks ==
  \A e \in Elements(rows) : Misclick(e) =>
    /\ \E r \in Elements(rows) : From(e, r) /\ r.type = "pointer_interaction"
    /\ \A d \in Elements(rows) : Misclick(d) /\ d.from = e.from => d = e

\* Rows belong to sessions that are there; a session that has ended was ended
\* by one event, and its status says by which.
Ends(e) == IsRaw(e) /\ e.type \in DOMAIN SessionEnd
Endings ==
  /\ \A e \in Elements(rows) : session[e.session] \notin {"none", "purged"}
  /\ \A e \in Elements(rows) : Ends(e) =>
       /\ session[e.session] = SessionEnd[e.type]
       /\ \A d \in Elements(rows) : Ends(d) /\ d.session = e.session => d = e
  /\ \A s \in Sessions : session[s] \notin {"none", "active", "purged"} =>
       \E e \in Elements(rows) : Ends(e) /\ e.session = s

Outcomes == \A e \in Elements(rows) : OutcomeOf(e) \in TaskOutcomes \cup {None}

StoryInv == Forward /\ Misclicks /\ Endings /\ Outcomes

\* Storing an event of an active session.
LEMMA StoreStory ==
  ASSUME TablesInv, EvidenceInv, StoryInv,
         NEW s \in Sessions, session[s] = "active", NEW t, NEW signal, NEW at \in Times(s),
         Store(s, t, signal, at), UNCHANGED scenario
  PROVE  StoryInv'
<1>1. PICK e, derived, first : Written(s, t, signal, at, e, derived, first)
  BY StoreWrites
<1> DEFINE old == Elements(rows)
           new == Elements(derived)
           all == Elements(rows')
<1>2. /\ at \in Nat /\ nextId \in Nat
      /\ \A d \in old : d.id \in 1 .. (nextId - 1) /\ d.session \in Sessions
      /\ all = old \cup {e} \cup new
      /\ \A d \in new : /\ d.session = s /\ d.task = t /\ d.at = at
                        /\ d.from = {e.id} /\ ~IsRaw(d) /\ e.id < d.id
  BY <1>1, WrittenRows
<1>3. /\ e.id = nextId /\ e.session = s /\ e.task = t /\ e.at = at /\ IsRaw(e)
      /\ \A i \in DOMAIN derived : OutcomeOf(derived[i]) \in TaskOutcomes \cup {None}
      /\ ClickedOnce(derived, e.type = "pointer_interaction")
      /\ clock' = [clock EXCEPT ![s] = at]
      /\ session' = IF EndsSession(session[s], e)
                    THEN [session EXCEPT ![s] = SessionEnd[e.type]] ELSE session
  BY <1>1 DEF Written, Commit
<1>4. clock \in [Sessions -> 0 .. scenario.maxAt] /\ session \in [Sessions -> Statuses]
      /\ scenario.maxAt \in Nat
  BY ReadAssumption DEF TablesInv
<1>5. \A d \in all : d.id \in Nat
  <2>1. IsTable(rows', nextId')
    BY StoreFacts
  <2>2. QED
    BY <2>1 DEF IsTable, Elements
<1> HIDE DEF old, new, all
<1>6. Forward'
  <2>1. CASE scenario.clocksStep
    BY <2>1 DEF Forward
  <2>2. CASE ~scenario.clocksStep
    <3>1. \A c \in old : /\ c.at <= clock[c.session] /\ c.at \in Nat
                         /\ \A d \in old : d.session = c.session /\ d.id < c.id => d.at <= c.at
      BY <2>2 DEF StoryInv, Forward, TablesInv, IsTable, Elements, old
    <3>2. clock[s] <= at /\ clock[s] \in Nat
      BY <1>4, <2>2 DEF Times
    <3>3. \A p \in Sessions : clock'[p] = IF p = s THEN at ELSE clock[p]
      BY <1>3, <1>4
    <3>4. \A c \in old : c.session = s => c.at <= at
      BY <1>2, <3>1, <3>2
    <3>5. \A c \in all : c.at <= clock'[c.session]
      BY <1>2, <1>3, <3>1, <3>3, <3>4
    <3>6. \A c, d \in all : d.session = c.session /\ d.id < c.id => d.at <= c.at
      <4>1. TAKE c, d \in all
      <4>2. HAVE d.session = c.session /\ d.id < c.id
      <4>3. CASE c \in old
        <5>1. d \in old
          BY <1>2, <1>3, <1>5, <4>2, <4>3
        <5>2. QED
          BY <3>1, <4>2, <4>3, <5>1
      <4>4. CASE c \notin old
        <5>1. c.session = s /\ c.at = at
          BY <1>2, <1>3, <4>4
        <5>2. d \in old \/ d.at = at
          BY <1>2, <1>3
        <5>3. QED
          BY <1>2, <3>4, <4>2, <5>1, <5>2
      <4>5. QED
        BY <4>3, <4>4
    <3>7. QED
      BY <3>5, <3>6 DEF Forward, all
  <2>3. QED
    BY <2>1, <2>2
<1>7. Misclicks'
  <2>1. \A c \in old : Misclick(c) =>
          /\ \E r \in old : From(c, r) /\ r.type = "pointer_interaction"
          /\ \A d \in old : Misclick(d) /\ d.from = c.from => d = c
    BY DEF StoryInv, Misclicks, old
  <2>2. \A c \in old : Misclick(c) => c.from # {e.id}
    <3>1. ASSUME NEW c \in old, Misclick(c) PROVE c.from # {e.id}
      <4>1. PICK r \in old : From(c, r)
        BY <2>1, <3>1
      <4>2. r.id # e.id
        BY <1>2, <1>3
      <4>3. QED
        BY <4>1, <4>2 DEF From
    <3>2. QED
      BY <3>1
  <2>3. \A c \in new : Misclick(c) => /\ From(c, e) /\ e.type = "pointer_interaction"
                                      /\ \A d \in new : Misclick(d) => d = c
    BY <1>2, <1>3 DEF ClickedOnce, Misclick, From, Elements, new
  <2>4. ~Misclick(e)
    BY <1>3 DEF Misclick
  <2>5. \A c \in all : Misclick(c) => c \in old \/ c \in new
    BY <1>2, <2>4
  <2>6. ASSUME NEW c \in all, Misclick(c)
        PROVE  /\ \E r \in all : From(c, r) /\ r.type = "pointer_interaction"
               /\ \A d \in all : Misclick(d) /\ d.from = c.from => d = c
    <3>1. CASE c \in old
      <4>1. \A d \in new : d.from = {e.id}
        BY <1>2
      <4>2. QED
        BY <1>2, <2>1, <2>2, <2>5, <2>6, <3>1, <4>1
    <3>2. CASE c \in new
      <4>1. c.from = {e.id}
        BY <1>2, <3>2
      <4>2. QED
        BY <1>2, <2>2, <2>3, <2>5, <2>6, <3>2, <4>1
    <3>3. QED
      BY <2>5, <2>6, <3>1, <3>2
  <2>7. QED
    BY <2>6 DEF Misclicks, all
<1>8. Endings'
  <2>1. /\ \A c \in old : session[c.session] \notin {"none", "purged"}
        /\ \A c \in old : Ends(c) =>
             /\ session[c.session] = SessionEnd[c.type]
             /\ \A d \in old : Ends(d) /\ d.session = c.session => d = c
        /\ \A p \in Sessions : session[p] \notin {"none", "active", "purged"} =>
             \E c \in old : Ends(c) /\ c.session = p
    BY DEF StoryInv, Endings, old
  <2>2. \A c : Ends(c) => SessionEnd[c.type] \notin {"none", "active", "purged"}
    BY DEF Ends, SessionEnd
  <2>3. \A p \in Sessions : session'[p] = IF p = s /\ Ends(e) THEN SessionEnd[e.type] ELSE session[p]
    BY <1>3, <1>4 DEF EndsSession, Ends
  <2>4. \A c \in old : Ends(c) => c.session # s
    BY <2>1, <2>2
  <2>5. \A c \in new : ~Ends(c)
    BY <1>2 DEF Ends
  <2>6. \A c \in all : c.session \in Sessions /\ session'[c.session] \notin {"none", "purged"}
    BY <1>2, <1>3, <2>1, <2>2, <2>3
  <2>7. ASSUME NEW c \in all, Ends(c)
        PROVE  /\ session'[c.session] = SessionEnd[c.type]
               /\ \A d \in all : Ends(d) /\ d.session = c.session => d = c
    <3>1. \A d \in all : Ends(d) => d \in old \/ d = e
      BY <1>2, <2>5
    <3>2. QED
      BY <1>2, <1>3, <2>1, <2>3, <2>4, <2>7, <3>1
  <2>8. ASSUME NEW p \in Sessions, session'[p] \notin {"none", "active", "purged"}
        PROVE  \E c \in all : Ends(c) /\ c.session = p
    <3>1. CASE p = s /\ Ends(e)
      BY <1>2, <1>3, <3>1
    <3>2. CASE ~(p = s /\ Ends(e))
      BY <1>2, <2>1, <2>3, <2>8, <3>2
    <3>3. QED
      BY <3>1, <3>2
  <2>9. QED
    BY <2>6, <2>7, <2>8 DEF Endings, all
<1>9. Outcomes'
  <2>1. OutcomeOf(e) \in TaskOutcomes \cup {None}
    BY <1>3 DEF OutcomeOf, RawTerminal, TaskOutcomes
  <2>2. \A d \in new : OutcomeOf(d) \in TaskOutcomes \cup {None}
    BY <1>3 DEF new, Elements
  <2>3. \A d \in old : OutcomeOf(d) \in TaskOutcomes \cup {None}
    BY DEF StoryInv, Outcomes, old
  <2>4. QED
    BY <1>2, <2>1, <2>2, <2>3 DEF Outcomes, all
<1>10. QED
  BY <1>6, <1>7, <1>8, <1>9 DEF StoryInv

\* A purge takes the rows of one session out.
LEMMA PurgeStory ==
  ASSUME TablesInv, StoryInv, NEW s \in Sessions, Purge(s)
  PROVE  StoryInv'
<1> DEFINE old == Elements(rows)
           all == Elements(rows')
<1>1. /\ session' = [session EXCEPT ![s] = "purged"] /\ session \in [Sessions -> Statuses]
      /\ UNCHANGED <<scenario, clock>>
      /\ rows' = KeepAt(rows, {i \in DOMAIN rows : rows[i].session # s})
  BY DEF Purge, writer, TablesInv
<1>2. all = {d \in old : d.session # s}
  <2> DEFINE kept == {i \in DOMAIN rows : rows[i].session # s}
  <2>1. kept \in SUBSET DOMAIN rows /\ IsList(rows)
    BY DEF TablesInv, IsTable
  <2>2. {rows[i] : i \in kept} = {d \in old : d.session # s}
    BY DEF Elements
  <2> HIDE DEF kept
  <2>3. Elements(KeepAt(rows, kept)) = {rows[i] : i \in kept}
    BY <2>1, ElementsOfKept
  <2>4. QED
    BY <1>1, <2>2, <2>3 DEF kept
<1>3. \A d \in old : d.session \in Sessions
  BY DEF TablesInv, IsTable, Elements
<1> HIDE DEF old, all
<1>4. Forward'
  <2>1. scenario.clocksStep \/ \A c \in old :
          /\ c.at <= clock[c.session]
          /\ \A d \in old : d.session = c.session /\ d.id < c.id => d.at <= c.at
    BY DEF StoryInv, Forward, old
  <2>2. QED
    BY <1>1, <1>2, <2>1 DEF Forward, all
<1>5. Misclicks'
  <2>1. \A c \in old : Misclick(c) =>
          /\ \E r \in old : From(c, r) /\ r.type = "pointer_interaction"
          /\ \A d \in old : Misclick(d) /\ d.from = c.from => d = c
    BY DEF StoryInv, Misclicks, old
  <2>2. \A c \in all, r \in old : From(c, r) => r \in all
    BY <1>2 DEF From
  <2>3. QED
    BY <1>2, <2>1, <2>2 DEF Misclicks, all
<1>6. Endings'
  <2>1. /\ \A c \in old : session[c.session] \notin {"none", "purged"}
        /\ \A c \in old : Ends(c) =>
             /\ session[c.session] = SessionEnd[c.type]
             /\ \A d \in old : Ends(d) /\ d.session = c.session => d = c
        /\ \A p \in Sessions : session[p] \notin {"none", "active", "purged"} =>
             \E c \in old : Ends(c) /\ c.session = p
    BY DEF StoryInv, Endings, old
  <2>2. session'[s] = "purged" /\ \A p \in Sessions : p # s => session'[p] = session[p]
    BY <1>1
  <2>3. QED
    BY <1>2, <1>3, <2>1, <2>2 DEF Endings, all
<1>7. Outcomes'
  BY <1>2 DEF StoryInv, Outcomes, old, all
<1>8. QED
  BY <1>4, <1>5, <1>6, <1>7 DEF StoryInv

\* What leaves rows, clocks and the ends of sessions alone.
LEMMA StoryAlone ==
  ASSUME TablesInv, StoryInv, UNCHANGED <<scenario, rows, clock>>,
         \/ UNCHANGED session
         \/ \E s \in Sessions : session[s] = "none" /\ session' = [session EXCEPT ![s] = "active"]
  PROVE  StoryInv'
<1>1. Elements(rows)' = Elements(rows)
  BY DEF Elements
<1>2. session \in [Sessions -> Statuses] /\ \A e \in Elements(rows) : e.session \in Sessions
  BY DEF TablesInv, IsTable, Elements
<1>3. Forward' /\ Misclicks' /\ Outcomes'
  BY <1>1 DEF StoryInv, Forward, Misclicks, Outcomes
<1>4. CASE UNCHANGED session
  BY <1>1, <1>3, <1>4 DEF StoryInv, Endings
<1>5. ASSUME NEW s \in Sessions, session[s] = "none", session' = [session EXCEPT ![s] = "active"]
      PROVE  StoryInv'
  <2>1. session'[s] = "active" /\ \A p \in Sessions : p # s => session'[p] = session[p]
    BY <1>2, <1>5
  <2>2. \A e \in Elements(rows) : e.session # s
    BY <1>5 DEF StoryInv, Endings
  <2>3. Endings'
    BY <1>1, <1>2, <2>1, <2>2 DEF StoryInv, Endings
  <2>4. QED
    BY <1>3, <2>3 DEF StoryInv
<1>6. QED
  BY <1>4, <1>5

\* Every step keeps it.
LEMMA StoryNextStep ==
  ReadInvariant /\ EvidenceInv /\ StoryInv /\ [ReadNext]_readVars => StoryInv'
<1> SUFFICES ASSUME ReadInvariant, EvidenceInv, StoryInv, [ReadNext]_readVars PROVE StoryInv'
  OBVIOUS
<1>1. TablesInv
  BY DEF ReadInvariant
<1>2. \A s \in Sessions : place[s] # None => session[s] = "active"
  BY DEF EvidenceInv, InOrder
<1>3. ASSUME NEW s \in Sessions, Write(s) PROVE StoryInv'
  <2>1. CASE Enter(s)
    BY <1>1, <2>1, StoryAlone DEF Enter, writer
  <2>2. CASE StartSession(s)
    <3>1. session[s] = "active" /\ UNCHANGED scenario
      BY <2>2 DEF StartSession
    <3>2. PICK at \in Times(s) : Store(s, None, Plain("session_started"), at)
      BY <2>2 DEF StartSession
    <3>3. QED
      BY <1>1, <3>1, <3>2, StoreStory
  <2>3. CASE StartTask(s)
    <3>1. session[s] = "active" /\ UNCHANGED scenario
      BY <2>3 DEF StartTask
    <3>2. PICK t \in toDo[s], at \in Times(s) : Store(s, t, Plain("task_started"), at)
      BY <2>3 DEF StartTask
    <3>3. QED
      BY <1>1, <3>1, <3>2, StoreStory
  <2>4. CASE Act(s)
    <3>1. session[s] = "active" /\ UNCHANGED scenario
      BY <1>2, <2>4 DEF Act
    <3>2. PICK signal \in scenario.signals, at \in Times(s) : Store(s, place[s], signal, at)
      BY <2>4 DEF Act
    <3>3. QED
      BY <1>1, <3>1, <3>2, StoreStory
  <2>5. CASE EndTask(s)
    <3>1. session[s] = "active" /\ UNCHANGED scenario
      BY <1>2, <2>5 DEF EndTask
    <3>2. PICK type \in DOMAIN RawTerminal, at \in Times(s) : Store(s, place[s], Plain(type), at)
      BY <2>5 DEF EndTask
    <3>3. QED
      BY <1>1, <3>1, <3>2, StoreStory
  <2>6. CASE Continue(s)
    BY <1>1, <2>6, StoryAlone DEF Continue, tables
  <2>7. CASE Answer(s)
    BY <1>1, <2>7, StoryAlone DEF Answer, writer
  <2>8. CASE EndSession(s)
    <3>1. session[s] = "active" /\ UNCHANGED scenario
      BY <2>8 DEF EndSession
    <3>2. PICK at \in Times(s) : Store(s, None, Plain("session_completed"), at)
      BY <2>8 DEF EndSession
    <3>3. QED
      BY <1>1, <3>1, <3>2, StoreStory
  <2>9. CASE Purge(s)
    BY <1>1, <2>9, PurgeStory
  <2>10. QED
    BY <1>3, <2>1, <2>2, <2>3, <2>4, <2>5, <2>6, <2>7, <2>8, <2>9 DEF Write
<1>4. CASE Read
  BY <1>1, <1>4, StoryAlone DEF Read, Open, ReadEvents, ReadSessions, ReadAnswers, tables, writer
<1>5. CASE UNCHANGED readVars
  BY <1>1, <1>5, StoryAlone DEF readVars, tables, writer
<1>6. QED
  BY <1>3, <1>4, <1>5 DEF ReadNext

\* Initially there are no rows, and no session has ended.
LEMMA NoStory == ReadInit => StoryInv
<1> SUFFICES ASSUME ReadInit PROVE StoryInv
  OBVIOUS
<1>1. Elements(rows) = {} /\ \A s \in Sessions : session[s] = "none"
  BY DEF ReadInit, Elements
<1>2. QED
  BY <1>1 DEF StoryInv, Forward, Misclicks, Endings, Outcomes

\* The rows keep to the order of time, to what they were derived from and to
\* the ends of their sessions.
THEOREM StoryHolds == ReadSpec => []StoryInv
<1>1. ReadInvariant /\ EvidenceInv /\ StoryInv /\ [ReadNext]_readVars => StoryInv'
  BY StoryNextStep
<1>2. QED
  BY <1>1, NoStory, ReadInvariantHolds, EvidenceHolds, PTL DEF ReadSpec

-----------------------------------------------------------------------------
(* The views agree on the outcomes and the times of an attempt. *)

\* An attempt that rows tell of.
LEMMA AttemptsOfTasks ==
  ASSUME TablesInv, EvidenceInv, NEW x, Elements(x) \subseteq Elements(rows), NEW a \in Attempts(x)
  PROVE  a \in Sessions \X Tasks /\ a = <<a[1], a[2]>>
<1>1. \A e \in Elements(rows) : e.session \in Sessions /\ e.task \in Tasks \cup {None}
  BY DEF TablesInv, IsTable, Elements, EvidenceInv, Evidenced
<1>2. QED
  BY <1>1 DEF Attempts

\* The rows of an attempt have their sources among them.
LEMMA AttemptHasSources ==
  ASSUME NEW a, NEW x, Elements(x) = RowsOf(a)
  PROVE  WithSources(x)
  BY DEF WithSources, RowsOf, From

\* What is said of the row that decides an attempt is in task_sessions.
LEMMA DeciderTells ==
  ASSUME NEW a, NEW F, OnlyDecider(F, a)
  PROVE  IfAny(F, OutcomeOf) = task[a].outcome
<1>1. CASE task[a].outcome = None
  BY <1>1 DEF OnlyDecider, IfAny
<1>2. CASE task[a].outcome # None
  <2>1. PICK e : F = {e} /\ Decides(e, task[a], RowsOf(a))
    BY <1>2 DEF OnlyDecider
  <2>2. IfAny(F, OutcomeOf) = OutcomeOf(e)
    BY <2>1 DEF IfAny
  <2>3. QED
    BY <2>1, <2>2 DEF Decides
<1>3. QED
  BY <1>1, <1>2

\* The looser anchor finds the same.
LEMMA LooseDecides ==
  ASSUME TablesInv, EvidenceInv, NEW x, WithSources(x), NEW a \in Sessions \X Tasks,
         RowsOf(a) \subseteq Elements(x),
         NEW T, T = {d \in RowsOf(a) : OutcomeOf(d) # None}
  PROVE  DecidedBy(x, T) = task[a].outcome
<1> DEFINE F == Foremost(T, LAMBDA e : <<LooseAnchor(x, e), e.at, e.id>>)
<1>1. \A d \in T : LooseAnchor(x, d) = Anchor(x, d)
  BY AnchorFacts DEF EvidenceInv
<1>2. F = FirstByAnchor(x, T)
  BY <1>1 DEF Foremost, FirstByAnchor, ByAnchor
<1>3. OnlyDecider(FirstByAnchor(x, T), a)
  BY FirstIsDecider
<1> HIDE DEF F
<1>4. IfAny(F, OutcomeOf) = task[a].outcome
  BY <1>2, <1>3, DeciderTells
<1>5. QED
  BY <1>4 DEF DecidedBy, F

\* The aggregation, of all the rows in whatever order, finds the decider.
LEMMA InstanceTold ==
  ASSUME TablesInv, EvidenceInv, NEW x, IsList(x), Elements(x) = Elements(rows),
         NEW a \in Sessions \X Tasks
  PROVE  /\ WithSources(x) /\ IsList(AttemptRows(x, a[1], a[2]))
         /\ Elements(AttemptRows(x, a[1], a[2])) = RowsOf(a)
         /\ OnlyDecider(Terminal(x, AttemptRows(x, a[1], a[2])), a)
<1> DEFINE attempt == AttemptRows(x, a[1], a[2])
<1>1. WithSources(x)
  BY DEF WithSources
<1>2. Elements(attempt) = RowsOf(a) /\ RowsOf(a) \subseteq Elements(x) /\ IsList(attempt)
  BY AttemptElements DEF RowsOf
<1> HIDE DEF attempt
<1>3. OnlyDecider(Terminal(x, attempt), a)
  BY <1>1, <1>2, TerminalDecides
<1>4. QED
  BY <1>1, <1>2, <1>3 DEF attempt

\* The projection, the aggregation, the paths and the heatmap agree.
LEMMA AgreeOnOutcomes ==
  ASSUME TablesInv, EvidenceInv
  PROVE  OutcomesAgree
<1> SUFFICES ASSUME NEW a \in Attempts(rows)
             PROVE  LET o == Instance(rows, a[1], a[2]).outcome
                    IN  /\ OutcomeForTask(AttemptRows(rows, a[1], a[2])) = o
                        /\ HeatmapOutcome(rows, a[1], a[2]) = o
                        /\ task[a].outcome = o
  BY DEF OutcomesAgree
<1> DEFINE attempt == AttemptRows(rows, a[1], a[2])
           T == TerminalRows(attempt)
<1>1. a \in Sessions \X Tasks
  BY AttemptsOfTasks
<1>2. IsList(rows)
  BY DEF TablesInv, IsTable
<1>3. /\ WithSources(rows) /\ IsList(attempt) /\ Elements(attempt) = RowsOf(a)
      /\ OnlyDecider(Terminal(rows, attempt), a)
  BY <1>1, <1>2, InstanceTold
<1>4. T = {d \in RowsOf(a) : OutcomeOf(d) # None}
  BY <1>3 DEF TerminalRows
<1>5. Instance(rows, a[1], a[2]).outcome = task[a].outcome
  <2>1. Instance(rows, a[1], a[2]).outcome = IfAny(Terminal(rows, attempt), OutcomeOf)
    BY DEF Instance, InstanceOf
  <2>2. IfAny(Terminal(rows, attempt), OutcomeOf) = task[a].outcome
    BY <1>3, DeciderTells
  <2>3. QED
    BY <2>1, <2>2
<1> HIDE DEF attempt, T
<1>6. HeatmapOutcome(rows, a[1], a[2]) = task[a].outcome
  <2>1. HeatmapOutcome(rows, a[1], a[2]) = DecidedBy(rows, T)
    BY DEF HeatmapOutcome, T, attempt
  <2>2. RowsOf(a) \subseteq Elements(rows)
    BY DEF RowsOf
  <2>3. DecidedBy(rows, T) = task[a].outcome
    BY <1>1, <1>3, <1>4, <2>2, LooseDecides
  <2>4. QED
    BY <2>1, <2>3
<1>7. OutcomeForTask(attempt) = task[a].outcome
  <2>1. WithSources(attempt)
    BY <1>3, AttemptHasSources
  <2>2. \A d \in Elements(attempt) : IsRaw(d) \/ Resolves(attempt, d)
    BY <2>1, AnchorFacts DEF EvidenceInv
  <2>3. {d \in TerminalRows(attempt) : IsRaw(d) \/ Resolves(attempt, d)} = T
    BY <2>2 DEF T, TerminalRows
  <2>4. DecidedBy(attempt, T) = task[a].outcome
    BY <1>1, <1>3, <1>4, <2>1, LooseDecides
  <2>5. QED
    BY <2>3, <2>4 DEF OutcomeForTask
<1>8. QED
  BY <1>5, <1>6, <1>7 DEF attempt

\* Pairs of numbers, compared.
LEMMA TwoPrecede ==
  ASSUME NEW a \in Nat, NEW b \in Nat, NEW c \in Nat, NEW d \in Nat
  PROVE  Precedes(<<a, b>>, <<c, d>>) <=> a < c \/ (a = c /\ b < d)
<1> DEFINE x == <<a, b>>
           y == <<c, d>>
           Q(k) == x[k] < y[k] /\ \A j \in 1 .. (k - 1) : x[j] = y[j]
<1>1. DOMAIN x = {1, 2} /\ x[1] = a /\ x[2] = b /\ y[1] = c /\ y[2] = d
  OBVIOUS
<1> HIDE DEF x, y
<1>2. Precedes(x, y) <=> \E k \in {1, 2} : Q(k)
  BY <1>1 DEF Precedes
<1>3. 1 .. (1 - 1) = {} /\ 1 .. (2 - 1) = {1}
  OBVIOUS
<1>4. Q(1) <=> a < c
  BY <1>1, <1>3
<1>5. Q(2) <=> (a = c /\ b < d)
  BY <1>1, <1>3
<1> HIDE DEF Q
<1>6. Precedes(x, y) <=> Q(1) \/ Q(2)
  BY <1>2
<1>7. QED
  BY <1>4, <1>5, <1>6 DEF x, y

\* As long as clocks go forward, the earliest terminal evidence is the one that
\* decided, so that the task took as long by either rule.
LEMMA AgreeOnDurations ==
  ASSUME TablesInv, EvidenceInv, StoryInv, ~scenario.clocksStep
  PROVE  DurationsAgree
<1> SUFFICES ASSUME NEW a \in Attempts(rows)
             PROVE  TimeMetrics(rows, a[1], a[2]).timeOnTask = Instance(rows, a[1], a[2]).duration
  BY DEF DurationsAgree
<1> DEFINE attempt == AttemptRows(rows, a[1], a[2])
           started == FirstOf(attempt, {"task_started"})
           T == TerminalRows(attempt)
           end == Foremost(T, LAMBDA e : <<e.at, e.id>>)
<1>1. a \in Sessions \X Tasks
  BY AttemptsOfTasks
<1>2. IsList(rows)
  BY DEF TablesInv, IsTable
<1>3. Elements(attempt) = RowsOf(a) /\ OnlyDecider(Terminal(rows, attempt), a)
  BY <1>1, <1>2, InstanceTold
<1>4. T = {d \in RowsOf(a) : OutcomeOf(d) # None}
  BY <1>3 DEF TerminalRows
<1>5. TimeMetrics(rows, a[1], a[2]).timeOnTask = Lasted(started, end)
  BY DEF TimeMetrics
<1>6. Instance(rows, a[1], a[2]).duration = Lasted(started, Terminal(rows, attempt))
  BY DEF Instance, InstanceOf
<1>7. end = {e \in T : \A d \in T : d = e \/ Precedes(<<e.at, e.id>>, <<d.at, d.id>>)}
  BY DEF Foremost
<1> HIDE DEF attempt, started, T, end
<1>8. end = Terminal(rows, attempt)
  <2>1. CASE task[a].outcome = None
    <3>1. T = {}
      BY <1>1, <1>4, <2>1 DEF EvidenceInv, AttemptsTold, Tells
    <3>2. QED
      BY <1>3, <1>7, <2>1, <3>1 DEF OnlyDecider
  <2>2. CASE task[a].outcome # None
    <3>1. PICK e : Terminal(rows, attempt) = {e} /\ Decides(e, task[a], RowsOf(a))
      BY <1>3, <2>2 DEF OnlyDecider
    <3>2. e \in T /\ e \in Elements(rows)
      BY <1>4, <3>1 DEF Decides, RowsOf
    <3>3. \A d \in Elements(rows) : d.at \in Nat /\ d.id \in Nat
      BY DEF TablesInv, IsTable, Elements
    <3>4. ASSUME NEW d \in T, d # e
          PROVE  /\ Precedes(<<e.at, e.id>>, <<d.at, d.id>>)
                 /\ ~Precedes(<<d.at, d.id>>, <<e.at, e.id>>)
      <4>1. e.id < d.id /\ d \in Elements(rows) /\ d.session = e.session
        BY <1>4, <3>1, <3>4 DEF Decides, RowsOf
      <4>2. e.at <= d.at
        BY <3>2, <4>1 DEF StoryInv, Forward
      <4>3. e.at \in Nat /\ e.id \in Nat /\ d.at \in Nat /\ d.id \in Nat
        BY <3>2, <3>3, <4>1
      <4>4. Precedes(<<e.at, e.id>>, <<d.at, d.id>>) <=> e.at < d.at \/ (e.at = d.at /\ e.id < d.id)
        BY <4>3, TwoPrecede
      <4>5. Precedes(<<d.at, d.id>>, <<e.at, e.id>>) <=> d.at < e.at \/ (d.at = e.at /\ d.id < e.id)
        BY <4>3, TwoPrecede
      <4>6. QED
        BY <4>1, <4>2, <4>3, <4>4, <4>5
    <3>5. end = {e}
      BY <1>7, <3>2, <3>4
    <3>6. QED
      BY <3>1, <3>5
  <2>3. QED
    BY <2>1, <2>2
<1>9. QED
  BY <1>5, <1>6, <1>8

-----------------------------------------------------------------------------
(* The counts, the percentiles and the sums of the views agree. *)

\* A higher percentile is not less.
LEMMA PercentilesGrow ==
  ASSUME NEW v, NEW n \in Nat, n > 0, v \in Seq(Nat), Len(v) = n,
         \A k \in 1 .. n : \A l \in 1 .. k : v[l] <= v[k]
  PROVE  /\ Percentile20(v, 10) <= Percentile20(v, 15)
         /\ Percentile20(v, 15) <= Percentile20(v, 18)
<1> DEFINE K == {10, 15, 18}
           position(k) == (n - 1) * k
           lower(k) == 1 + position(k) \div 20
           weight(k) == position(k) % 20
           between(k) == v[lower(k)] * (20 - weight(k)) + v[lower(k) + 1] * weight(k)
<1>1. \A k \in 1 .. n : v[k] \in Nat
  BY ElementOfSeq
<1>2. v # <<>>
  BY EmptySeq
<1>3. ASSUME NEW k \in K
      PROVE  /\ lower(k) \in 1 .. n /\ weight(k) \in 0 .. 19
             /\ weight(k) # 0 => lower(k) + 1 \in 1 .. n
             /\ position(k) \in Nat /\ position(k) = 20 * (lower(k) - 1) + weight(k)
  <2> DEFINE q == position(k)
  <2>1. q \in Nat /\ q <= 18 * (n - 1)
    BY <1>3
  <2> HIDE DEF q
  <2>2. /\ q \div 20 \in Nat /\ q % 20 \in 0 .. 19 /\ q = 20 * (q \div 20) + (q % 20)
    BY <2>1
  <2>3. q \div 20 <= n - 1 /\ (q % 20 # 0 => q \div 20 < n - 1)
    BY <2>1, <2>2
  <2>4. QED
    BY <2>1, <2>2, <2>3 DEF q
<1>4. ASSUME NEW k \in K
      PROVE  /\ Percentile20(v, k) \in Nat
             /\ 20 * v[lower(k)] <= Percentile20(v, k)
             /\ weight(k) = 0 => Percentile20(v, k) = 20 * v[lower(k)]
             /\ weight(k) # 0 => /\ Percentile20(v, k) = between(k)
                                 /\ Percentile20(v, k) <= 20 * v[lower(k) + 1]
  <2>1. Percentile20(v, k) = IF weight(k) = 0 THEN 20 * v[lower(k)] ELSE between(k)
    BY <1>2 DEF Percentile20
  <2>2. lower(k) \in 1 .. n /\ weight(k) \in 0 .. 19 /\ (weight(k) # 0 => lower(k) + 1 \in 1 .. n)
    BY <1>3
  <2> HIDE DEF lower, weight, K, position
  <2>3. CASE weight(k) = 0
    BY <1>1, <2>1, <2>2, <2>3
  <2>4. CASE weight(k) # 0
    <3> DEFINE a == v[lower(k)]
               b == v[lower(k) + 1]
               w == weight(k)
    <3>1. a \in Nat /\ b \in Nat
      BY <1>1, <2>2, <2>4
    <3>2. a <= b
      <4>1. lower(k) \in 1 .. (lower(k) + 1)
        BY <2>2
      <4>2. QED
        BY <2>2, <2>4, <4>1
    <3>3. w \in 0 .. 20 /\ 20 \in 0 .. 20 /\ w <= 20 /\ w \in Nat /\ 20 - w \in Nat
      <4>1. w \in 0 .. 19
        BY <2>2
      <4> HIDE DEF w
      <4>2. QED
        BY <4>1
    <3>4. Percentile20(v, k) = a * (20 - w) + b * w
      BY <2>1, <2>4
    <3> HIDE DEF a, b, w
    <3>5. 20 * a <= a * (20 - w) + b * w /\ a * (20 - w) + b * w <= 20 * b
      BY <3>1, <3>2, <3>3, Interpolates
    <3>6. a * (20 - w) + b * w \in Nat
      BY <3>1, <3>3
    <3>7. QED
      BY <2>1, <2>4, <3>4, <3>5, <3>6 DEF a, b, w
  <2>5. QED
    BY <2>3, <2>4
<1>5. ASSUME NEW k \in K, NEW l \in K, k < l PROVE Percentile20(v, k) <= Percentile20(v, l)
  <2>1. /\ lower(k) \in 1 .. n /\ weight(k) \in 0 .. 19
        /\ lower(l) \in 1 .. n /\ weight(l) \in 0 .. 19
        /\ weight(k) # 0 => lower(k) + 1 \in 1 .. n
        /\ weight(l) # 0 => lower(l) + 1 \in 1 .. n
        /\ position(k) \in Nat /\ position(k) = 20 * (lower(k) - 1) + weight(k)
        /\ position(l) \in Nat /\ position(l) = 20 * (lower(l) - 1) + weight(l)
    BY <1>3
  <2>2. position(k) <= position(l)
    <3>1. k \in Nat /\ l \in Nat /\ n - 1 \in Nat
      OBVIOUS
    <3>2. QED
      BY <1>5, <3>1
  <2>3. /\ Percentile20(v, k) \in Nat
        /\ 20 * v[lower(k)] <= Percentile20(v, k)
        /\ weight(k) = 0 => Percentile20(v, k) = 20 * v[lower(k)]
        /\ weight(k) # 0 => /\ Percentile20(v, k) = between(k)
                            /\ Percentile20(v, k) <= 20 * v[lower(k) + 1]
    BY <1>4
  <2>4. /\ Percentile20(v, l) \in Nat
        /\ 20 * v[lower(l)] <= Percentile20(v, l)
        /\ weight(l) # 0 => Percentile20(v, l) = between(l)
    BY <1>4
  <2> HIDE DEF position, lower, weight, K
  <2>5. v[lower(k)] \in Nat /\ v[lower(l)] \in Nat /\ (weight(k) # 0 => v[lower(k) + 1] \in Nat)
    BY <1>1, <2>1
  <2>6. lower(k) <= lower(l) /\ (lower(k) = lower(l) => weight(k) <= weight(l))
    <3> DEFINE a == lower(k)
               b == lower(l)
               w == weight(k)
               z == weight(l)
               p == position(k)
               q == position(l)
    <3>1. a \in 1 .. n /\ b \in 1 .. n /\ w \in 0 .. 19 /\ z \in 0 .. 19
      BY <2>1
    <3>2. p = 20 * (a - 1) + w /\ q = 20 * (b - 1) + z /\ p <= q
      BY <2>1, <2>2
    <3> HIDE DEF a, b, w, z, p, q
    <3>3. a <= b /\ (a = b => w <= z)
      BY <3>1, <3>2
    <3>4. QED
      BY <3>3 DEF a, b, w, z
  <2>7. CASE weight(k) = 0
    <3>1. lower(k) \in 1 .. lower(l)
      BY <2>1, <2>6
    <3>2. v[lower(k)] <= v[lower(l)]
      BY <2>1, <3>1
    <3>3. QED
      BY <2>3, <2>4, <2>5, <2>7, <3>2
  <2>8. CASE weight(k) # 0 /\ lower(k) < lower(l)
    <3>1. lower(k) + 1 \in 1 .. lower(l)
      BY <2>1, <2>8
    <3>2. v[lower(k) + 1] <= v[lower(l)]
      BY <2>1, <3>1
    <3>3. QED
      BY <2>3, <2>4, <2>5, <2>8, <3>2
  <2>9. CASE weight(k) # 0 /\ lower(k) = lower(l)
    <3> DEFINE a == v[lower(k)]
               b == v[lower(k) + 1]
               w == weight(k)
               z == weight(l)
    <3>1. w <= z /\ w \in 0 .. 20 /\ z \in 0 .. 20 /\ z # 0
      <4>1. w <= z /\ w \in 0 .. 19 /\ z \in 0 .. 19 /\ w # 0
        BY <2>1, <2>6, <2>9
      <4> HIDE DEF w, z
      <4>2. QED
        BY <4>1
    <3>2. a \in Nat /\ b \in Nat
      BY <2>5, <2>9
    <3>3. a <= b
      <4>1. lower(k) \in 1 .. (lower(k) + 1)
        BY <2>1
      <4>2. QED
        BY <2>1, <2>9, <4>1
    <3>4. Percentile20(v, k) = a * (20 - w) + b * w
      BY <2>3, <2>9
    <3>5. Percentile20(v, l) = a * (20 - z) + b * z
      BY <2>4, <2>9, <3>1
    <3> HIDE DEF a, b, w, z
    <3>6. a * (20 - w) + b * w <= a * (20 - z) + b * z
      BY <3>1, <3>2, <3>3, Interpolates
    <3>7. QED
      BY <3>4, <3>5, <3>6
  <2>10. QED
    BY <2>6, <2>7, <2>8, <2>9, <2>1
<1>6. QED
  BY <1>5

\* The attempts that were started, as the aggregation has them.
StartedIn(x) == {i \in Instances(x) : i.started # {}}
MetricsOf(x) == {TaskMetric(x, t) : t \in TasksOf(x)}
AggregatesOf(x) == {SessionAggregate(x, s) : s \in SessionsOf(x)}

\* An instance tells which attempt it is of.
LEMMA InstanceFields ==
  ASSUME NEW x
  PROVE  \A i \in Instances(x) :
           /\ <<i.session, i.task>> \in Attempts(x) /\ i = Instance(x, i.session, i.task)
           /\ i.session \in SessionsOf(x) /\ i.task \in TasksOf(x)
<1>1. TAKE i \in Instances(x)
<1>2. PICK a \in Attempts(x) : i = Instance(x, a[1], a[2])
  BY DEF Instances
<1>3. i.session = a[1] /\ i.task = a[2]
  BY <1>2 DEF Instance, InstanceOf
<1>4. a = <<a[1], a[2]>> /\ a[1] \in SessionsOf(x) /\ a[2] \in TasksOf(x)
  BY DEF Attempts, SessionsOf, TasksOf
<1>5. QED
  BY <1>2, <1>3, <1>4

\* A finite table has finitely many of them.
LEMMA InstancesFinite ==
  ASSUME NEW x, IsFiniteSet(Elements(x))
  PROVE  IsFiniteSet(StartedIn(x))
<1> DEFINE D == {d \in Elements(x) : d.task # None}
           f == [d \in D |-> <<d.session, d.task>>]
           A == Attempts(x)
           g == [a \in A |-> Instance(x, a[1], a[2])]
<1>1. IsFiniteSet(D)
  <2>1. D \in SUBSET Elements(x)
    OBVIOUS
  <2>2. QED
    BY <2>1, FS_Subset
<1>2. f \in Surjection(D, A)
  BY DEF Surjection, Attempts
<1>3. IsFiniteSet(A)
  BY <1>1, <1>2, FS_Surjection
<1>4. g \in Surjection(A, Instances(x))
  BY DEF Surjection, Instances
<1>5. IsFiniteSet(Instances(x))
  BY <1>3, <1>4, FS_Surjection
<1>6. StartedIn(x) \in SUBSET Instances(x)
  BY DEF StartedIn
<1>7. QED
  BY <1>5, <1>6, FS_Subset

\* What the metrics of a task and the aggregate of a session count.
OfTaskIn(x, t) == {i \in StartedIn(x) : i.task = t}
OfSessionIn(x, s) == {i \in StartedIn(x) : i.session = s}

\* What they say of those.
CountsTask(m, t, S) ==
  /\ m.task = t /\ m.started = Cardinality(S)
  /\ m.outcomes = [o \in TaskOutcomes |-> Cardinality({i \in S : i.outcome = o})]
  /\ m.eligible = Cardinality(S) - Cardinality({i \in S : i.outcome = "technical_blocked"})
  /\ m.durations = Durations({i \in S : Successful(i)})

CountsSession(m, s, S) ==
  /\ m.session = s /\ m.taskStarted = Cardinality(S)
  /\ m.eligible = Cardinality({i \in S : Eligible(i)})
  /\ m.technicalBlocked = Cardinality({i \in S : ~Eligible(i)})
  /\ m.successful = Cardinality({i \in S : Successful(i)})

\* The metrics of a task count its started instances.
LEMMA MetricFields ==
  ASSUME NEW x, NEW t
  PROVE  CountsTask(TaskMetric(x, t), t, OfTaskIn(x, t))
<1> DEFINE S == OfTaskIn(x, t)
           m == TaskMetric(x, t)
<1>1. {i \in Instances(x) : i.task = t /\ i.started # {}} = S
  BY DEF StartedIn, OfTaskIn
<1> HIDE DEF S
<1>2. m = MetricOf(t, S, TaskTrace(x, S))
  BY <1>1 DEF TaskMetric
<1>3. "technical_blocked" \in TaskOutcomes
  BY DEF TaskOutcomes
<1> HIDE DEF m
<1>4. CountsTask(m, t, S)
  BY <1>2, <1>3 DEF MetricOf, CountsTask
<1>5. QED
  BY <1>4 DEF m, S

\* The aggregate of a session counts its started instances.
LEMMA AggregateFields ==
  ASSUME NEW x, NEW s
  PROVE  CountsSession(SessionAggregate(x, s), s, OfSessionIn(x, s))
<1> DEFINE S == OfSessionIn(x, s)
           m == SessionAggregate(x, s)
<1>1. {i \in Instances(x) : i.session = s /\ i.started # {}} = S
  BY DEF StartedIn, OfSessionIn
<1> HIDE DEF S
<1>2. CountsSession(m, s, S)
  BY <1>1 DEF SessionAggregate, AggregateOf, CountsSession
<1>3. QED
  BY <1>2 DEF m, S

\* Instances counted by task are as many as there are.
LEMMA CountedByTask ==
  ASSUME NEW x, NEW Y \in SUBSET StartedIn(x), IsFiniteSet(Y),
         NEW n, \A m \in MetricsOf(x) : n[m] = Cardinality({i \in Y : i.task = m.task})
  PROVE  /\ IsFiniteSet(Pairs(MetricsOf(x), n))
         /\ Cardinality(Pairs(MetricsOf(x), n)) = Cardinality(Y)
<1> DEFINE K == MetricsOf(x)
           part == [m \in K |-> {i \in Y : i.task = m.task}]
<1>1. \A t : TaskMetric(x, t).task = t
  BY DEF TaskMetric, MetricOf
<1>2. \A m \in K : m = TaskMetric(x, m.task)
  BY <1>1 DEF MetricsOf
<1>3. \A i \in Y : \E m \in K : i.task = m.task
  <2>1. TAKE i \in Y
  <2>2. i.task \in TasksOf(x)
    BY InstanceFields DEF StartedIn
  <2>3. TaskMetric(x, i.task).task = i.task
    BY <1>1
  <2>4. QED
    BY <2>2, <2>3 DEF MetricsOf
<1> HIDE DEF K
<1>4. FallsInto(Y, K, part)
  <2>1. Y = UNION {part[m] : m \in K}
    BY <1>3
  <2>2. \A m, o \in K : part[m] \cap part[o] # {} => m = o
    <3>1. \A m, o \in K : part[m] \cap part[o] # {} => m.task = o.task
      OBVIOUS
    <3>2. QED
      BY <1>2, <3>1
  <2>3. QED
    BY <2>1, <2>2 DEF FallsInto
<1>5. \A m \in K : n[m] = Cardinality(part[m])
  BY DEF K
<1> HIDE DEF part
<1>6. /\ IsFiniteSet(Pairs(K, n))
      /\ Cardinality(Pairs(K, n)) = Cardinality(Y)
  BY <1>4, <1>5, CountParts
<1>7. QED
  BY <1>6 DEF K

\* So are instances counted by session.
LEMMA CountedBySession ==
  ASSUME NEW x, NEW Y \in SUBSET StartedIn(x), IsFiniteSet(Y),
         NEW n, \A m \in AggregatesOf(x) : n[m] = Cardinality({i \in Y : i.session = m.session})
  PROVE  Cardinality(Pairs(AggregatesOf(x), n)) = Cardinality(Y)
<1> DEFINE K == AggregatesOf(x)
           part == [m \in K |-> {i \in Y : i.session = m.session}]
<1>1. \A s : SessionAggregate(x, s).session = s
  BY DEF SessionAggregate, AggregateOf
<1>2. \A m \in K : m = SessionAggregate(x, m.session)
  BY <1>1 DEF AggregatesOf
<1>3. \A i \in Y : \E m \in K : i.session = m.session
  <2>1. TAKE i \in Y
  <2>2. i.session \in SessionsOf(x)
    BY InstanceFields DEF StartedIn
  <2>3. SessionAggregate(x, i.session).session = i.session
    BY <1>1
  <2>4. QED
    BY <2>2, <2>3 DEF AggregatesOf
<1> HIDE DEF K
<1>4. FallsInto(Y, K, part)
  <2>1. Y = UNION {part[m] : m \in K}
    BY <1>3
  <2>2. \A m, o \in K : part[m] \cap part[o] # {} => m = o
    <3>1. \A m, o \in K : part[m] \cap part[o] # {} => m.session = o.session
      OBVIOUS
    <3>2. QED
      BY <1>2, <3>1
  <2>3. QED
    BY <2>1, <2>2 DEF FallsInto
<1>5. \A m \in K : n[m] = Cardinality(part[m])
  BY DEF K
<1> HIDE DEF part
<1>6. Cardinality(Pairs(K, n)) = Cardinality(Y)
  BY <1>4, <1>5, CountParts
<1>7. QED
  BY <1>6 DEF K

\* A task that was done took a time.
LEMMA SuccessTook ==
  ASSUME TablesInv, EvidenceInv, NEW x, IsList(x), Elements(x) = Elements(rows),
         NEW i \in StartedIn(x), Successful(i)
  PROVE  i.duration \in Nat
<1> DEFINE a == <<i.session, i.task>>
           attempt == AttemptRows(x, a[1], a[2])
           started == FirstOf(attempt, {"task_started"})
           end == Terminal(x, attempt)
<1>1. a \in Attempts(x) /\ i = Instance(x, a[1], a[2])
  BY InstanceFields DEF StartedIn
<1>2. a \in Sessions \X Tasks
  BY <1>1, AttemptsOfTasks
<1> HIDE DEF a
<1>3. Elements(attempt) = RowsOf(a) /\ OnlyDecider(end, a)
  BY <1>2, InstanceTold
<1>4. /\ i.started = started /\ i.outcome = IfAny(end, OutcomeOf) /\ i.duration = Lasted(started, end)
  BY <1>1 DEF Instance, InstanceOf
<1> HIDE DEF attempt
<1>5. /\ started = {e \in Elements(attempt) : Starts(e)}
      /\ \A e \in Elements(attempt) : Starts(e) => e.at = task[a].startedAt /\ started = {e}
  BY <1>2, <1>3, StartIsFound
<1> HIDE DEF started, end
<1>6. PICK d \in RowsOf(a) : started = {d} /\ d.at = task[a].startedAt
  BY <1>3, <1>4, <1>5 DEF StartedIn
<1>7. task[a].outcome # None
  <2>1. IfAny(end, OutcomeOf) = task[a].outcome
    BY <1>3, DeciderTells
  <2>2. i.outcome \in TaskOutcomes
    BY DEF Successful, TaskOutcomes
  <2>3. QED
    BY <1>4, <2>1, <2>2, ReadAssumption
<1>8. PICK e \in RowsOf(a) : end = {e} /\ e.at = task[a].ended
  BY <1>3, <1>7 DEF OnlyDecider, Decides
<1>9. d.at \in Nat /\ e.at \in Nat
  BY DEF TablesInv, IsTable, RowsOf, Elements
<1>10. d.at <= e.at
  <2>1. ~BreaksCheck(task[a])
    BY <1>2 DEF EvidenceInv, AttemptsTold
  <2>2. None \notin Nat
    BY ReadAssumption
  <2>3. QED
    BY <1>6, <1>8, <1>9, <2>1, <2>2 DEF BreaksCheck
<1>11. Lasted(started, end) = e.at - d.at
  BY <1>6, <1>8 DEF Lasted, IfAny
<1>12. QED
  BY <1>4, <1>9, <1>10, <1>11

\* The times of tasks are values in order.
LEMMA DurationsInOrder ==
  ASSUME NEW S, \A i \in S : i.duration \in Nat
  PROVE  Durations(S) = InOrderOf(S, [i \in S |-> i.duration])
<1> DEFINE g == [i \in S |-> i.duration]
           T == {i \in S : i.duration # None}
           B(v) == Cardinality({i \in S : g[i] < v})
           U(v) == Cardinality({i \in S : g[i] <= v})
           V == {g[i] : i \in S}
           C(v) == Cardinality({i \in S : i.duration < v})
           W(v) == Cardinality({i \in S : i.duration <= v})
           Z == {i.duration : i \in S}
<1>1. T = S
  BY ReadAssumption
<1>2. Durations(S) = [m \in 1 .. Cardinality(S) |-> CHOOSE v \in Z : C(v) < m /\ W(v) >= m]
  <2>1. Durations(S) = [k \in 1 .. Cardinality(T) |->
                          CHOOSE v \in {i.duration : i \in T} :
                            /\ Cardinality({i \in T : i.duration < v}) < k
                            /\ Cardinality({i \in T : i.duration <= v}) >= k]
    BY DEF Durations, Ordered
  <2> HIDE DEF T
  <2>2. QED
    BY <1>1, <2>1
<1>3. InOrderOf(S, g) = [m \in 1 .. Cardinality(S) |-> CHOOSE v \in V : B(v) < m /\ U(v) >= m]
  BY DEF InOrderOf
<1>4. \A v : /\ {i \in S : i.duration < v} = {i \in S : g[i] < v}
             /\ {i \in S : i.duration <= v} = {i \in S : g[i] <= v}
  OBVIOUS
<1>5. (\A v : C(v) = B(v) /\ W(v) = U(v)) /\ Z = V
  BY <1>4
<1> HIDE DEF B, U, V, C, W, Z, T, g
<1> DEFINE c(m) == CHOOSE v \in V : B(v) < m /\ U(v) >= m
           d(m) == CHOOSE v \in Z : C(v) < m /\ W(v) >= m
<1>6. \A m : c(m) = d(m)
  BY <1>5
<1>7. Durations(S) = [m \in 1 .. Cardinality(S) |-> d(m)]
      /\ InOrderOf(S, g) = [m \in 1 .. Cardinality(S) |-> c(m)]
  BY <1>2, <1>3
<1> HIDE DEF c, d
<1>8. [m \in 1 .. Cardinality(S) |-> c(m)] = [m \in 1 .. Cardinality(S) |-> d(m)]
  BY <1>6
<1>9. QED
  BY <1>7, <1>8, Zenon DEF g

\* One for each participant who did it.
LEMMA DurationsFacts ==
  ASSUME NEW S, IsFiniteSet(S), \A i \in S : i.duration \in Nat,
         NEW o, o = Durations(S)
  PROVE  /\ o = [k \in 1 .. Cardinality(S) |-> o[k]] /\ Cardinality(S) \in Nat
         /\ \A k \in 1 .. Cardinality(S) : o[k] \in Nat
<1> DEFINE g == [i \in S |-> i.duration]
<1>1. g \in [S -> Nat] /\ o = InOrderOf(S, g)
  BY DurationsInOrder
<1> HIDE DEF g
<1>2. /\ o = [k \in 1 .. Cardinality(S) |-> o[k]] /\ Cardinality(S) \in Nat
      /\ \A k \in 1 .. Cardinality(S) : /\ o[k] \in Nat /\ \E x \in S : g[x] = o[k]
                                        /\ \A l \in 1 .. k : o[l] <= o[k]
  BY <1>1, OrderedFacts
<1>3. QED
  BY <1>2

\* What each counts, of all the attempts that were started.
PartOfTask(m, X) ==
  /\ m.started = Cardinality({i \in X : i.task = m.task})
  /\ m.eligible = Cardinality({i \in {j \in X : Eligible(j)} : i.task = m.task})
  /\ m.outcomes["technical_blocked"] = Cardinality({i \in {j \in X : ~Eligible(j)} : i.task = m.task})
  /\ DOMAIN m.durations = 1 .. Cardinality({i \in {j \in X : Successful(j)} : i.task = m.task})
  /\ \A k \in DOMAIN m.durations : m.durations[k] \in Nat

PartOfSession(m, X) ==
  /\ m.taskStarted = Cardinality({i \in X : i.session = m.session})
  /\ m.eligible = Cardinality({i \in {j \in X : Eligible(j)} : i.session = m.session})
  /\ m.technicalBlocked = Cardinality({i \in {j \in X : ~Eligible(j)} : i.session = m.session})
  /\ m.successful = Cardinality({i \in {j \in X : Successful(j)} : i.session = m.session})

\* The metrics of a task count their part.
LEMMA PartsByTask ==
  ASSUME TablesInv, EvidenceInv, NEW x, IsList(x), Elements(x) = Elements(rows),
         NEW X, X = StartedIn(x), NEW m \in MetricsOf(x)
  PROVE  PartOfTask(m, X)
<1>1. PICK t \in TasksOf(x) : m = TaskMetric(x, t)
  BY DEF MetricsOf
<1> DEFINE S == OfTaskIn(x, t)
           blocked == {i \in S : i.outcome = "technical_blocked"}
           kept == {i \in S : Eligible(i)}
           done == {i \in S : Successful(i)}
<1> HIDE DEF S
<1>2. /\ m.task = t /\ m.started = Cardinality(S)
      /\ m.outcomes = [o \in TaskOutcomes |-> Cardinality({i \in S : i.outcome = o})]
      /\ m.eligible = Cardinality(S) - Cardinality(blocked)
      /\ m.durations = Durations(done)
  <2>1. CountsTask(m, t, S)
    BY <1>1, MetricFields DEF S
  <2>2. QED
    BY <2>1 DEF CountsTask
<1>3. S = {i \in X : i.task = t}
  BY DEF S, OfTaskIn
<1>4. /\ kept = {i \in {j \in X : Eligible(j)} : i.task = t}
      /\ blocked = {i \in {j \in X : ~Eligible(j)} : i.task = t}
      /\ done = {i \in {j \in X : Successful(j)} : i.task = t}
  BY <1>3 DEF Eligible
<1>5. m.outcomes["technical_blocked"] = Cardinality(blocked)
  BY <1>2 DEF TaskOutcomes
<1>6. S \in SUBSET X /\ blocked \in SUBSET S /\ done \in SUBSET S /\ kept = S \ blocked
  BY <1>3 DEF Eligible
<1>7. \A i \in done : i \in StartedIn(x) /\ Successful(i)
  BY <1>3
<1> HIDE DEF S, blocked, kept, done
<1>8. IsFiniteSet(S)
  <2>1. IsFiniteSet(Elements(x))
    BY ElementsFacts DEF IsList
  <2>2. IsFiniteSet(X)
    BY <2>1, InstancesFinite
  <2>3. QED
    BY <1>6, <2>2, FS_Subset
<1>9. IsFiniteSet(blocked) /\ IsFiniteSet(done) /\ IsFiniteSet(kept)
  <2>1. kept \in SUBSET S
    BY <1>6
  <2>2. QED
    BY <1>6, <1>8, <2>1, FS_Subset
<1>10. Cardinality(kept) = Cardinality(S) - Cardinality(blocked)
  <2>1. Cardinality(S \ blocked) = Cardinality(S) - Cardinality(blocked)
    BY <1>6, <1>8, CountRest
  <2>2. QED
    BY <1>6, <2>1
<1>11. \A i \in done : i.duration \in Nat
  BY <1>7, SuccessTook
<1>12. /\ DOMAIN m.durations = 1 .. Cardinality(done)
       /\ \A k \in 1 .. Cardinality(done) : m.durations[k] \in Nat
  <2> DEFINE o == m.durations
             c == Cardinality(done)
  <2>1. o = [k \in 1 .. c |-> o[k]] /\ \A k \in 1 .. c : o[k] \in Nat
    BY <1>2, <1>9, <1>11, DurationsFacts
  <2> HIDE DEF o, c
  <2>2. DOMAIN o = 1 .. c
    BY <2>1
  <2>3. QED
    BY <2>1, <2>2 DEF o, c
<1>13. S = {i \in X : i.task = m.task}
  BY <1>3, <1>2
<1>14. QED
  BY <1>2, <1>4, <1>5, <1>10, <1>12, <1>13 DEF PartOfTask

\* The aggregate of a session counts its part.
LEMMA PartsBySession ==
  ASSUME NEW x, NEW X, X = StartedIn(x), NEW m \in AggregatesOf(x)
  PROVE  PartOfSession(m, X)
<1>1. PICK s \in SessionsOf(x) : m = SessionAggregate(x, s)
  BY DEF AggregatesOf
<1> DEFINE S == OfSessionIn(x, s)
<1> HIDE DEF S
<1>2. /\ m.session = s /\ m.taskStarted = Cardinality(S)
      /\ m.eligible = Cardinality({i \in S : Eligible(i)})
      /\ m.technicalBlocked = Cardinality({i \in S : ~Eligible(i)})
      /\ m.successful = Cardinality({i \in S : Successful(i)})
  <2>1. CountsSession(m, s, S)
    BY <1>1, AggregateFields DEF S
  <2>2. QED
    BY <2>1 DEF CountsSession
<1>3. S = {i \in X : i.session = s}
  BY DEF S, OfSessionIn
<1>4. /\ {i \in S : Eligible(i)} = {i \in {j \in X : Eligible(j)} : i.session = s}
      /\ {i \in S : ~Eligible(i)} = {i \in {j \in X : ~Eligible(j)} : i.session = s}
      /\ {i \in S : Successful(i)} = {i \in {j \in X : Successful(j)} : i.session = s}
  BY <1>3
<1>5. QED
  BY <1>2, <1>3, <1>4 DEF PartOfSession

\* The attempts are the same, counted by task, by session and over all.
LEMMA AgreeOnCounts ==
  ASSUME TablesInv, EvidenceInv
  PROVE  CountsAgree
<1> DEFINE x == Accepted(Table)
           X == StartedIn(x)
           K == MetricsOf(x)
           L == AggregatesOf(x)
           kept == {i \in X : Eligible(i)}
           blocked == {i \in X : ~Eligible(i)}
           done == {i \in X : Successful(i)}
           a == Analytics(Table)
           all == Totals(a)
           D == UNION {{m} \X DOMAIN m.durations : m \in K}
           g == [p \in D |-> p[1].durations[p[2]]]
           o == InOrderOf(D, g)
<1>1. IsList(x) /\ Elements(x) = Elements(rows)
  BY TableElements, AcceptedElements
<1>2. a.tasks = K /\ a.sessions = L
  BY DEF Analytics, MetricsOf, AggregatesOf
<1>3. kept \in SUBSET X /\ blocked \in SUBSET X /\ done \in SUBSET X /\ X \in SUBSET X
  OBVIOUS
<1>4. \A m \in K :
        /\ m.started = Cardinality({i \in X : i.task = m.task})
        /\ m.eligible = Cardinality({i \in kept : i.task = m.task})
        /\ m.outcomes["technical_blocked"] = Cardinality({i \in blocked : i.task = m.task})
        /\ DOMAIN m.durations = 1 .. Cardinality({i \in done : i.task = m.task})
        /\ \A k \in DOMAIN m.durations : m.durations[k] \in Nat
  <2> HIDE DEF x
  <2>1. TAKE m \in K
  <2>2. PartOfTask(m, X)
    BY <1>1, PartsByTask
  <2>3. QED
    BY <2>2 DEF PartOfTask
<1>5. \A m \in L :
        /\ m.taskStarted = Cardinality({i \in X : i.session = m.session})
        /\ m.eligible = Cardinality({i \in kept : i.session = m.session})
        /\ m.technicalBlocked = Cardinality({i \in blocked : i.session = m.session})
        /\ m.successful = Cardinality({i \in done : i.session = m.session})
  <2> HIDE DEF x
  <2>1. TAKE m \in L
  <2>2. PartOfSession(m, X)
    BY PartsBySession
  <2>3. QED
    BY <2>2 DEF PartOfSession
<1> HIDE DEF x, kept, blocked, done
<1>6. IsFiniteSet(X)
  <2>1. IsFiniteSet(Elements(x))
    BY <1>1, ElementsFacts DEF IsList
  <2>2. QED
    BY <2>1, InstancesFinite
<1>7. IsFiniteSet(kept) /\ IsFiniteSet(blocked) /\ IsFiniteSet(done)
  BY <1>3, <1>6, FS_Subset
<1>8. ASSUME NEW Y \in SUBSET X, IsFiniteSet(Y),
             NEW n, \A m \in K : n[m] = Cardinality({i \in Y : i.task = m.task})
      PROVE  /\ IsFiniteSet(Pairs(K, n))
             /\ Cardinality(Pairs(K, n)) = Cardinality(Y)
  BY <1>8, CountedByTask
<1>9. ASSUME NEW Y \in SUBSET X, IsFiniteSet(Y),
             NEW n, \A m \in L : n[m] = Cardinality({i \in Y : i.session = m.session})
      PROVE  Cardinality(Pairs(L, n)) = Cardinality(Y)
  BY <1>9, CountedBySession
<1> HIDE DEF X, K, L
<1>10. SumOver(K, LAMBDA m : m.started) = Cardinality(X)
  <2> DEFINE n == [m \in K |-> m.started]
  <2>1. UNION {{m} \X (1 .. m.started) : m \in K} = Pairs(K, n)
    BY DEF Pairs
  <2>2. \A m \in K : n[m] = Cardinality({i \in X : i.task = m.task})
    BY <1>4
  <2> HIDE DEF n
  <2>3. Cardinality(Pairs(K, n)) = Cardinality(X)
    BY <1>3, <1>6, <1>8, <2>2
  <2>4. QED
    BY <2>1, <2>3 DEF SumOver
<1>11. SumOver(L, LAMBDA m : m.taskStarted) = Cardinality(X)
  <2> DEFINE n == [m \in L |-> m.taskStarted]
  <2>1. UNION {{m} \X (1 .. m.taskStarted) : m \in L} = Pairs(L, n)
    BY DEF Pairs
  <2>2. \A m \in L : n[m] = Cardinality({i \in X : i.session = m.session})
    BY <1>5
  <2> HIDE DEF n
  <2>3. Cardinality(Pairs(L, n)) = Cardinality(X)
    BY <1>3, <1>6, <1>9, <2>2
  <2>4. QED
    BY <2>1, <2>3 DEF SumOver
<1>12. SumOver(K, LAMBDA m : m.eligible) = Cardinality(kept)
  <2> DEFINE n == [m \in K |-> m.eligible]
  <2>1. UNION {{m} \X (1 .. m.eligible) : m \in K} = Pairs(K, n)
    BY DEF Pairs
  <2>2. \A m \in K : n[m] = Cardinality({i \in kept : i.task = m.task})
    BY <1>4
  <2> HIDE DEF n
  <2>3. Cardinality(Pairs(K, n)) = Cardinality(kept)
    BY <1>3, <1>7, <1>8, <2>2
  <2>4. QED
    BY <2>1, <2>3 DEF SumOver
<1>13. SumOver(L, LAMBDA m : m.eligible) = Cardinality(kept)
  <2> DEFINE n == [m \in L |-> m.eligible]
  <2>1. UNION {{m} \X (1 .. m.eligible) : m \in L} = Pairs(L, n)
    BY DEF Pairs
  <2>2. \A m \in L : n[m] = Cardinality({i \in kept : i.session = m.session})
    BY <1>5
  <2> HIDE DEF n
  <2>3. Cardinality(Pairs(L, n)) = Cardinality(kept)
    BY <1>3, <1>7, <1>9, <2>2
  <2>4. QED
    BY <2>1, <2>3 DEF SumOver
<1>14. SumOver(K, LAMBDA m : m.outcomes["technical_blocked"]) = Cardinality(blocked)
  <2> DEFINE n == [m \in K |-> m.outcomes["technical_blocked"]]
  <2>1. UNION {{m} \X (1 .. m.outcomes["technical_blocked"]) : m \in K} = Pairs(K, n)
    BY DEF Pairs
  <2>2. \A m \in K : n[m] = Cardinality({i \in blocked : i.task = m.task})
    BY <1>4
  <2> HIDE DEF n
  <2>3. Cardinality(Pairs(K, n)) = Cardinality(blocked)
    BY <1>3, <1>7, <1>8, <2>2
  <2>4. QED
    BY <2>1, <2>3 DEF SumOver
<1>15. SumOver(L, LAMBDA m : m.technicalBlocked) = Cardinality(blocked)
  <2> DEFINE n == [m \in L |-> m.technicalBlocked]
  <2>1. UNION {{m} \X (1 .. m.technicalBlocked) : m \in L} = Pairs(L, n)
    BY DEF Pairs
  <2>2. \A m \in L : n[m] = Cardinality({i \in blocked : i.session = m.session})
    BY <1>5
  <2> HIDE DEF n
  <2>3. Cardinality(Pairs(L, n)) = Cardinality(blocked)
    BY <1>3, <1>7, <1>9, <2>2
  <2>4. QED
    BY <2>1, <2>3 DEF SumOver
<1>16. SumOver(L, LAMBDA m : m.successful) = Cardinality(done)
  <2> DEFINE n == [m \in L |-> m.successful]
  <2>1. UNION {{m} \X (1 .. m.successful) : m \in L} = Pairs(L, n)
    BY DEF Pairs
  <2>2. \A m \in L : n[m] = Cardinality({i \in done : i.session = m.session})
    BY <1>5
  <2> HIDE DEF n
  <2>3. Cardinality(Pairs(L, n)) = Cardinality(done)
    BY <1>3, <1>7, <1>9, <2>2
  <2>4. QED
    BY <2>1, <2>3 DEF SumOver
<1>17. IsFiniteSet(D) /\ Cardinality(D) = Cardinality(done)
  <2> DEFINE n == [m \in K |-> Cardinality({i \in done : i.task = m.task})]
             P == Pairs(K, n)
  <2>1. \A m \in K : DOMAIN m.durations = 1 .. n[m]
    BY <1>4
  <2>2. D = P
    BY <2>1 DEF Pairs
  <2>3. \A m \in K : n[m] = Cardinality({i \in done : i.task = m.task})
    OBVIOUS
  <2> HIDE DEF n
  <2>4. IsFiniteSet(P) /\ Cardinality(P) = Cardinality(done)
    BY <1>3, <1>7, <1>8, <2>3
  <2>5. QED
    BY <2>2, <2>4
<1>18. g \in [D -> Nat]
  <2>1. \A p \in D : p[1] \in K /\ p[2] \in DOMAIN p[1].durations
    OBVIOUS
  <2>2. \A p \in D : g[p] \in Nat
    BY <1>4, <2>1
  <2>3. QED
    BY <2>2
<1>19. /\ all.eligible = SumOver(K, LAMBDA m : m.eligible)
       /\ all.technicalBlocked = SumOver(K, LAMBDA m : m.outcomes["technical_blocked"])
       /\ all.duration = DurationSummary(Ordered(D, LAMBDA p : p[1].durations[p[2]]))
  BY <1>2 DEF Totals
<1> HIDE DEF all
<1>20. Ordered(D, LAMBDA p : p[1].durations[p[2]]) = o
  <2> DEFINE B(v) == Cardinality({p \in D : g[p] < v})
             U(v) == Cardinality({p \in D : g[p] <= v})
             V == {g[p] : p \in D}
  <2>1. \A v : /\ {p \in D : p[1].durations[p[2]] < v} = {p \in D : g[p] < v}
               /\ {p \in D : p[1].durations[p[2]] <= v} = {p \in D : g[p] <= v}
    OBVIOUS
  <2>2. \A v : /\ Cardinality({p \in D : p[1].durations[p[2]] < v}) = B(v)
               /\ Cardinality({p \in D : p[1].durations[p[2]] <= v}) = U(v)
    BY <2>1
  <2>3. o = [k \in 1 .. Cardinality(D) |-> CHOOSE v \in V : B(v) < k /\ U(v) >= k]
    BY DEF InOrderOf
  <2>4. {p[1].durations[p[2]] : p \in D} = V
    OBVIOUS
  <2> HIDE DEF B, U, V, D, o
  <2> DEFINE c(k) == CHOOSE v \in {p[1].durations[p[2]] : p \in D} :
                        /\ Cardinality({p \in D : p[1].durations[p[2]] < v}) < k
                        /\ Cardinality({p \in D : p[1].durations[p[2]] <= v}) >= k
             d(k) == CHOOSE v \in V : B(v) < k /\ U(v) >= k
  <2>5. \A k : c(k) = d(k)
    BY <2>2, <2>4
  <2>6. Ordered(D, LAMBDA p : p[1].durations[p[2]]) = [k \in 1 .. Cardinality(D) |-> c(k)]
    BY DEF Ordered
  <2> HIDE DEF c, d
  <2>7. o = [k \in 1 .. Cardinality(D) |-> c(k)]
    BY <2>3, <2>5 DEF d
  <2>8. QED
    BY <2>6, <2>7, Zenon
<1> HIDE DEF D, g
<1>21. /\ o = [k \in 1 .. Cardinality(D) |-> o[k]] /\ Cardinality(D) \in Nat
       /\ \A k \in 1 .. Cardinality(D) : o[k] \in Nat /\ \A l \in 1 .. k : o[l] <= o[k]
  BY <1>17, <1>18, OrderedFacts
<1> HIDE DEF o
<1>22. o \in Seq(Nat) /\ Len(o) = Cardinality(D)
  <2> DEFINE c == Cardinality(D)
  <2>1. c \in Nat /\ o \in [1 .. c -> Nat]
    BY <1>21
  <2> HIDE DEF c
  <2>2. o \in Seq(Nat) /\ Len(o) = c
    BY <2>1
  <2>3. QED
    BY <2>2 DEF c
<1>23. all.duration = DurationSummary(o)
  BY <1>19, <1>20
<1>24. /\ all.duration.sample = Len(o) /\ all.duration.median = Percentile20(o, 10)
       /\ all.duration.p75 = Percentile20(o, 15) /\ all.duration.p90 = Percentile20(o, 18)
  BY <1>23 DEF DurationSummary
<1>25. ASSUME Cardinality(D) > 0
       PROVE  /\ Percentile20(o, 10) <= Percentile20(o, 15)
              /\ Percentile20(o, 15) <= Percentile20(o, 18)
  BY <1>21, <1>22, <1>25, PercentilesGrow
<1> HIDE DEF a
<1>26. AddUp(a, all)
  BY <1>2, <1>10, <1>11, <1>12, <1>13, <1>14, <1>15, <1>16, <1>17, <1>19, <1>22, <1>24, <1>25 DEF AddUp
<1>27. QED
  BY <1>26 DEF CountsAgree, TotalsAddUp, all, a

-----------------------------------------------------------------------------
(* Misclicks are among the pointers, and the heatmap has every point once. *)

\* In an attempt, every misclick has a pointer event of its own.
LEMMA MisclicksAmongPointers ==
  ASSUME TablesInv, StoryInv, NEW x, IsList(x), Unrepeated(x), Elements(x) = Elements(rows),
         NEW i \in Instances(x)
  PROVE  i.pointers \in Nat /\ i.misclicks \in Nat /\ i.misclicks <= i.pointers
<1> DEFINE attempt == AttemptRows(x, i.session, i.task)
           E == Elements(attempt)
           pointers == {e \in E : IsRaw(e) /\ e.type = "pointer_interaction"}
           misclicks == {e \in E : Misclick(e)}
           source == [e \in misclicks |-> CHOOSE r \in pointers : From(e, r)]
<1>1. i = Instance(x, i.session, i.task)
  BY InstanceFields
<1>2. /\ i.pointers = Cardinality({k \in DOMAIN attempt : IsRaw(attempt[k])
                                      /\ attempt[k].type = "pointer_interaction"})
      /\ i.misclicks = Cardinality({k \in DOMAIN attempt : ~IsRaw(attempt[k])
                                      /\ attempt[k].type = "misclick"})
  <2> DEFINE s == i.session
             t == i.task
  <2>1. i = Instance(x, s, t) /\ attempt = AttemptRows(x, s, t)
    BY <1>1
  <2> HIDE DEF s, t
  <2>2. QED
    BY <2>1 DEF Instance, InstanceOf
<1>3. /\ IsList(attempt) /\ Unrepeated(attempt)
      /\ E = {e \in Elements(rows) : e.session = i.session /\ e.task = i.task}
  <2>1. Reordered(x, x)
    BY DEF Reordered
  <2>2. Reordered(attempt, attempt)
    BY <2>1, ReorderedAttempt
  <2>3. QED
    BY <2>2, AttemptElements DEF Reordered
<1> HIDE DEF attempt
<1>4. /\ {k \in DOMAIN attempt : IsRaw(attempt[k]) /\ attempt[k].type = "pointer_interaction"}
           = {k \in DOMAIN attempt : attempt[k] \in pointers}
      /\ {k \in DOMAIN attempt : ~IsRaw(attempt[k]) /\ attempt[k].type = "misclick"}
           = {k \in DOMAIN attempt : attempt[k] \in misclicks}
  BY DEF Elements, Misclick
<1>5. pointers \in SUBSET E /\ misclicks \in SUBSET E
  OBVIOUS
<1>6. \A e \in misclicks : \E r \in pointers : From(e, r)
  <2>1. TAKE e \in misclicks
  <2>2. e \in Elements(rows) /\ Misclick(e) /\ e.session = i.session /\ e.task = i.task
    BY <1>3
  <2>3. PICK r \in Elements(rows) : From(e, r) /\ r.type = "pointer_interaction"
    BY <2>2 DEF StoryInv, Misclicks
  <2>4. r \in pointers
    BY <1>3, <2>2, <2>3 DEF From
  <2>5. QED
    BY <2>3, <2>4
<1>7. \A e \in misclicks : source[e] \in pointers /\ From(e, source[e])
  BY <1>6
<1>8. ASSUME NEW d \in misclicks, NEW e \in misclicks, source[d] = source[e] PROVE d = e
  <2>1. d.from = {source[d].id} /\ e.from = {source[e].id}
    BY <1>7 DEF From
  <2>2. d \in Elements(rows) /\ Misclick(d) /\ e \in Elements(rows) /\ Misclick(e)
    BY <1>3
  <2>3. QED
    BY <1>8, <2>1, <2>2 DEF StoryInv, Misclicks
<1>9. source \in Injection(misclicks, pointers)
  <2>1. source \in [misclicks -> pointers]
    BY <1>7
  <2> HIDE DEF source, misclicks, pointers
  <2>2. QED
    BY <1>8, <2>1 DEF Injection, IsInjective
<1> HIDE DEF E, pointers, misclicks, source
<1>10. IsFiniteSet(pointers)
  <2>1. IsFiniteSet(E)
    BY <1>3, ElementsFacts DEF IsList, E
  <2>2. QED
    BY <1>5, <2>1, FS_Subset
<1>11. IsFiniteSet(misclicks) /\ Cardinality(misclicks) <= Cardinality(pointers)
  BY <1>9, <1>10, FS_Injection
<1>12. /\ Cardinality({k \in DOMAIN attempt : attempt[k] \in pointers}) = Cardinality(pointers)
       /\ Cardinality({k \in DOMAIN attempt : attempt[k] \in misclicks}) = Cardinality(misclicks)
  BY <1>3, <1>5, PlacesOfRows DEF E
<1>13. Cardinality(pointers) \in Nat /\ Cardinality(misclicks) \in Nat
  BY <1>10, <1>11, FS_CardinalityType
<1>14. QED
  BY <1>2, <1>4, <1>11, <1>12, <1>13

\* How much is kept.
LEMMA KeptLength ==
  ASSUME NEW q, NEW S, IsFiniteSet(S)
  PROVE  /\ Cardinality(S) \in Nat /\ DOMAIN KeepAt(q, S) = 1 .. Cardinality(S)
         /\ Len(KeepAt(q, S)) = Cardinality(S)
<1> DEFINE c == Cardinality(S)
           f(k) == q[Nth(S, k)]
<1>1. c \in Nat
  BY FS_CardinalityType
<1>2. KeepAt(q, S) = [k \in 1 .. c |-> f(k)]
  BY DEF KeepAt
<1> HIDE DEF c, f
<1>3. DOMAIN KeepAt(q, S) = 1 .. c /\ Len(KeepAt(q, S)) = c
  BY <1>1, <1>2
<1>4. QED
  BY <1>1, <1>3 DEF c

\* No task counts more misclicks than pointer events.
LEMMA MisclicksAreAShare ==
  ASSUME TablesInv, StoryInv, NEW x, IsList(x), Unrepeated(x), Elements(x) = Elements(rows),
         NEW m \in MetricsOf(x)
  PROVE  m.misclicks <= m.pointers
<1>1. PICK t \in TasksOf(x) : m = TaskMetric(x, t)
  BY DEF MetricsOf
<1> DEFINE S == OfTaskIn(x, t)
           C == {i \in S : Eligible(i)}
           f == [i \in C |-> i.misclicks]
           g == [i \in C |-> i.pointers]
<1>2. {i \in Instances(x) : i.task = t /\ i.started # {}} = S
  BY DEF StartedIn, OfTaskIn
<1>3. \A i \in C : i \in Instances(x)
  BY DEF OfTaskIn, StartedIn
<1>4. IsFiniteSet(C)
  <2>1. IsFiniteSet(Elements(x))
    BY ElementsFacts DEF IsList
  <2>2. IsFiniteSet(StartedIn(x))
    BY <2>1, InstancesFinite
  <2>3. C \in SUBSET StartedIn(x)
    BY DEF OfTaskIn
  <2> HIDE DEF C
  <2>4. QED
    BY <2>2, <2>3, FS_Subset
<1> HIDE DEF S
<1>5. m = MetricOf(t, S, TaskTrace(x, S))
  BY <1>1, <1>2 DEF TaskMetric
<1>6. /\ m.misclicks = Cardinality(UNION {{i} \X (1 .. i.misclicks) : i \in C})
      /\ m.pointers = Cardinality(UNION {{i} \X (1 .. i.pointers) : i \in C})
  BY <1>5 DEF MetricOf, SumOver
<1> HIDE DEF C
<1>7. /\ UNION {{i} \X (1 .. i.misclicks) : i \in C} = Pairs(C, f)
      /\ UNION {{i} \X (1 .. i.pointers) : i \in C} = Pairs(C, g)
  BY DEF Pairs
<1>8. \A i \in C : i.pointers \in Nat /\ i.misclicks \in Nat /\ i.misclicks <= i.pointers
  BY <1>3, MisclicksAmongPointers
<1>9. f \in [C -> Nat] /\ g \in [C -> Nat] /\ \A i \in C : f[i] <= g[i]
  BY <1>8
<1> HIDE DEF f, g
<1>10. Cardinality(Pairs(C, f)) <= Cardinality(Pairs(C, g))
  BY <1>4, <1>9, PairsGrow
<1>11. QED
  BY <1>6, <1>7, <1>10

\* A point has the outcome of a task, or none.
LEMMA HeatmapOutcomes ==
  ASSUME StoryInv, NEW x, IsList(x), Elements(x) = Elements(rows), NEW s, NEW t
  PROVE  HeatmapOutcome(x, s, t) \in TaskOutcomes \cup {None}
<1> DEFINE T == TerminalRows(AttemptRows(x, s, t))
           F == Foremost(T, LAMBDA e : <<LooseAnchor(x, e), e.at, e.id>>)
<1>1. HeatmapOutcome(x, s, t) = IfAny(F, OutcomeOf)
  BY DEF HeatmapOutcome, DecidedBy
<1>2. F \subseteq T
  BY DEF Foremost
<1>3. T \subseteq Elements(rows)
  BY AttemptElements DEF TerminalRows
<1> HIDE DEF T, F
<1>4. CASE F = {}
  BY <1>1, <1>4 DEF IfAny
<1>5. CASE F # {}
  <2>1. PICK e \in F : IfAny(F, OutcomeOf) = OutcomeOf(e)
    BY <1>5 DEF IfAny
  <2>2. QED
    BY <1>1, <1>2, <1>3, <2>1 DEF StoryInv, Outcomes
<1>6. QED
  BY <1>4, <1>5

\* The heatmap, filtered by outcome, shows every point of a task once.
LEMMA AgreeOnPointers ==
  ASSUME TablesInv, StoryInv
  PROVE  PointersAddUp
<1> DEFINE x == Accepted(Table)
           heatmap == Heatmap(Table)
           Q == heatmap.points
           n == Len(Q)
<1>1. \A m \in Analytics(Table).tasks : m.misclicks <= m.pointers
  <2>1. IsList(x) /\ Elements(x) = Elements(rows) /\ Unrepeated(x)
    BY TableElements, AcceptedElements, AcceptedUnrepeated
  <2>2. Analytics(Table).tasks = MetricsOf(x)
    BY DEF Analytics, MetricsOf
  <2> HIDE DEF x
  <2>3. QED
    BY <2>1, <2>2, MisclicksAreAShare
<1>2. /\ n \in Nat /\ DOMAIN Q = 1 .. n
      /\ \A k \in 1 .. n : Q[k].outcome \in TaskOutcomes \cup {None}
  <2> DEFINE S == {i \in {j \in DOMAIN Table : Table[j].type = "pointer_interaction"} :
                     Table[i].point # None /\ Table[i].screen # None}
             points == KeepAt(Table, S)
             c == Cardinality(S)
             out(k) == IF points[k].task = None THEN None
                       ELSE HeatmapOutcome(Table, points[k].session, points[k].task)
  <2>1. IsList(Table) /\ Elements(Table) = Elements(rows)
    BY TableElements
  <2>2. IsFiniteSet(S)
    <3>1. DOMAIN Table = 1 .. Len(Table) /\ Len(Table) \in Nat
      BY <2>1, LenProperties DEF IsList
    <3>2. IsFiniteSet(DOMAIN Table) /\ S \in SUBSET DOMAIN Table
      BY <3>1, FS_Interval
    <3> HIDE DEF S
    <3>3. QED
      BY <3>2, FS_Subset
  <2>3. Q = [k \in DOMAIN points |-> [id |-> points[k].id, task |-> points[k].task,
                                      screen |-> points[k].screen, outcome |-> out(k)]]
    BY DEF Heatmap
  <2>4. \A k : out(k) \in TaskOutcomes \cup {None}
    BY <2>1, HeatmapOutcomes
  <2> HIDE DEF S, out, Q
  <2>5. c \in Nat /\ DOMAIN points = 1 .. c
    BY <2>2, KeptLength
  <2> HIDE DEF points, c
  <2>6. Len(Q) = c /\ DOMAIN Q = 1 .. c
    BY <2>3, <2>5
  <2>7. \A k \in 1 .. c : Q[k].outcome = out(k)
    BY <2>3, <2>5
  <2>8. QED
    BY <2>4, <2>5, <2>6, <2>7
<1> DEFINE D == {k \in 1 .. n : Q[k].outcome # None}
           N == {k \in 1 .. n : Q[k].outcome = None}
           part == [o \in TaskOutcomes |-> {k \in 1 .. n : Q[k].outcome = o}]
           f == [o \in TaskOutcomes |-> Cardinality(part[o])]
<1> HIDE DEF x
<1>3. \A o \in TaskOutcomes : Len(Filtered(heatmap, None, None, o)) = f[o]
  <2>1. TAKE o \in TaskOutcomes
  <2>2. o # None
    BY ReadAssumption
  <2> DEFINE S == {k \in DOMAIN Q : /\ None \in {None, Q[k].task} /\ None \in {None, Q[k].screen}
                                    /\ o \in {None, Q[k].outcome}}
  <2>3. Filtered(heatmap, None, None, o) = KeepAt(Q, S)
    BY DEF Filtered
  <2> HIDE DEF heatmap, Q, n
  <2>4. S = part[o]
    BY <1>2, <2>2
  <2>5. IsFiniteSet(S)
    <3>1. IsFiniteSet(1 .. n) /\ S \in SUBSET (1 .. n)
      BY <1>2, FS_Interval
    <3> HIDE DEF S
    <3>2. QED
      BY <3>1, FS_Subset
  <2> HIDE DEF S
  <2>6. Len(KeepAt(Q, S)) = Cardinality(S)
    BY <2>5, KeptLength
  <2>7. QED
    BY <2>3, <2>4, <2>6 DEF Q
<1> HIDE DEF heatmap, Q, n
<1>4. IsFiniteSet(1 .. n) /\ Cardinality(1 .. n) = n /\ D \in SUBSET (1 .. n) /\ N = (1 .. n) \ D
  BY <1>2, FS_Interval
<1>5. IsFiniteSet(D)
  BY <1>4, FS_Subset
<1>6. FallsInto(D, TaskOutcomes, part)
  <2>1. None \notin TaskOutcomes
    BY ReadAssumption
  <2>2. QED
    BY <1>2, <2>1 DEF FallsInto
<1>7. \A o \in TaskOutcomes : f[o] = Cardinality(part[o])
  OBVIOUS
<1> HIDE DEF D, N, part
<1>8. Cardinality(Pairs(TaskOutcomes, f)) = Cardinality(D)
  BY <1>5, <1>6, <1>7, CountParts
<1>9. Cardinality(N) = n - Cardinality(D) /\ Cardinality(D) \in Nat
  BY <1>4, CountRest
<1> HIDE DEF f
<1>10. SumOver(TaskOutcomes, LAMBDA o : Len(Filtered(heatmap, None, None, o))) = Cardinality(D)
  <2>1. UNION {{o} \X (1 .. Len(Filtered(heatmap, None, None, o))) : o \in TaskOutcomes}
          = Pairs(TaskOutcomes, f)
    BY <1>3 DEF Pairs
  <2>2. QED
    BY <1>8, <2>1 DEF SumOver
<1>11. Count(Q, LAMBDA p : p.outcome = None) = Cardinality(N)
  BY <1>2 DEF Count, N
<1>12. n = Cardinality(D) + Cardinality(N)
  BY <1>2, <1>9
<1>13. QED
  BY <1>1, <1>10, <1>11, <1>12 DEF PointersAddUp, Q, n, heatmap

-----------------------------------------------------------------------------
(* The timelines, and the views together. *)

\* A sort by four numbers, the last one the position, puts every position in a
\* place of its own.
LEMMA PlacedInOrder ==
  ASSUME NEW S \in SUBSET Nat, IsFiniteSet(S), NEW key,
         \A i \in S : key[i] \in Seq(Nat) /\ Len(key[i]) = 4 /\ key[i][4] = i,
         NEW order, order = InPlaces(S, key)
  PROVE  /\ DOMAIN order = 1 .. Cardinality(S) /\ Cardinality(S) \in Nat
         /\ \A k \in 1 .. Cardinality(S) : order[k] \in S
         /\ \A i \in S : \E k \in 1 .. Cardinality(S) : order[k] = i
         /\ \A k, l \in 1 .. Cardinality(S) : k < l => Precedes(key[order[k]], key[order[l]])
<1> DEFINE n == Cardinality(S)
           R == {p \in S \X S : Precedes(key[p[1]], key[p[2]])}
           spot(i) == Cardinality({j \in S : j = i \/ Precedes(key[j], key[i])})
           rank == [i \in S |-> Cardinality({j \in S : j = i \/ <<j, i>> \in R})]
<1>1. n \in Nat /\ \A i \in S : i \in Nat
  BY FS_CardinalityType
<1>2. ASSUME NEW i \in S
      PROVE  key[i][1] \in Nat /\ key[i][2] \in Nat /\ key[i][3] \in Nat /\ key[i][4] = i
  <2>1. DOMAIN key[i] = 1 .. 4
    BY LenProperties
  <2>2. QED
    BY <2>1, ElementOfSeq
<1> DEFINE Less(i, j) == Under(key[i][1], key[i][2], key[i][3], i,
                               key[j][1], key[j][2], key[j][3], j)
<1>3. ASSUME NEW i \in S, NEW j \in S PROVE Precedes(key[i], key[j]) <=> Less(i, j)
  <2>1. /\ key[i] \in Seq(Nat) /\ Len(key[i]) = 4
        /\ key[j] \in Seq(Nat) /\ Len(key[j]) = 4
    OBVIOUS
  <2>2. Precedes(key[i], key[j]) <=>
          Under(key[i][1], key[i][2], key[i][3], key[i][4],
                key[j][1], key[j][2], key[j][3], key[j][4])
    BY ONLY <2>1, FourPrecede DEF Under
  <2>3. QED
    BY <1>2, <2>2
<1>4. \A i, j \in S : <<i, j>> \in R <=> Precedes(key[i], key[j])
  OBVIOUS
<1> DEFINE a(i) == key[i][1]
           b(i) == key[i][2]
           c(i) == key[i][3]
<1>5. \A i \in S : i \in Nat /\ a(i) \in Nat /\ b(i) \in Nat /\ c(i) \in Nat
  BY <1>1, <1>2
<1>6. \A i, j \in S : Precedes(key[i], key[j])
                         <=> Under(a(i), b(i), c(i), i, a(j), b(j), c(j), j)
  BY <1>3
<1> HIDE DEF a, b, c
<1>7. \A i \in S : ~Precedes(key[i], key[i])
  <2>1. TAKE i \in S
  <2>2. ~Under(a(i), b(i), c(i), i, a(i), b(i), c(i), i)
    BY <1>5, UnderFacts
  <2>3. QED
    BY <1>6, <2>2
<1>8. \A i, j \in S : i = j \/ Precedes(key[i], key[j]) \/ Precedes(key[j], key[i])
  <2>1. TAKE i, j \in S
  <2>2. \/ i = j
        \/ Under(a(i), b(i), c(i), i, a(j), b(j), c(j), j)
        \/ Under(a(j), b(j), c(j), j, a(i), b(i), c(i), i)
    BY <1>5, UnderFacts
  <2>3. QED
    BY <1>6, <2>2
<1>9. \A i, j, k \in S : Precedes(key[i], key[j]) /\ Precedes(key[j], key[k])
                           => Precedes(key[i], key[k])
  <2>1. TAKE i, j, k \in S
  <2>2. HAVE Precedes(key[i], key[j]) /\ Precedes(key[j], key[k])
  <2>3. Under(a(i), b(i), c(i), i, a(k), b(k), c(k), k)
    <3>1. /\ Under(a(i), b(i), c(i), i, a(j), b(j), c(j), j)
          /\ Under(a(j), b(j), c(j), j, a(k), b(k), c(k), k)
      BY <1>6, <2>2
    <3>2. QED
      BY <1>5, <3>1, UnderTransitive
  <2>4. QED
    BY <1>6, <2>3
<1> HIDE DEF R
<1>10. /\ \A i \in S : rank[i] \in 1 .. n
       /\ \A i, j \in S : rank[i] < rank[j] <=> <<i, j>> \in R
       /\ \A i, j \in S : rank[i] = rank[j] => i = j
       /\ \A k \in 1 .. n : \E i \in S : rank[i] = k
  <2>1. /\ \A i \in S : <<i, i>> \notin R
        /\ \A i, j \in S : i = j \/ <<i, j>> \in R \/ <<j, i>> \in R
        /\ \A i, j, k \in S : <<i, j>> \in R /\ <<j, k>> \in R => <<i, k>> \in R
    BY <1>4, <1>7, <1>8, <1>9
  <2>2. \A f : f = [i \in S |-> Cardinality({j \in S : j = i \/ <<j, i>> \in R})] =>
          /\ \A i \in S : f[i] \in 1 .. Cardinality(S)
          /\ \A i, j \in S : f[i] < f[j] <=> <<i, j>> \in R
          /\ \A i, j \in S : f[i] = f[j] => i = j
          /\ \A k \in 1 .. Cardinality(S) : \E i \in S : f[i] = k
    BY <2>1, RanksNumber
  <2>3. QED
    BY <2>2
<1>11. \A i \in S : rank[i] = spot(i)
  <2>1. TAKE i \in S
  <2>2. {j \in S : j = i \/ <<j, i>> \in R} = {j \in S : j = i \/ Precedes(key[j], key[i])}
    BY <1>4
  <2>3. QED
    BY <2>2
<1>12. order = [k \in 1 .. n |-> CHOOSE i \in S : spot(i) = k]
  BY DEF InPlaces
<1> HIDE DEF rank, spot
<1>13. \A k \in 1 .. n : order[k] \in S /\ spot(order[k]) = k
  <2>1. TAKE k \in 1 .. n
  <2>2. \E i \in S : spot(i) = k
    BY <1>10, <1>11
  <2>3. order[k] = CHOOSE i \in S : spot(i) = k
    BY <1>12
  <2>4. QED
    BY <2>2, <2>3
<1>14. \A i \in S : \E k \in 1 .. n : order[k] = i
  <2>1. TAKE i \in S
  <2>2. spot(i) \in 1 .. n
    BY <1>10, <1>11
  <2>3. order[spot(i)] \in S /\ spot(order[spot(i)]) = spot(i)
    BY <1>13, <2>2
  <2>4. order[spot(i)] = i
    <3>1. rank[order[spot(i)]] = rank[i]
      BY <1>11, <2>3
    <3>2. QED
      BY <1>10, <2>3, <3>1
  <2>5. QED
    BY <2>2, <2>4
<1>15. \A k, l \in 1 .. n : k < l => Precedes(key[order[k]], key[order[l]])
  <2>1. TAKE k, l \in 1 .. n
  <2>2. HAVE k < l
  <2>3. /\ order[k] \in S /\ rank[order[k]] = k
        /\ order[l] \in S /\ rank[order[l]] = l
    BY <1>11, <1>13
  <2>4. <<order[k], order[l]>> \in R
    BY <1>10, <2>2, <2>3
  <2>5. QED
    BY <1>4, <2>3, <2>4
<1>16. DOMAIN order = 1 .. n
  BY <1>12
<1>17. QED
  BY <1>1, <1>13, <1>14, <1>15, <1>16

\* Clocks that go forward and numbers go together: of two rows of a session,
\* the one with the earlier time is anchored before the other.
LEMMA EarlierAnchoredFirst ==
  ASSUME TablesInv, EvidenceInv, Forward, ~scenario.clocksStep, NEW x, WithSources(x),
         NEW d \in Elements(x), NEW e \in Elements(x), d.session = e.session, d.at < e.at
  PROVE  Anchor(x, d) <= Anchor(x, e)
<1>1. PICK q \in Elements(x) : /\ IsRaw(q) /\ q.session = d.session /\ q.at = d.at
                               /\ Anchor(x, d) = q.seq /\ q.seq \in Nat
  BY AnchorFacts DEF EvidenceInv
<1>2. PICK r \in Elements(x) : /\ IsRaw(r) /\ r.session = e.session /\ r.at = e.at
                               /\ Anchor(x, e) = r.seq /\ r.seq \in Nat
  BY AnchorFacts DEF EvidenceInv
<1>3. q \in Elements(rows) /\ r \in Elements(rows)
  BY DEF WithSources
<1>4. \A c \in Elements(rows) : c.id \in Nat /\ c.at \in Nat
  BY DEF TablesInv, IsTable, Elements
<1>5. ~(r.id < q.id)
  <2>1. r.id < q.id => q.at >= r.at
    BY <1>1, <1>2, <1>3, <1>4 DEF Forward
  <2>2. QED
    BY <1>1, <1>2, <1>3, <1>4, <2>1
<1>6. q.id < r.id
  <2>1. \A c \in Elements(rows) : c.id = q.id => c = q
    BY <1>3, TableElements
  <2>2. q # r
    BY <1>1, <1>2, <1>3, <1>4
  <2>3. QED
    BY <1>3, <1>4, <1>5, <2>1, <2>2
<1>7. q.seq < r.seq
  BY <1>1, <1>2, <1>3, <1>6 DEF EvidenceInv, InSequence
<1>8. QED
  BY <1>1, <1>2, <1>7

\* The timeline has the rows of its session, in the order of their anchors.
LEMMA LineFacts ==
  ASSUME TablesInv, EvidenceInv, Forward, ~scenario.clocksStep,
         NEW own, IsList(own), WithSources(own),
         \A d, e \in Elements(own) : d.session = e.session,
         NEW line, line = Timeline(own)
  PROVE  \A k, l \in DOMAIN line : k < l => Anchor(line, line[k]) <= Anchor(line, line[l])
<1> DEFINE D == DOMAIN own
           key == [i \in D |-> <<own[i].at, LooseAnchor(own, own[i]), own[i].id, i>>]
           order == InPlaces(D, key)
           n == Cardinality(D)
<1>1. line = [k \in DOMAIN order |-> own[order[k]]]
  BY DEF Timeline
<1>2. D = 1 .. Len(own) /\ Len(own) \in Nat
  BY LenProperties DEF IsList
<1>3. D \in SUBSET Nat /\ IsFiniteSet(D)
  BY <1>2, FS_Interval
<1>4. \A i \in D : own[i] \in Elements(own)
  BY DEF Elements
<1>5. \A e \in Elements(own) : /\ e.at \in Nat /\ e.id \in Nat
                               /\ LooseAnchor(own, e) = Anchor(own, e) /\ Anchor(own, e) \in Nat
  <2>1. \A e \in Elements(own) : e.at \in Nat /\ e.id \in Nat
    <3>1. \A e \in Elements(rows) : e.at \in Nat /\ e.id \in Nat
      BY DEF TablesInv, IsTable, Elements
    <3>2. QED
      BY <3>1 DEF WithSources
  <2>2. \A e \in Elements(own) : LooseAnchor(own, e) = Anchor(own, e) /\ Anchor(own, e) \in Nat
    BY AnchorFacts DEF EvidenceInv
  <2>3. QED
    BY <2>1, <2>2
<1>6. ASSUME NEW i \in D
      PROVE  /\ key[i] \in Seq(Nat) /\ Len(key[i]) = 4
             /\ key[i][1] = own[i].at /\ key[i][2] = Anchor(own, own[i])
             /\ key[i][3] = own[i].id /\ key[i][4] = i
  <2>1. key[i] = <<own[i].at, LooseAnchor(own, own[i]), own[i].id, i>>
    OBVIOUS
  <2> HIDE DEF key, D
  <2>2. /\ own[i].at \in Nat /\ own[i].id \in Nat /\ i \in Nat
        /\ LooseAnchor(own, own[i]) = Anchor(own, own[i]) /\ Anchor(own, own[i]) \in Nat
    BY <1>3, <1>4, <1>5
  <2>3. QED
    BY <2>1, <2>2
<1> HIDE DEF D, key, order
<1>7. \A f : f = InPlaces(D, key) =>
        /\ DOMAIN f = 1 .. Cardinality(D) /\ Cardinality(D) \in Nat
        /\ \A k \in 1 .. Cardinality(D) : f[k] \in D
        /\ \A i \in D : \E k \in 1 .. Cardinality(D) : f[k] = i
        /\ \A k, l \in 1 .. Cardinality(D) : k < l => Precedes(key[f[k]], key[f[l]])
  <2>1. \A i \in D : key[i] \in Seq(Nat) /\ Len(key[i]) = 4 /\ key[i][4] = i
    BY <1>6
  <2>2. QED
    BY ONLY <1>3, <2>1, PlacedInOrder
<1>8. /\ DOMAIN order = 1 .. n /\ n \in Nat
      /\ \A k \in 1 .. n : order[k] \in D
      /\ \A i \in D : \E k \in 1 .. n : order[k] = i
      /\ \A k, l \in 1 .. n : k < l => Precedes(key[order[k]], key[order[l]])
  BY <1>7 DEF order
<1> HIDE DEF n
<1>9. DOMAIN line = 1 .. n /\ \A k \in 1 .. n : line[k] = own[order[k]]
  BY <1>1, <1>8
<1>10. Elements(line) = Elements(own)
  <2>1. Elements(line) \subseteq Elements(own)
    BY <1>4, <1>8, <1>9 DEF Elements
  <2>2. ASSUME NEW i \in D PROVE own[i] \in Elements(line)
    <3>1. PICK k \in 1 .. n : order[k] = i
      BY <1>8
    <3>2. QED
      BY <1>9, <3>1 DEF Elements
  <2>3. QED
    BY <2>1, <2>2 DEF Elements, D
<1>11. \A e : Anchor(line, e) = Anchor(own, e)
  BY <1>10 DEF Anchor, Sources
<1>12. ASSUME NEW i \in D, NEW j \in D, Precedes(key[i], key[j])
       PROVE  Anchor(own, own[i]) <= Anchor(own, own[j])
  <2>1. /\ own[i] \in Elements(own) /\ own[j] \in Elements(own)
        /\ own[i].at \in Nat /\ own[j].at \in Nat
        /\ Anchor(own, own[i]) \in Nat /\ Anchor(own, own[j]) \in Nat
    BY <1>4, <1>5
  <2>2. Precedes(key[i], key[j]) =>
          \/ key[i][1] < key[j][1]
          \/ key[i][1] = key[j][1] /\ key[i][2] < key[j][2]
          \/ key[i][1] = key[j][1] /\ key[i][2] = key[j][2]
    <3>1. /\ key[i] \in Seq(Nat) /\ Len(key[i]) = 4
          /\ key[j] \in Seq(Nat) /\ Len(key[j]) = 4
      BY <1>6
    <3>2. Precedes(key[i], key[j]) <=>
            \/ key[i][1] < key[j][1]
            \/ key[i][1] = key[j][1] /\ key[i][2] < key[j][2]
            \/ key[i][1] = key[j][1] /\ key[i][2] = key[j][2] /\ key[i][3] < key[j][3]
            \/ key[i][1] = key[j][1] /\ key[i][2] = key[j][2] /\ key[i][3] = key[j][3]
               /\ key[i][4] < key[j][4]
      BY ONLY <3>1, FourPrecede
    <3>3. QED
      BY <3>2
  <2>3. \/ own[i].at < own[j].at
        \/ Anchor(own, own[i]) < Anchor(own, own[j])
        \/ Anchor(own, own[i]) = Anchor(own, own[j])
    BY <1>6, <1>12, <2>2
  <2>4. own[i].session = own[j].session
    BY <2>1
  <2>5. CASE own[i].at < own[j].at
    BY <2>1, <2>4, <2>5, EarlierAnchoredFirst
  <2>6. QED
    BY <2>1, <2>3, <2>5
<1>13. QED
  <2>1. TAKE k, l \in DOMAIN line
  <2>2. HAVE k < l
  <2>3. order[k] \in D /\ order[l] \in D /\ Precedes(key[order[k]], key[order[l]])
    BY <1>8, <1>9, <2>2
  <2>4. Anchor(own, own[order[k]]) <= Anchor(own, own[order[l]])
    BY <1>12, <2>3
  <2>5. QED
    BY <1>9, <1>11, <2>4

\* The event that ends a session is the only one, and tells of its status.
LEMMA EndIsFound ==
  ASSUME Endings, NEW s \in Sessions, session[s] \notin {"none", "purged"},
         NEW x, Elements(x) = {e \in Elements(rows) : e.session = s}
  PROVE  SessionTerminal(x) = IF session[s] = "active" THEN None ELSE session[s]
<1> DEFINE S == {e \in Elements(x) : IsRaw(e) /\ e.type \in DOMAIN SessionEnd}
           first == {e \in S : \A d \in S : d = e \/ Precedes(BySequence(e), BySequence(d))}
           Told(F) == IfAny(F, LAMBDA e : SessionEnd[e.type])
<1>1. SessionTerminal(x) = Told(first)
  BY DEF SessionTerminal, FirstOf, Foremost
<1>2. S = {e \in Elements(rows) : Ends(e) /\ e.session = s}
  BY DEF Ends
<1>3. Told({}) = None /\ \A e : Told({e}) = SessionEnd[e.type]
  BY DEF IfAny
<1> HIDE DEF S, Told
<1>4. CASE session[s] = "active"
  <2>1. \A e : Ends(e) => SessionEnd[e.type] # "active"
    BY DEF Ends, SessionEnd
  <2>2. S = {}
    BY <1>2, <1>4, <2>1 DEF Endings
  <2>3. first = {}
    BY <2>2
  <2>4. QED
    BY <1>1, <1>3, <1>4, <2>3
<1>5. CASE session[s] # "active"
  <2>1. PICK e \in Elements(rows) : Ends(e) /\ e.session = s
    BY <1>5 DEF Endings
  <2>2. session[s] = SessionEnd[e.type] /\ \A d \in S : d = e
    BY <1>2, <2>1 DEF Endings
  <2>3. S = {e}
    BY <1>2, <2>1, <2>2
  <2>4. first = {e}
    BY <2>3
  <2>5. QED
    BY <1>1, <1>3, <1>5, <2>2, <2>4
<1>6. QED
  BY <1>4, <1>5

\* The timelines and the ends of sessions tell what happened.
LEMMA AgreeOnTimeline ==
  ASSUME TablesInv, EvidenceInv, StoryInv, ~scenario.clocksStep
  PROVE  TimelineTellsStory
<1>1. /\ IsList(Table) /\ Elements(Table) = Elements(rows)
      /\ \A d, e \in Elements(rows) : d.id = e.id => d = e
  BY TableElements
<1>2. ASSUME NEW s \in SessionsOf(rows)
      PROVE  /\ \A i, j \in DOMAIN SessionDetail(Table, answers, s).timeline :
                  i < j => Anchor(SessionDetail(Table, answers, s).timeline,
                                  SessionDetail(Table, answers, s).timeline[i])
                           <= Anchor(SessionDetail(Table, answers, s).timeline,
                                     SessionDetail(Table, answers, s).timeline[j])
             /\ SessionDetail(Table, answers, s).terminal
                  = (IF session[s] = "active" THEN None ELSE session[s])
  <2> DEFINE own == SessionRows(Table, s)
             line == SessionDetail(Table, answers, s).timeline
  <2>1. Elements(own) = {e \in Elements(rows) : e.session = s}
    BY <1>1, SessionElements
  <2>2. IsList(own)
    <3> DEFINE S == {i \in DOMAIN Table : Table[i].session = s}
    <3>1. S \in SUBSET DOMAIN Table
      OBVIOUS
    <3> HIDE DEF S
    <3>2. IsList(KeepAt(Table, S))
      BY <1>1, <3>1, ElementsOfKept
    <3>3. QED
      BY <3>2 DEF S, SessionRows
  <2>3. line = Timeline(own) /\ SessionDetail(Table, answers, s).terminal = SessionTerminal(Accepted(own))
    BY DEF SessionDetail
  <2>4. s \in Sessions /\ session[s] \notin {"none", "purged"}
    BY DEF SessionsOf, StoryInv, Endings, TablesInv, IsTable, Elements
  <2> HIDE DEF own, line
  <2>5. WithSources(own)
    BY <2>1 DEF WithSources, From
  <2>6. \A d, e \in Elements(own) : d.session = e.session
    BY <2>1
  <2>7. \A i, j \in DOMAIN line : i < j => Anchor(line, line[i]) <= Anchor(line, line[j])
    BY <2>2, <2>3, <2>5, <2>6, LineFacts DEF StoryInv
  <2>8. Elements(Accepted(own)) = Elements(own)
    BY <1>1, <2>1, <2>2, AcceptedElements
  <2>9. SessionTerminal(Accepted(own)) = IF session[s] = "active" THEN None ELSE session[s]
    BY <2>1, <2>4, <2>8, EndIsFound DEF StoryInv
  <2>10. QED
    BY <2>3, <2>7, <2>9 DEF line
<1>3. QED
  BY <1>2 DEF TimelineTellsStory

\* Outcomes, counts, pointers, timelines and durations agree between all the
\* views of the tables, before the page is opened.
THEOREM ViewsAgreeHolds == ReadSpec => []ViewsAgree
<1>1. ReadInvariant /\ EvidenceInv /\ StoryInv => ViewsAgree
  <2> SUFFICES ASSUME ReadInvariant, EvidenceInv, StoryInv PROVE ViewsAgree
    OBVIOUS
  <2>1. TablesInv
    BY DEF ReadInvariant
  <2>2. OutcomesAgree /\ CountsAgree /\ PointersAddUp
    BY <2>1, AgreeOnOutcomes, AgreeOnCounts, AgreeOnPointers
  <2>3. scenario.clocksStep \/ (TimelineTellsStory /\ DurationsAgree)
    BY <2>1, AgreeOnTimeline, AgreeOnDurations
  <2>4. QED
    BY <2>2, <2>3 DEF ViewsAgree
<1>2. QED
  BY <1>1, ReadInvariantHolds, EvidenceHolds, StoryHolds, PTL

-----------------------------------------------------------------------------
(* Matched instances give the same numbers. *)

\* Only one row decided an attempt.
LEMMA OneDecides ==
  ASSUME TablesInv, NEW a, NEW row, NEW d, NEW e,
         Decides(d, row, RowsOf(a)), Decides(e, row, RowsOf(a))
  PROVE  d = e
<1>1. d \in Elements(rows) /\ e \in Elements(rows)
  BY DEF Decides, RowsOf
<1>2. d.id \in Nat /\ e.id \in Nat
  BY <1>1 DEF TablesInv, IsTable, Elements
<1>3. /\ e = d \/ d.id < e.id
      /\ d = e \/ e.id < d.id
  BY DEF Decides
<1>4. QED
  BY <1>2, <1>3

\* Whoever finds it alone finds the same.
LEMMA SameDecider ==
  ASSUME TablesInv, NEW a, NEW F, OnlyDecider(F, a), NEW G, OnlyDecider(G, a)
  PROVE  F = G
<1>1. CASE task[a].outcome = None
  BY <1>1 DEF OnlyDecider
<1>2. CASE task[a].outcome # None
  <2>1. PICK d : F = {d} /\ Decides(d, task[a], RowsOf(a))
    BY <1>2 DEF OnlyDecider
  <2>2. PICK e : G = {e} /\ Decides(e, task[a], RowsOf(a))
    BY <1>2 DEF OnlyDecider
  <2>3. d = e
    BY <2>1, <2>2, OneDecides
  <2>4. QED
    BY <2>1, <2>2, <2>3
<1>3. QED
  BY <1>1, <1>2

\* What an instance says of the start and the end of its attempt.
StartAndEnd(i, a) ==
  /\ i.started = {e \in RowsOf(a) : Starts(e)}
  /\ OnlyDecider(i.terminal, a)
  /\ i.session = a[1] /\ i.task = a[2]
  /\ i.outcome = IfAny(i.terminal, OutcomeOf)
  /\ i.duration = Lasted(i.started, i.terminal)

\* It says it of some rows, too, if the start and the end are among them.
LEMMA FoundAmong ==
  ASSUME TablesInv, EvidenceInv, NEW z, IsList(z), WithSources(z), NEW a \in Sessions \X Tasks,
         \A e \in RowsOf(a) : Starts(e) \/ Decides(e, task[a], RowsOf(a)) => e \in Elements(z)
  PROVE  StartAndEnd(Instance(z, a[1], a[2]), a)
<1> DEFINE attempt == AttemptRows(z, a[1], a[2])
           started == FirstOf(attempt, {"task_started"})
           end == Terminal(z, attempt)
           i == Instance(z, a[1], a[2])
<1>1. /\ i.started = started /\ i.terminal = end /\ i.session = a[1] /\ i.task = a[2]
      /\ i.outcome = IfAny(end, OutcomeOf) /\ i.duration = Lasted(started, end)
  BY DEF Instance, InstanceOf
<1>2. Elements(attempt) = RowsOf(a) \cap Elements(z)
  <2>1. Elements(attempt) = {e \in Elements(z) : e.session = a[1] /\ e.task = a[2]}
    BY AttemptElements
  <2> HIDE DEF attempt
  <2>2. QED
    BY <2>1 DEF RowsOf, WithSources
<1> HIDE DEF attempt, i
<1>3. started = {e \in RowsOf(a) : Starts(e)}
  <2>1. Elements(attempt) \subseteq RowsOf(a)
    BY <1>2
  <2>2. started = {e \in Elements(attempt) : Starts(e)}
    BY <2>1, StartIsFound
  <2>3. QED
    BY <1>2, <2>2
<1>4. OnlyDecider(end, a)
  <2>1. Elements(attempt) \subseteq RowsOf(a) /\ Elements(attempt) \subseteq Elements(z)
    BY <1>2
  <2>2. \A e \in RowsOf(a) : Decides(e, task[a], RowsOf(a)) => e \in Elements(attempt)
    BY <1>2
  <2>3. QED
    BY <2>1, <2>2, TerminalDecides
<1> HIDE DEF started, end
<1>5. QED
  BY <1>1, <1>3, <1>4 DEF StartAndEnd, i

\* Two instances of an attempt that say the same.
LEMMA SaidTwice ==
  ASSUME TablesInv, NEW a, NEW i, NEW j, StartAndEnd(i, a), StartAndEnd(j, a)
  PROVE  /\ i.started = j.started /\ i.terminal = j.terminal
         /\ i.outcome = j.outcome /\ i.duration = j.duration
<1>1. i.started = j.started /\ i.terminal = j.terminal
  BY SameDecider DEF StartAndEnd
<1>2. QED
  BY <1>1 DEF StartAndEnd

-----------------------------------------------------------------------------
(* Results from the evidence a metric is traced to. *)

\* The rows with some ids.
Only(y, ids) == KeepAt(y, {k \in DOMAIN y : y[k].id \in ids})

\* They are a part of the table.
LEMMA OnlyElements ==
  ASSUME NEW y, IsList(y), NEW ids
  PROVE  IsList(Only(y, ids)) /\ Elements(Only(y, ids)) = {e \in Elements(y) : e.id \in ids}
<1> DEFINE S == {k \in DOMAIN y : y[k].id \in ids}
<1>1. S \in SUBSET DOMAIN y /\ {y[k] : k \in S} = {e \in Elements(y) : e.id \in ids}
  BY DEF Elements
<1> HIDE DEF S
<1>2. IsList(KeepAt(y, S)) /\ Elements(KeepAt(y, S)) = {y[k] : k \in S}
  BY <1>1, ElementsOfKept
<1>3. QED
  BY <1>1, <1>2 DEF Only, S

\* What some rows are traced to.
TraceOf(x, D) == Trace(x, {d.id : d \in D})

\* The rows of a trace come with their sources, and belong to the attempts
\* that are traced.
LEMMA TraceFacts ==
  ASSUME TablesInv, EvidenceInv, NEW x, Elements(x) = Elements(rows), NEW D, D \subseteq Elements(rows),
         NEW ids, ids = TraceOf(x, D),
         NEW z, Elements(z) = {e \in Elements(rows) : e.id \in ids}
  PROVE  /\ WithSources(z) /\ D \subseteq Elements(z)
         /\ \A e \in Elements(z) : \E d \in D : e.session = d.session /\ e.task = d.task
         /\ ids \subseteq Ids(rows)
<1> DEFINE own == {d.id : d \in D}
           more == UNION {{r.id : r \in Sources(x, e)} :
                            e \in {d \in Elements(x) : d.id \in own /\ ~IsRaw(d)}}
<1>1. ids = own \cup more
  BY DEF Trace, TraceOf
<1>2. \A d, e \in Elements(rows) : d.id = e.id => d = e
  BY TableElements
<1>3. \A n \in more : \E d \in D : \E r \in Elements(rows) :
        /\ r.id = n /\ IsRaw(r) /\ r.session = d.session /\ r.task = d.task
  <2>1. TAKE n \in more
  <2>2. PICK e \in Elements(rows) : e.id \in own /\ \E r \in Sources(x, e) : n = r.id
    OBVIOUS
  <2>3. e \in D
    BY <1>2, <2>2
  <2>4. QED
    BY <2>2, <2>3 DEF Sources
<1>4. ASSUME NEW e \in D, ~IsRaw(e), NEW r \in Elements(rows), From(e, r) PROVE r.id \in more
  <2>1. r \in Sources(x, e)
    BY <1>4 DEF Sources, From
  <2>2. e \in {d \in Elements(x) : d.id \in own /\ ~IsRaw(d)}
    BY <1>4
  <2>3. QED
    BY <2>1, <2>2
<1> HIDE DEF more
<1>5. D \subseteq Elements(z)
  BY <1>1
<1>6. \A e \in Elements(z) : e \in D \/ e.id \in more
  BY <1>1, <1>2
<1>7. ASSUME NEW e \in Elements(z), e.id \in more
      PROVE  IsRaw(e) /\ \E d \in D : e.session = d.session /\ e.task = d.task
  BY <1>2, <1>3, <1>7
<1>8. WithSources(z)
  <2>1. ASSUME NEW e \in Elements(z), ~IsRaw(e), NEW r \in Elements(rows), From(e, r)
        PROVE  r \in Elements(z)
    <3>1. e \in D
      BY <1>6, <1>7, <2>1
    <3>2. r.id \in ids
      BY <1>1, <1>4, <2>1, <3>1
    <3>3. QED
      BY <3>2
  <2>2. QED
    BY <2>1 DEF WithSources
<1>9. ids \subseteq Ids(rows)
  BY <1>1, <1>3 DEF Ids
<1>10. QED
  BY <1>5, <1>6, <1>7, <1>8, <1>9

\* The rows that instances start and end with.
EndRows(A) == UNION {i.started \cup i.terminal : i \in A}

AllEnds(A) == UNION {EndIds(i) : i \in A}

\* The ids of those rows.
LEMMA EndRowsTraced ==
  ASSUME NEW A
  PROVE  AllEnds(A) = {d.id : d \in EndRows(A)}
BY DEF AllEnds, EndIds, EndRows

\* Instances of a task, found again among some rows.
Again(A, z, t) == [i \in A |-> Instance(z, i.session, t)]

\* Of the rows that instances of a task are traced to, the same are found.
LEMMA TracedAgain ==
  ASSUME TablesInv, EvidenceInv,
         NEW x, IsList(x), Elements(x) = Elements(rows),
         NEW y, IsList(y), Elements(y) = Elements(rows),
         NEW t, NEW A \in SUBSET OfTaskIn(x, t),
         NEW z, z = Only(y, Trace(x, AllEnds(A))),
         NEW h, h = Again(A, z, t)
  PROVE  /\ Matches(A, h, OfTaskIn(z, t))
         /\ \A i \in A : h[i].outcome = i.outcome /\ h[i].duration = i.duration
<1> DEFINE D == EndRows(A)
           ids == TraceOf(x, D)
<1>1. \A i \in A : /\ i \in StartedIn(x) /\ i \in Instances(x) /\ i.task = t /\ i.started # {}
                   /\ <<i.session, t>> \in Attempts(x) /\ i = Instance(x, i.session, t)
  BY InstanceFields DEF OfTaskIn, StartedIn
<1>2. \A i \in A : <<i.session, t>> \in Sessions \X Tasks
  <2>1. \A a \in Attempts(x) : a \in Sessions \X Tasks
    BY AttemptsOfTasks
  <2>2. QED
    BY <1>1, <2>1
<1>3. \A a \in Sessions \X Tasks : StartAndEnd(Instance(x, a[1], a[2]), a)
  <2>1. TAKE a \in Sessions \X Tasks
  <2>2. WithSources(x)
    BY DEF WithSources
  <2>3. \A e \in RowsOf(a) : e \in Elements(x)
    BY DEF RowsOf
  <2>4. QED
    BY <2>2, <2>3, FoundAmong
<1>4. \A i \in A : StartAndEnd(i, <<i.session, t>>)
  <2>1. TAKE i \in A
  <2> DEFINE a == <<i.session, t>>
  <2>2. a \in Sessions \X Tasks /\ i = Instance(x, a[1], a[2])
    BY <1>1, <1>2
  <2> HIDE DEF a
  <2>3. StartAndEnd(i, a)
    BY <1>3, <2>2
  <2>4. QED
    BY <2>3 DEF a
<1>5. \A i \in A : \A d \in i.started \cup i.terminal :
        d \in Elements(rows) /\ d.session = i.session /\ d.task = t
  <2>1. TAKE i \in A
  <2>2. /\ i.started = {e \in RowsOf(<<i.session, t>>) : Starts(e)}
        /\ OnlyDecider(i.terminal, <<i.session, t>>)
    BY <1>4 DEF StartAndEnd
  <2>3. i.terminal \subseteq RowsOf(<<i.session, t>>)
    BY <2>2 DEF OnlyDecider, Decides
  <2>4. QED
    BY <2>2, <2>3 DEF RowsOf
<1>6. D \subseteq Elements(rows) /\ \A d \in D : \E i \in A : d.session = i.session /\ d.task = t
  BY <1>5 DEF EndRows
<1>7. \A i \in A : i.started \subseteq D /\ i.terminal \subseteq D
  BY DEF EndRows
<1>8. IsList(z) /\ Elements(z) = {e \in Elements(rows) : e.id \in ids}
  <2>1. z = Only(y, ids)
    BY EndRowsTraced DEF TraceOf
  <2> HIDE DEF ids
  <2>2. IsList(Only(y, ids)) /\ Elements(Only(y, ids)) = {e \in Elements(y) : e.id \in ids}
    BY OnlyElements
  <2>3. QED
    BY <2>1, <2>2
<1> HIDE DEF D, ids
<1>9. /\ WithSources(z) /\ D \subseteq Elements(z)
      /\ \A e \in Elements(z) : \E d \in D : e.session = d.session /\ e.task = d.task
  <2>1. ids = TraceOf(x, D)
    BY DEF ids
  <2>2. QED
    BY <1>6, <1>8, <2>1, TraceFacts
<1>10. ASSUME NEW i \in A
       PROVE  StartAndEnd(Instance(z, i.session, t), <<i.session, t>>)
  <2> DEFINE a == <<i.session, t>>
  <2>1. a \in Sessions \X Tasks /\ StartAndEnd(i, a) /\ a[1] = i.session /\ a[2] = t
    BY <1>2, <1>4
  <2> HIDE DEF a
  <2>2. ASSUME NEW e \in RowsOf(a), Starts(e) \/ Decides(e, task[a], RowsOf(a))
        PROVE  e \in Elements(z)
    <3>1. CASE Starts(e)
      BY <1>7, <1>9, <2>1, <3>1 DEF StartAndEnd
    <3>2. CASE Decides(e, task[a], RowsOf(a))
      <4>1. task[a].outcome # None
        BY <3>2 DEF Decides
      <4>2. PICK d : i.terminal = {d} /\ Decides(d, task[a], RowsOf(a))
        BY <2>1, <4>1 DEF StartAndEnd, OnlyDecider
      <4>3. d = e
        BY <3>2, <4>2, OneDecides
      <4>4. QED
        BY <1>7, <1>9, <4>2, <4>3
    <3>3. QED
      BY <2>2, <3>1, <3>2
  <2>3. StartAndEnd(Instance(z, a[1], a[2]), a)
    BY <1>8, <1>9, <2>1, <2>2, FoundAmong
  <2>4. QED
    BY <2>1, <2>3 DEF a
<1>11. h = [i \in A |-> Instance(z, i.session, t)]
  BY DEF Again
<1>12. ASSUME NEW i \in A
       PROVE  /\ h[i].started = i.started /\ h[i].outcome = i.outcome /\ h[i].duration = i.duration
              /\ h[i].session = i.session /\ h[i].task = t
  <2> DEFINE a == <<i.session, t>>
             j == Instance(z, i.session, t)
  <2>1. StartAndEnd(i, a) /\ StartAndEnd(j, a)
    BY <1>4, <1>10
  <2>2. a[1] = i.session /\ a[2] = t /\ h[i] = j
    BY <1>11
  <2> HIDE DEF a, j
  <2>3. i.started = j.started /\ i.outcome = j.outcome /\ i.duration = j.duration
    BY <2>1, SaidTwice
  <2>4. j.session = a[1] /\ j.task = a[2]
    BY <2>1 DEF StartAndEnd
  <2>5. QED
    BY <2>2, <2>3, <2>4
<1>13. ASSUME NEW i \in A PROVE h[i] \in OfTaskIn(z, t)
  <2> DEFINE a == <<i.session, t>>
  <2>1. PICK d : d \in i.started
    BY <1>1
  <2>2. d \in Elements(z) /\ d.session = i.session /\ d.task = t
    BY <1>5, <1>7, <1>9, <2>1
  <2>3. t # None
    BY <1>2, ReadAssumption
  <2>4. a \in Attempts(z) /\ h[i] = Instance(z, a[1], a[2])
    BY <1>11, <2>2, <2>3 DEF Attempts
  <2> HIDE DEF a
  <2>5. h[i] \in Instances(z)
    BY <2>4 DEF Instances
  <2>6. QED
    BY <1>1, <1>12, <2>5 DEF OfTaskIn, StartedIn
<1>14. ASSUME NEW p \in OfTaskIn(z, t) PROVE \E i \in A : h[i] = p
  <2>1. /\ <<p.session, p.task>> \in Attempts(z) /\ p = Instance(z, p.session, p.task) /\ p.task = t
    BY InstanceFields DEF OfTaskIn, StartedIn
  <2>2. PICK e \in Elements(z) : e.session = p.session
    BY <2>1 DEF Attempts
  <2>3. PICK i \in A : e.session = i.session
    BY <1>6, <1>9, <2>2
  <2>4. h[i] = Instance(z, i.session, t)
    BY <1>11
  <2>5. QED
    BY <2>1, <2>2, <2>3, <2>4
<1>15. \A i, j \in A : h[i] = h[j] => i = j
  <2>1. \A i, j \in A : i.session = j.session => i = j
    BY <1>1
  <2>2. QED
    BY <1>12, <2>1
<1>16. Matches(A, h, OfTaskIn(z, t))
  BY <1>13, <1>14, <1>15 DEF Matches
<1>17. QED
  BY <1>12, <1>16

\* What the metrics of a task are traced to.
TracedTo(m, x, S) ==
  /\ m.trace.completion = Trace(x, AllEnds(S))
  /\ m.trace.timeOnTask = Trace(x, AllEnds({j \in S : Successful(j)}))

\* Metrics of a task are traced to what its instances start and end with.
LEMMA MetricTraced ==
  ASSUME NEW x, NEW t
  PROVE  TracedTo(TaskMetric(x, t), x, OfTaskIn(x, t))
<1> DEFINE S == OfTaskIn(x, t)
           m == TaskMetric(x, t)
<1>1. {i \in Instances(x) : i.task = t /\ i.started # {}} = S
  BY DEF StartedIn, OfTaskIn
<1> HIDE DEF S
<1>2. m = MetricOf(t, S, TaskTrace(x, S))
  BY <1>1 DEF TaskMetric
<1> HIDE DEF m
<1>3. m.trace = TaskTrace(x, S)
  BY <1>2 DEF MetricOf
<1>4. TracedTo(m, x, S)
  BY <1>3 DEF TaskTrace, TracedTo, AllEnds
<1>5. QED
  BY <1>4 DEF m, S

\* Matched instances with the same outcomes give the same numbers.
LEMMA MatchedMetrics ==
  ASSUME NEW S, IsFiniteSet(S), NEW h, NEW P, Matches(S, h, P),
         \A i \in S : h[i].outcome = i.outcome,
         NEW t, NEW m, NEW n, CountsTask(m, t, S), CountsTask(n, t, P)
  PROVE  n.outcomes = m.outcomes /\ n.eligible = m.eligible
<1>1. ASSUME NEW o
      PROVE  Cardinality({i \in P : i.outcome = o}) = Cardinality({i \in S : i.outcome = o})
  <2> DEFINE A == {i \in S : i.outcome = o}
             B == {i \in P : i.outcome = o}
  <2>1. A \in SUBSET S /\ B \in SUBSET P /\ \A i \in S : i \in A <=> h[i] \in B
    BY DEF Matches
  <2> HIDE DEF A, B
  <2>2. Cardinality(B) = Cardinality(A)
    BY <2>1, MatchedCounts
  <2>3. QED
    BY <2>2 DEF A, B
<1>2. Cardinality(P) = Cardinality(S)
  <2>1. \A i \in S : i \in S <=> h[i] \in P
    BY DEF Matches
  <2>2. QED
    BY <2>1, MatchedCounts
<1> DEFINE c(o) == Cardinality({i \in S : i.outcome = o})
           d(o) == Cardinality({i \in P : i.outcome = o})
<1>3. \A o : d(o) = c(o)
  BY <1>1
<1>4. /\ m.outcomes = [o \in TaskOutcomes |-> c(o)]
      /\ m.eligible = Cardinality(S) - c("technical_blocked")
      /\ n.outcomes = [o \in TaskOutcomes |-> d(o)]
      /\ n.eligible = Cardinality(P) - d("technical_blocked")
  BY DEF CountsTask
<1> HIDE DEF c, d
<1>5. [o \in TaskOutcomes |-> c(o)] = [o \in TaskOutcomes |-> d(o)]
  BY <1>3
<1>6. QED
  BY <1>2, <1>3, <1>4, <1>5

\* Matched instances that took as long give the same times.
LEMMA MatchedTimes ==
  ASSUME NEW S, IsFiniteSet(S), NEW h, NEW P, Matches(S, h, P),
         \A i \in S : h[i].duration = i.duration, \A i \in S : i.duration \in Nat
  PROVE  Durations(P) = Durations(S)
<1> DEFINE g == [i \in S |-> i.duration]
           k == [p \in P |-> p.duration]
<1>1. \A p \in P : p.duration \in Nat
  BY DEF Matches
<1>2. Durations(S) = InOrderOf(S, g) /\ Durations(P) = InOrderOf(P, k)
  BY <1>1, DurationsInOrder
<1>3. \A i \in S : g[i] = k[h[i]]
  BY DEF Matches
<1> HIDE DEF g, k
<1>4. InOrderOf(S, g) = InOrderOf(P, k)
  BY <1>3, MatchedOrder
<1>5. QED
  BY <1>2, <1>4

\* The numbers of a task, from the rows its metrics are traced to.
LEMMA MetricAgain ==
  ASSUME TablesInv, EvidenceInv,
         NEW x, IsList(x), Elements(x) = Elements(rows),
         NEW y, IsList(y), Elements(y) = Elements(rows),
         NEW t, NEW m, m = TaskMetric(x, t)
  PROVE  /\ TaskMetric(Only(y, m.trace.completion), t).outcomes = m.outcomes
         /\ TaskMetric(Only(y, m.trace.completion), t).eligible = m.eligible
         /\ TaskMetric(Only(y, m.trace.timeOnTask), t).durations = m.durations
<1> DEFINE S == OfTaskIn(x, t)
           done == {i \in S : Successful(i)}
<1>1. CountsTask(m, t, S) /\ TracedTo(m, x, S)
  BY MetricFields, MetricTraced
<1>2. IsFiniteSet(S) /\ IsFiniteSet(done)
  <2>1. IsFiniteSet(Elements(x))
    BY ElementsFacts DEF IsList
  <2>2. IsFiniteSet(StartedIn(x))
    BY <2>1, InstancesFinite
  <2>3. S \in SUBSET StartedIn(x) /\ done \in SUBSET StartedIn(x)
    BY DEF OfTaskIn
  <2> HIDE DEF S, done
  <2>4. QED
    BY <2>2, <2>3, FS_Subset
<1>3. S \in SUBSET OfTaskIn(x, t) /\ done \in SUBSET OfTaskIn(x, t)
  OBVIOUS
<1>4. \A i \in done : i.duration \in Nat
  BY SuccessTook DEF OfTaskIn
<1>5. (\A i \in done : Successful(i)) /\ \A i \in S : Successful(i) => i \in done
  OBVIOUS
<1> HIDE DEF S
<1>6. /\ TaskMetric(Only(y, m.trace.completion), t).outcomes = m.outcomes
      /\ TaskMetric(Only(y, m.trace.completion), t).eligible = m.eligible
  <2> DEFINE z == Only(y, m.trace.completion)
             h == Again(S, z, t)
             P == OfTaskIn(z, t)
             n == TaskMetric(z, t)
  <2>1. z = Only(y, Trace(x, AllEnds(S)))
    BY <1>1 DEF TracedTo
  <2> HIDE DEF z
  <2>2. Matches(S, h, P) /\ \A i \in S : h[i].outcome = i.outcome
    BY <1>3, <2>1, TracedAgain
  <2>3. CountsTask(n, t, P)
    BY MetricFields
  <2> HIDE DEF h, P, n
  <2>4. n.outcomes = m.outcomes /\ n.eligible = m.eligible
    BY <1>1, <1>2, <2>2, <2>3, MatchedMetrics
  <2>5. QED
    BY <2>4 DEF n, z
<1> HIDE DEF done
<1>7. TaskMetric(Only(y, m.trace.timeOnTask), t).durations = m.durations
  <2> DEFINE z == Only(y, m.trace.timeOnTask)
             h == Again(done, z, t)
             P == OfTaskIn(z, t)
             n == TaskMetric(z, t)
  <2>1. z = Only(y, Trace(x, AllEnds(done)))
    BY <1>1 DEF TracedTo, done
  <2> HIDE DEF z
  <2>2. Matches(done, h, P) /\ \A i \in done : h[i].outcome = i.outcome /\ h[i].duration = i.duration
    BY <1>3, <2>1, TracedAgain
  <2>3. CountsTask(n, t, P)
    BY MetricFields
  <2>4. m.durations = Durations(done) /\ n.durations = Durations({i \in P : Successful(i)})
    BY <1>1, <2>3 DEF CountsTask, done
  <2> HIDE DEF h, P, n
  <2>5. {i \in P : Successful(i)} = P
    <3>1. \A i \in done : Successful(h[i])
      BY <1>5, <2>2 DEF Successful
    <3>2. QED
      BY <2>2, <3>1 DEF Matches
  <2>6. Durations(P) = Durations(done)
    BY <1>2, <1>4, <2>2, MatchedTimes
  <2>7. QED
    BY <2>4, <2>5, <2>6 DEF n, z
<1>8. QED
  BY <1>6, <1>7

\* The rows a metric is traced to reproduce it.
LEMMA TracesReproduce ==
  ASSUME TablesInv, EvidenceInv
  PROVE  TraceReproducesMetric
<1> DEFINE x == Accepted(Table)
<1>1. /\ IsList(Table) /\ Elements(Table) = Elements(rows)
      /\ IsList(x) /\ Elements(x) = Elements(rows)
  BY TableElements, AcceptedElements
<1>2. \A m \in Analytics(Table).tasks : \E t : m = TaskMetric(x, t) /\ m.task = t
  <2>1. \A t : TaskMetric(x, t).task = t
    BY DEF TaskMetric, MetricOf
  <2>2. QED
    BY <2>1 DEF Analytics
<1> HIDE DEF x
<1>3. ASSUME NEW m \in Analytics(Table).tasks
      PROVE  /\ TaskMetric(Only(Table, m.trace.completion), m.task).outcomes = m.outcomes
             /\ TaskMetric(Only(Table, m.trace.completion), m.task).eligible = m.eligible
             /\ TaskMetric(Only(Table, m.trace.timeOnTask), m.task).durations = m.durations
  <2>1. PICK t : m = TaskMetric(x, t) /\ m.task = t
    BY <1>2
  <2>2. QED
    BY <1>1, <2>1, MetricAgain
<1>4. QED
  BY <1>3 DEF TraceReproducesMetric, Only

-----------------------------------------------------------------------------
(* What is available has evidence. *)

\* Something is traced to what there is, and only to rows.
LEMMA TraceOfSome ==
  ASSUME NEW x, NEW ids
  PROVE  /\ ids # {} => Trace(x, ids) # {}
         /\ ids \subseteq Ids(x) => Trace(x, ids) \subseteq Ids(x)
<1> DEFINE more == UNION {{r.id : r \in Sources(x, e)} :
                            e \in {d \in Elements(x) : d.id \in ids /\ ~IsRaw(d)}}
<1>1. Trace(x, ids) = ids \cup more
  BY DEF Trace
<1>2. more \subseteq Ids(x)
  BY DEF Sources, Ids
<1> HIDE DEF more
<1>3. QED
  BY <1>1, <1>2

\* An instance that was started ends with rows, and its clicks are rows.
LEMMA InstanceRows ==
  ASSUME NEW x, IsList(x), NEW i \in StartedIn(x)
  PROVE  /\ EndIds(i) # {} /\ EndIds(i) \subseteq Ids(x) /\ i.clicks \subseteq Ids(x)
         /\ i.pointers = 0 \/ i.clicks # {}
<1> DEFINE s == i.session
           t == i.task
           attempt == AttemptRows(x, s, t)
           pointers == {k \in DOMAIN attempt : IsRaw(attempt[k])
                                               /\ attempt[k].type = "pointer_interaction"}
           misclicks == {k \in DOMAIN attempt : ~IsRaw(attempt[k]) /\ attempt[k].type = "misclick"}
<1>1. i = Instance(x, s, t) /\ i.started # {}
  BY InstanceFields DEF StartedIn
<1>2. Elements(attempt) \subseteq Elements(x)
  <2>1. Elements(attempt) = {e \in Elements(x) : e.session = s /\ e.task = t}
    BY AttemptElements
  <2> HIDE DEF attempt
  <2>2. QED
    BY <2>1
<1>3. /\ i.started = FirstOf(attempt, {"task_started"}) /\ i.terminal = Terminal(x, attempt)
      /\ i.pointers = Cardinality(pointers)
      /\ i.clicks = {attempt[k].id : k \in pointers \cup misclicks}
  BY <1>1 DEF Instance, InstanceOf
<1>4. i.started \subseteq Elements(attempt) /\ i.terminal \subseteq Elements(attempt)
  BY <1>3 DEF FirstOf, Terminal, TerminalRows, Foremost
<1>5. i.clicks \subseteq Ids(x)
  <2>1. \A k \in pointers \cup misclicks : attempt[k] \in Elements(x)
    BY <1>2 DEF Elements
  <2> HIDE DEF pointers, misclicks, attempt
  <2>2. QED
    BY <1>3, <2>1 DEF Ids
<1> HIDE DEF pointers, misclicks, attempt, s, t
<1>6. i.pointers = 0 \/ i.clicks # {}
  <2>1. CASE pointers = {}
    BY <1>3, <2>1, FS_EmptySet
  <2>2. CASE pointers # {}
    BY <1>3, <2>2
  <2>3. QED
    BY <2>1, <2>2
<1>7. EndIds(i) \subseteq Ids(x)
  BY <1>2, <1>4 DEF EndIds, Ids
<1>8. EndIds(i) # {}
  BY <1>1 DEF EndIds
<1>9. QED
  BY <1>5, <1>6, <1>7, <1>8

\* The evidence of a task, and what its metrics are traced to.
HasEvidence(m, x) ==
  /\ m.eligible # 0 => m.trace.completion # {}
  /\ m.duration.sample # 0 => m.trace.timeOnTask # {}
  /\ m.pointers # 0 => m.trace.misclick # {}
  /\ m.trace.completion \subseteq Ids(x) /\ m.trace.timeOnTask \subseteq Ids(x)
  /\ m.trace.misclick \subseteq Ids(x)

\* A number that is not zero was taken from something.
LEMMA MetricHasEvidence ==
  ASSUME TablesInv, EvidenceInv, NEW x, IsList(x), Elements(x) = Elements(rows), NEW t,
         NEW m, m = TaskMetric(x, t)
  PROVE  HasEvidence(m, x)
<1> DEFINE S == OfTaskIn(x, t)
           done == {i \in S : Successful(i)}
           counted == {i \in S : Eligible(i)}
           clicks == UNION {i.clicks : i \in counted}
<1>1. \A i \in S : i \in StartedIn(x)
  BY DEF OfTaskIn
<1>2. {i \in Instances(x) : i.task = t /\ i.started # {}} = S
  BY DEF StartedIn, OfTaskIn
<1>3. \A i \in S : Successful(i) => i.duration \in Nat
  BY <1>1, SuccessTook
<1>4. IsFiniteSet(S) /\ IsFiniteSet(done)
  <2>1. IsFiniteSet(Elements(x))
    BY ElementsFacts DEF IsList
  <2>2. IsFiniteSet(StartedIn(x))
    BY <2>1, InstancesFinite
  <2>3. S \in SUBSET StartedIn(x) /\ done \in SUBSET StartedIn(x)
    BY <1>1
  <2> HIDE DEF S, done
  <2>4. QED
    BY <2>2, <2>3, FS_Subset
<1> HIDE DEF S
<1>5. m = MetricOf(t, S, TaskTrace(x, S))
  BY <1>2 DEF TaskMetric
<1>6. /\ m.trace.completion = Trace(x, AllEnds(S)) /\ m.trace.timeOnTask = Trace(x, AllEnds(done))
      /\ m.trace.misclick = Trace(x, clicks)
  BY <1>5 DEF MetricOf, TaskTrace, AllEnds
<1>7. /\ m.eligible = Cardinality(S) - Cardinality({i \in S : i.outcome = "technical_blocked"})
      /\ m.duration.sample = Len(Durations(done))
      /\ m.pointers = SumOver(counted, LAMBDA i : i.pointers)
  BY <1>5 DEF MetricOf, DurationSummary, TaskOutcomes
<1>8. AllEnds(S) \subseteq Ids(x) /\ AllEnds(done) \subseteq Ids(x) /\ clicks \subseteq Ids(x)
  BY <1>1, InstanceRows DEF AllEnds
<1>9. m.eligible # 0 => AllEnds(S) # {}
  <2>1. CASE S = {}
    <3>1. {i \in S : i.outcome = "technical_blocked"} = {}
      BY <2>1
    <3>2. QED
      BY <1>7, <2>1, <3>1, FS_EmptySet
  <2>2. CASE S # {}
    BY <1>1, <2>2, InstanceRows DEF AllEnds
  <2>3. QED
    BY <2>1, <2>2
<1>10. m.duration.sample # 0 => AllEnds(done) # {}
  <2>1. CASE done = {}
    <3> DEFINE o == Durations(done)
    <3>1. \A i \in done : i.duration \in Nat
      BY <2>1
    <3> HIDE DEF done
    <3>2. o = [k \in 1 .. Cardinality(done) |-> o[k]]
      BY <1>4, <3>1, DurationsFacts
    <3>3. Cardinality(done) = 0
      BY <2>1, FS_EmptySet
    <3> HIDE DEF o
    <3>4. o = <<>>
      BY <3>2, <3>3
    <3>5. QED
      BY <1>7, <3>4 DEF o
  <2>2. CASE done # {}
    BY <1>1, <2>2, InstanceRows DEF AllEnds
  <2>3. QED
    BY <2>1, <2>2
<1>11. m.pointers # 0 => clicks # {}
  <2> DEFINE P == UNION {{i} \X (1 .. i.pointers) : i \in counted}
  <2>1. m.pointers = Cardinality(P)
    BY <1>7 DEF SumOver
  <2>2. CASE \A i \in counted : i.pointers = 0
    <3>1. P = {}
      BY <2>2
    <3>2. QED
      BY <2>1, <3>1, FS_EmptySet
  <2>3. CASE ~\A i \in counted : i.pointers = 0
    <3>1. PICK i \in counted : i.pointers # 0
      BY <2>3
    <3>2. i.clicks # {}
      BY <1>1, <3>1, InstanceRows
    <3>3. QED
      BY <3>1, <3>2
  <2>4. QED
    BY <2>2, <2>3
<1> HIDE DEF clicks, done
<1>12. QED
  BY <1>6, <1>8, <1>9, <1>10, <1>11, TraceOfSome DEF HasEvidence

\* An observation that is available has evidence.
LEMMA ObservationShown ==
  ASSUME NEW needs, NEW value, NEW evidence, NEW refs, evidence # 0 => refs # {}
  PROVE  /\ Presented(Observation(needs, value, evidence, refs))
              = Observation(needs, value, evidence, refs).availability
         /\ Observation(needs, value, evidence, refs).refs = refs
<1> DEFINE o == Observation(needs, value, evidence, refs)
<1>1. /\ o.refs = refs /\ o.evidence = evidence
      /\ o.availability = Availability(needs, value, evidence)
  BY DEF Observation
<1>2. o.availability = "Available" => evidence # 0
  BY <1>1 DEF Availability
<1> HIDE DEF o
<1>3. QED
  BY <1>1, <1>2 DEF Presented, o

\* What is available has evidence among the rows.
LEMMA AvailableIsEvidenced ==
  ASSUME TablesInv, EvidenceInv
  PROVE  AvailableHasEvidence
<1> DEFINE x == Accepted(Table)
<1>1. /\ IsList(Table) /\ Elements(Table) = Elements(rows)
      /\ IsList(x) /\ Elements(x) = Elements(rows)
  BY TableElements, AcceptedElements
<1>2. \A m \in Analytics(Table).tasks : \E t : m = TaskMetric(x, t)
  BY DEF Analytics
<1> HIDE DEF x
<1>3. ASSUME NEW m \in Analytics(Table).tasks, NEW k \in DOMAIN TaskObservations(m)
      PROVE  /\ Presented(TaskObservations(m)[k]) = TaskObservations(m)[k].availability
             /\ TaskObservations(m)[k].refs \subseteq Ids(rows)
  <2>1. PICK t : m = TaskMetric(x, t)
    BY <1>2
  <2>2. HasEvidence(m, x)
    BY <1>1, <2>1, MetricHasEvidence
  <2>3. Ids(x) = Ids(rows)
    BY <1>1 DEF Ids
  <2>4. PICK needs, value, evidence, refs :
          /\ TaskObservations(m)[k] = Observation(needs, value, evidence, refs)
          /\ evidence # 0 => refs # {}
          /\ refs \subseteq Ids(rows)
    <3>1. /\ m.eligible # 0 => m.trace.completion # {}
          /\ m.duration.sample # 0 => m.trace.timeOnTask # {}
          /\ m.pointers # 0 => m.trace.misclick # {}
          /\ m.trace.completion \subseteq Ids(rows) /\ m.trace.timeOnTask \subseteq Ids(rows)
          /\ m.trace.misclick \subseteq Ids(rows)
      BY <2>2, <2>3 DEF HasEvidence
    <3> DEFINE o == TaskObservations(m)
    <3>2. k \in {"completionRate", "median", "p75", "p90", "giveUpRate", "misclickRate"}
      BY DEF TaskObservations
    <3>3. /\ o["completionRate"] = Observation({}, m.completionRate, m.eligible, m.trace.completion)
          /\ o["median"] = Observation({}, m.duration.median, m.duration.sample, m.trace.timeOnTask)
          /\ o["p75"] = Observation({}, m.duration.p75, m.duration.sample, m.trace.timeOnTask)
          /\ o["p90"] = Observation({}, m.duration.p90, m.duration.sample, m.trace.timeOnTask)
          /\ o["giveUpRate"] = Observation({}, m.giveUpRate, m.eligible, m.trace.completion)
          /\ o["misclickRate"]
               = Observation({"pointer"}, m.misclickRate, m.pointers, m.trace.misclick)
      BY DEF TaskObservations
    <3> HIDE DEF o
    <3>4. CASE k = "completionRate"
      BY <3>1, <3>3, <3>4 DEF o
    <3>5. CASE k = "median"
      BY <3>1, <3>3, <3>5 DEF o
    <3>6. CASE k = "p75"
      BY <3>1, <3>3, <3>6 DEF o
    <3>7. CASE k = "p90"
      BY <3>1, <3>3, <3>7 DEF o
    <3>8. CASE k = "giveUpRate"
      BY <3>1, <3>3, <3>8 DEF o
    <3>9. CASE k = "misclickRate"
      BY <3>1, <3>3, <3>9 DEF o
    <3>10. QED
      BY <3>2, <3>4, <3>5, <3>6, <3>7, <3>8, <3>9
  <2>5. QED
    BY <2>4, ObservationShown
<1>4. QED
  BY <1>3 DEF AvailableHasEvidence

\* Before the page is opened, the results of the rows that a metric is traced to
\* are the metric, and what is available is traced to rows.
THEOREM NumbersTracedHolds == ReadSpec => []NumbersTraced
<1>1. ReadInvariant /\ EvidenceInv => NumbersTraced
  BY TracesReproduce, AvailableIsEvidenced DEF NumbersTraced, ReadInvariant
<1>2. QED
  BY <1>1, ReadInvariantHolds, EvidenceHolds, PTL
=============================================================================
