-------------------------- MODULE EvidenceDelivery --------------------------
(***************************************************************************)
(* The path of raw evidence from the participant's browser to the events   *)
(* table: createEventOutbox over localStorage, the runner page that feeds  *)
(* and flushes it, the session-bound ingestion credential, POST /v1/events *)
(* with its one-time token gate, bounded persistence retry, dead letters,  *)
(* and the two uniqueness constraints of the table.                        *)
(*                                                                         *)
(* One participant session, reached from the browser tabs Tabs: they share *)
(* its cookie and its localStorage outbox, each has its own page state.    *)
(* An event is named by its place in log; outbox, batches and the table    *)
(* are sets of such names (the outbox array is in emission order).         *)
(* A step ends where the code awaits the network.  localStorage calls      *)
(* settle within the step that makes them.                                 *)
(***************************************************************************)
EXTENDS Integers, Sequences, FiniteSets, FiniteSetsExt

CONSTANTS
  Tabs,         \* browser tabs opened on the session
  FirstTab,     \* the tab in which consent was given
  Tokens,       \* ingestion tokens in circulation at a time (a fresh uuid each)
  NoToken,
  Kinds,        \* (source, eventType) pairs, as they enter an idempotencyKey
  Opening,      \* session_started
  Closing,      \* a session terminal event
  MaxBatch,     \* maxBatchSize of the outbox
  MaxAttempts,  \* persistence attempts per event and request
  MaxEvents     \* bound on the events of the session

ASSUME DeliveryAssumption ==
  /\ FirstTab \in Tabs
  /\ NoToken \notin Tokens
  /\ Tokens # {}
  /\ {Opening, Closing} \subseteq Kinds
  /\ Opening # Closing
  /\ MaxBatch \in Nat \ {0}
  /\ MaxAttempts \in Nat \ {0}
  /\ MaxEvents \in Nat \ {0}

VARIABLES
  log,       \* every event the tabs ever emitted, in order
  stored,    \* localStorage: events enqueued and not yet acknowledged
  page,      \* page[t]: what the runner of tab t shows
  sequence,  \* sequence[t]: last sequence number of the tab's lifecycle
  ended,     \* ended[t]: sessionTerminal of the tab's lifecycle
  seen,      \* seen[t]: lastSequence read from the server by a loading page
  phase,     \* phase[t]: where the tab's flush is
  batch,     \* batch[t]: the slice that flush is delivering
  token,     \* token[t]: the credential of its request
  requests,  \* POST /v1/events on the network or in a server function
  consumed,  \* ingestion_token_uses
  recorded,  \* the raw rows of public.events
  dlq,       \* event_ingestion_dlq
  active     \* sessions.status = 'active'

tabVars == <<page, sequence, ended, seen>>
flushVars == <<phase, batch, token>>
serverVars == <<consumed, recorded, dlq, active>>
vars == <<log, stored, tabVars, flushVars, requests, serverVars>>

-----------------------------------------------------------------------------

Event == [seq : 1..MaxEvents, kind : Kinds]
Pages == {"closed", "loading", "starting", "recovering", "open", "finished"}
Phases == {"idle", "credential", "upload", "drained"}
Stages == {"sent", "persisting", "accepted", "rejected"}
Request == [token : Tokens, rest : SUBSET (1..MaxEvents),
            attempt : 1..MaxAttempts, stage : Stages]

\* session and key are the same for all: two events have the same identity
\* iff their sequence number and kind agree, that is, iff log[d] = log[e].
Held(event) == \E d \in stored : log[d] = event

\* sessionState.lastSequence
LastSequence == Max({0} \cup {log[e].seq : e \in recorded})

\* (faulty variant) recovery numbers from the server alone.
PendingSequenceIgnored == 0

\* maxPendingSequence over the durable outbox
PendingSequence == Max({0} \cup {log[e].seq : e \in stored})

\* (faulty variant) the newest events first: current.slice(-maxBatchSize).
NewestInstead(S) == {e \in S : Cardinality({d \in S : d > e}) < MaxBatch}

\* current.slice(0, maxBatchSize)
Oldest(S) == {e \in S : Cardinality({d \in S : d < e}) < MaxBatch}

\* The head of the flushOnce loop, in a page showing p, when the outbox holds
\* S: take a batch and ask for a credential, or resolve.  What awaits the
\* flush then goes on: a recovering page reads the session state, a starting
\* page opens, a page that emitted the terminal event shows "complete".
FlushLoop(t, p, S) ==
  LET empty == S = {} IN
  /\ phase' = [phase EXCEPT ![t] = IF ~empty THEN "credential"
                                   ELSE IF p = "recovering" THEN "drained"
                                   ELSE "idle"]
  /\ batch' = [batch EXCEPT ![t] = Oldest(S)]
  /\ token' = [token EXCEPT ![t] = NoToken]
  /\ page' = [page EXCEPT ![t] =
                IF empty /\ p = "starting" THEN "open"
                ELSE IF empty /\ p = "open" /\ ended'[t] THEN "finished"
                ELSE p]

\* The reply to request r reaches its tab only if the tab still waits for it.
Awaited(r) == \E t \in Tabs : phase[t] = "upload" /\ token[t] = r.token
Reply(r, stage) ==
  requests' = (requests \ {r}) \cup
              {q \in {[r EXCEPT !.stage = stage]} : Awaited(r)}

\* Requests left when tab t stops waiting: a reply on its way to it is lost,
\* a request already sent goes on.
WithoutReply(t) ==
  {r \in requests : ~(r.token = token[t] /\ r.stage \in {"accepted", "rejected"})}

-----------------------------------------------------------------------------
(* The runner page *)

\* A participant interaction or lifecycle operation emits an event: the
\* outbox enqueues it unless a pending event has its identity, and deliver()
\* starts a flush or joins the one under way.
Emit(t, k) ==
  LET event == [seq |-> sequence[t] + 1, kind |-> k] IN
  /\ page[t] = "open" /\ ~ended[t]
  /\ Len(log) < MaxEvents
  /\ ~Held(event)
  /\ log' = Append(log, event)
  /\ stored' = stored \cup {Len(log) + 1}
  /\ sequence' = [sequence EXCEPT ![t] = @ + 1]
  /\ ended' = [ended EXCEPT ![t] = (k = Closing)]
  /\ IF phase[t] = "idle" THEN FlushLoop(t, page[t], stored')
     ELSE UNCHANGED <<page, flushVars>>
  /\ UNCHANGED <<seen, requests, serverVars>>

\* The participant retries, or the browser is online again.
Retry(t) ==
  /\ page[t] \in {"recovering", "open", "finished"}
  /\ phase[t] = "idle"
  /\ UNCHANGED <<log, stored, sequence, ended, seen, requests, serverVars>>
  /\ FlushLoop(t, page[t], stored)

\* (Re)loading the runner: the page state is lost, requests under way are not,
\* and the bootstrap reads the session state from the server.
Load(t) ==
  /\ page' = [page EXCEPT ![t] = "loading"]
  /\ seen' = [seen EXCEPT ![t] = LastSequence]
  /\ ended' = [ended EXCEPT ![t] = ~active]
  /\ phase' = [phase EXCEPT ![t] = "idle"]
  /\ batch' = [batch EXCEPT ![t] = {}]
  /\ token' = [token EXCEPT ![t] = NoToken]
  /\ requests' = WithoutReply(t)
  /\ UNCHANGED <<log, stored, sequence, serverVars>>

\* configureRuntime on the state read by Load: numbering goes on above the
\* server's last sequence and the pending outbox, a session nothing is known
\* of is started, and the recovery card delivers what is pending.
Configure(t) ==
  LET last == Max({seen[t], PendingSequence})
      started == seen[t] > 0 \/ \E e \in stored : log[e].kind = Opening
      start == ~started /\ ~ended[t]
  IN
  /\ page[t] = "loading"
  /\ start => Len(log) < MaxEvents
  /\ sequence' = [sequence EXCEPT ![t] = IF start THEN last + 1 ELSE last]
  /\ log' = IF start THEN Append(log, [seq |-> last + 1, kind |-> Opening]) ELSE log
  /\ stored' = IF start THEN stored \cup {Len(log) + 1} ELSE stored
  /\ UNCHANGED <<ended, seen, requests, serverVars>>
  /\ FlushLoop(t, "recovering", stored')

\* The recovery card found the outbox drained and infers the page from the
\* session state: back to the tasks, or the session is over.
Resume(t) ==
  /\ phase[t] = "drained"
  /\ phase' = [phase EXCEPT ![t] = "idle"]
  /\ page' = [page EXCEPT ![t] = IF active THEN "open" ELSE "finished"]
  /\ UNCHANGED <<log, stored, sequence, ended, seen, batch, token, requests, serverVars>>

\* The same flush was started by the online handler, which moves on from the
\* current task's outcome whatever the session status is.
OnlineResume(t) ==
  /\ phase[t] = "drained"
  /\ phase' = [phase EXCEPT ![t] = "idle"]
  /\ page' = [page EXCEPT ![t] = "open"]
  /\ UNCHANGED <<log, stored, sequence, ended, seen, batch, token, requests, serverVars>>

\* The state request failed: the recovery card stays, the bootstrap gives up.
ResumeFails(t) ==
  /\ phase[t] = "drained"
  /\ phase' = [phase EXCEPT ![t] = "idle"]
  /\ \E p \in {"recovering", "finished"} : page' = [page EXCEPT ![t] = p]
  /\ UNCHANGED <<log, stored, sequence, ended, seen, batch, token, requests, serverVars>>

-----------------------------------------------------------------------------
(* The flush of one tab *)

\* POST /api/public/sessions/token mints a token while the session is active,
\* and the batch leaves with it.  Any token nobody holds stands for a new uuid.
Credential(t) ==
  /\ phase[t] = "credential"
  /\ active
  /\ \E k \in Tokens \ ({r.token : r \in requests} \cup {token[u] : u \in Tabs}) :
       /\ token' = [token EXCEPT ![t] = k]
       /\ consumed' = consumed \ {k}
       /\ requests' = requests \cup
            {[token |-> k, rest |-> batch[t], attempt |-> 1, stage |-> "sent"]}
  /\ phase' = [phase EXCEPT ![t] = "upload"]
  /\ UNCHANGED <<log, stored, tabVars, batch, recorded, dlq, active>>

\* (faulty variant) a 202 reply empties the outbox.
DeliveredClearsAll(t) ==
  \E r \in requests :
    /\ phase[t] = "upload" /\ r.token = token[t] /\ r.stage = "accepted"
    /\ requests' = requests \ {r}
    /\ stored' = {}
    /\ UNCHANGED <<log, sequence, ended, seen, serverVars>>
    /\ FlushLoop(t, page[t], stored')

\* A 202 reply: forget the delivered identities in the latest outbox, go on.
Delivered(t) ==
  \E r \in requests :
    /\ phase[t] = "upload" /\ r.token = token[t] /\ r.stage = "accepted"
    /\ requests' = requests \ {r}
    /\ stored' = {e \in stored : ~\E d \in batch[t] : log[d] = log[e]}
    /\ UNCHANGED <<log, sequence, ended, seen, serverVars>>
    /\ FlushLoop(t, page[t], stored')

\* (faulty variant) a failed flush stays the single flight for ever.
FlushFailsStuck(t) ==
  /\ phase[t] \in {"credential", "upload"}
  /\ batch' = [batch EXCEPT ![t] = {}]
  /\ phase' = [phase EXCEPT ![t] = "upload"]
  /\ token' = [token EXCEPT ![t] = NoToken]
  /\ requests' = WithoutReply(t)
  /\ UNCHANGED <<log, stored, tabVars, serverVars>>

\* The credential was refused or the network failed; a reply may be lost that
\* way, and an error reply ends the flush too.  deliver() throws: most flows
\* show the recovery card, a bridge flow stays where it is.
FlushFails(t) ==
  /\ phase[t] \in {"credential", "upload"}
  /\ phase' = [phase EXCEPT ![t] = "idle"]
  /\ batch' = [batch EXCEPT ![t] = {}]
  /\ token' = [token EXCEPT ![t] = NoToken]
  /\ requests' = WithoutReply(t)
  /\ \E p \in (IF page[t] = "starting" THEN {"recovering"}
               ELSE IF page[t] = "open" THEN {"open", "recovering"} ELSE {page[t]}) :
       page' = [page EXCEPT ![t] = p]
  /\ UNCHANGED <<log, stored, sequence, ended, seen, serverVars>>

-----------------------------------------------------------------------------
(* POST /v1/events *)

\* consume_ingestion_token accepts a token once, before anything is persisted.
Admit(r) ==
  /\ r.stage = "sent"
  /\ r.token \notin consumed
  /\ consumed' = consumed \cup {r.token}
  /\ requests' = (requests \ {r}) \cup {[r EXCEPT !.stage = "persisting"]}
  /\ UNCHANGED <<log, stored, tabVars, flushVars, recorded, dlq, active>>

\* 401, 409, 429 or 503 at the gate: expired, spent, rate limited or no answer.
Refuse(r) ==
  /\ r.stage = "sent"
  /\ Reply(r, "rejected")
  /\ UNCHANGED <<log, stored, tabVars, flushVars, serverVars>>

Current(r) == Min(r.rest)
Persisting(r) == r.stage = "persisting" /\ r.rest # {}

\* The handler goes on with the next event of the batch or answers 202.
NextEvent(r) ==
  IF r.rest = {Current(r)} THEN Reply(r, "accepted")
  ELSE requests' = (requests \ {r}) \cup
                   {[r EXCEPT !.rest = @ \ {Current(r)}, !.attempt = 1]}

\* (faulty variants) one attempt too many; a dead letter answered with a 202.
FailedAttemptOnceMore(r) ==
  IF r.attempt <= MaxAttempts
  THEN /\ requests' = (requests \ {r}) \cup {[r EXCEPT !.attempt = @ + 1]}
       /\ UNCHANGED dlq
  ELSE /\ Reply(r, "rejected")
       /\ \E d \in {{}, {Current(r)}} : dlq' = dlq \cup d

FailedAttemptAccepted(r) ==
  IF r.attempt < MaxAttempts
  THEN /\ requests' = (requests \ {r}) \cup {[r EXCEPT !.attempt = @ + 1]}
       /\ UNCHANGED dlq
  ELSE /\ NextEvent(r)
       /\ dlq' = dlq \cup {Current(r)}

\* An attempt threw: try again, up to MaxAttempts; then the event is written
\* to the dead letters (which may fail too) and the request is answered 503.
FailedAttempt(r) ==
  IF r.attempt < MaxAttempts
  THEN /\ requests' = (requests \ {r}) \cup {[r EXCEPT !.attempt = @ + 1]}
       /\ UNCHANGED dlq
  ELSE /\ Reply(r, "rejected")
       /\ \E d \in {{}, {Current(r)}} : dlq' = dlq \cup d

\* No raw row of the session has the event's sequence number.  A row with its
\* key has it as well.
Insertable(e) == \A d \in recorded : log[d].seq # log[e].seq

Record(e) ==
  /\ recorded' = recorded \cup {e}
  /\ active' = (active /\ log[e].kind # Closing)

\* The insert commits together with its projection on the session.
Insert(r) ==
  /\ Persisting(r)
  /\ Insertable(Current(r))
  /\ Record(Current(r))
  /\ NextEvent(r)
  /\ UNCHANGED <<log, stored, tabVars, flushVars, consumed, dlq>>

\* It commits but the function does not hear of it: the attempt fails.
InsertUnheard(r) ==
  /\ Persisting(r)
  /\ Insertable(Current(r))
  /\ Record(Current(r))
  /\ FailedAttempt(r)
  /\ UNCHANGED <<log, stored, tabVars, flushVars, consumed>>

\* (faulty variant) a duplicate is an error.
DuplicateRejected(r) ==
  /\ Persisting(r)
  /\ \E d \in recorded : log[d] = log[Current(r)]
  /\ FailedAttempt(r)
  /\ UNCHANGED <<log, stored, tabVars, flushVars, consumed, recorded, active>>

\* resolution=ignore-duplicates on (session_id, idempotency_key)
Duplicate(r) ==
  /\ Persisting(r)
  /\ \E d \in recorded : log[d] = log[Current(r)]
  /\ NextEvent(r)
  /\ UNCHANGED <<log, stored, tabVars, flushVars, serverVars>>

\* The data API failed, or (session_id, sequence) is taken by another key.
AttemptFails(r) ==
  /\ Persisting(r)
  /\ FailedAttempt(r)
  /\ UNCHANGED <<log, stored, tabVars, flushVars, consumed, recorded, active>>

\* The pointer normalizer threw before any attempt: 503 without a dead letter.
NormalizerFails(r) ==
  /\ Persisting(r)
  /\ r.attempt = 1
  /\ Reply(r, "rejected")
  /\ UNCHANGED <<log, stored, tabVars, flushVars, serverVars>>

\* The request or its reply is lost on the way, or the function is killed.
Lose(r) ==
  /\ requests' = requests \ {r}
  /\ UNCHANGED <<log, stored, tabVars, flushVars, serverVars>>

-----------------------------------------------------------------------------

\* Consent was accepted: configureRuntime enqueued session_started and the
\* first flush sent it with the credential of the session response.
Init ==
  /\ log = <<[seq |-> 1, kind |-> Opening]>>
  /\ stored = {1}
  /\ page = [t \in Tabs |-> IF t = FirstTab THEN "starting" ELSE "closed"]
  /\ sequence = [t \in Tabs |-> IF t = FirstTab THEN 1 ELSE 0]
  /\ ended = [t \in Tabs |-> FALSE]
  /\ seen = [t \in Tabs |-> 0]
  /\ phase = [t \in Tabs |-> IF t = FirstTab THEN "upload" ELSE "idle"]
  /\ batch = [t \in Tabs |-> IF t = FirstTab THEN {1} ELSE {}]
  /\ \E k \in Tokens :
       /\ token = [t \in Tabs |-> IF t = FirstTab THEN k ELSE NoToken]
       /\ requests = {[token |-> k, rest |-> {1}, attempt |-> 1, stage |-> "sent"]}
  /\ consumed = {}
  /\ recorded = {}
  /\ dlq = {}
  /\ active = TRUE

PageStep(t) ==
  \/ \E k \in Kinds \ {Opening} : Emit(t, k)
  \/ Retry(t)
  \/ Load(t)
  \/ Configure(t)
  \/ Resume(t)
  \/ OnlineResume(t)
  \/ ResumeFails(t)

FlushStep(t) == Credential(t) \/ Delivered(t) \/ FlushFails(t)

ServerStep(r) ==
  \/ Admit(r)
  \/ Refuse(r)
  \/ Insert(r)
  \/ InsertUnheard(r)
  \/ Duplicate(r)
  \/ AttemptFails(r)
  \/ NormalizerFails(r)

Next ==
  \/ \E t \in Tabs : PageStep(t) \/ FlushStep(t)
  \/ \E r \in requests : ServerStep(r) \/ Lose(r)

Spec == Init /\ [][Next]_vars

\* A server function always ends, and a browser request succeeds or fails.
\* An event sent again and again is, while its reply is awaited, at some time
\* let through the gate and persisted, and the participant, or the browser back
\* online, keeps retrying.  The code has no retry timer of its own.
Fairness ==
  /\ \A k \in Tokens : WF_vars(\E r \in requests : r.token = k /\ ServerStep(r))
  /\ SF_vars(\E r \in requests : Awaited(r) /\ Admit(r))
  /\ \A e \in 1..MaxEvents :
       SF_vars(\E r \in requests : /\ Awaited(r) /\ r.rest # {} /\ Current(r) = e
                                   /\ Insert(r) \/ Duplicate(r))
  /\ \A t \in Tabs :
       /\ WF_vars(Configure(t))
       /\ WF_vars(Retry(t))
       /\ WF_vars(FlushStep(t))
       /\ SF_vars(Credential(t))
       /\ SF_vars(Delivered(t))
       /\ SF_vars(Resume(t))

FairSpec == Spec /\ Fairness

-----------------------------------------------------------------------------
(* Properties *)

TypeOK ==
  /\ log \in Seq(Event) /\ Len(log) \in 1..MaxEvents
  /\ stored \subseteq 1..Len(log)
  /\ page \in [Tabs -> Pages]
  /\ sequence \in [Tabs -> 0..MaxEvents]
  /\ ended \in [Tabs -> BOOLEAN]
  /\ seen \in [Tabs -> 0..MaxEvents]
  /\ phase \in [Tabs -> Phases]
  /\ batch \in [Tabs -> SUBSET (1..Len(log))]
  /\ token \in [Tabs -> Tokens \cup {NoToken}]
  /\ requests \subseteq Request
  /\ consumed \subseteq Tokens
  /\ recorded \subseteq 1..Len(log)
  /\ dlq \subseteq 1..Len(log)
  /\ active \in BOOLEAN

\* "Removes an event only after accepted delivery": whatever is lost, retried,
\* reloaded or dead-lettered, an emitted event is in the outbox or recorded.
NothingLost == \A e \in 1..Len(log) : e \in stored \cup recorded

\* Evidence arrives in the order it was emitted, with no hole that a later
\* event could be projected across, even while an abandoned request and its
\* retry persist side by side.
EvidenceHasNoGaps == \A e \in recorded : \A d \in 1..e : d \in recorded

\* "Sequence is strictly increasing within one session and recovery continues
\* above both the last accepted server sequence and any durable
\* pending-outbox sequence."
SequenceIncreases ==
  \A d, e \in 1..Len(log) : d < e => log[d].seq < log[e].seq

\* Delivery implements the abstract evidence log.
Evidence == INSTANCE EvidenceLog WITH emitted <- Len(log), held <- stored
ImplementsEvidenceLog == Evidence!LogSpec

\* Every event emitted while the session is active reaches the table, or the
\* session ends first.
EventuallyRecorded ==
  \A e \in 1..MaxEvents : (e <= Len(log)) ~> (e \in recorded \/ ~active)

\* The recovery card gives way as long as the session is active.
RecoveryEndsWhileActive ==
  \A t \in Tabs : (page[t] = "recovering") ~> (page[t] # "recovering" \/ ~active)

\* "We will return to the same point when connected": the recovery card gives
\* way, whatever the session status.
RecoveryEnds == \A t \in Tabs : (page[t] = "recovering") ~> (page[t] # "recovering")

\* Recovery avoids "repeated feedback/completion after reload": the terminal
\* event of the session is emitted once.
CompletionEmittedOnce ==
  \A d, e \in 1..Len(log) : log[d].kind = Closing /\ log[e].kind = Closing => d = e
=============================================================================
