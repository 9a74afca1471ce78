------------------------------ MODULE TokenGate ------------------------------
(***************************************************************************)
(* The gate in front of the event collector: a request carries a token of  *)
(* the participant session, which withSessionIngestionAuth verifies and    *)
(* consume_ingestion_token consumes in the database, at most Limit per     *)
(* session and Window.  The function is one transaction of several         *)
(* statements, and each sees what was committed when it began; now() is    *)
(* when the transaction did.  A purge of the session deletes its uses.     *)
(*                                                                         *)
(* EvidenceDelivery has the outbox before the gate and the collector       *)
(* behind it; here are parallel requests, time and the rate limit.  The    *)
(* clocks of server and database are taken to agree.                       *)
(***************************************************************************)
EXTENDS Integers, FiniteSets

CONSTANTS
  Tokens,    \* signed for the session
  Slots,     \* requests at a time
  Limit,     \* EVENT_INGESTION_RATE_LIMIT_PER_MINUTE
  Window,    \* the minute
  Lifetime,  \* of a token
  MaxNow     \* bound on time

ASSUME GateAssumption ==
  /\ Limit \in Nat \ {0} /\ Window \in Nat \ {0} /\ Lifetime \in Nat /\ MaxNow \in Nat
  /\ IsFiniteSet(Slots)

VARIABLES
  now,
  minted,   \* when each token was; -1 before
  uses,     \* ingestion_token_uses: [token, at]
  live,     \* whether the session exists
  request,  \* [step, token, at] of each slot
  served    \* how often the collector was called with each token

vars == <<now, minted, uses, live, request, served>>

Steps == {"idle", "sent", "new", "counted", "accepted"}

Init ==
  /\ now = 0 /\ uses = {} /\ live = TRUE
  /\ minted = [t \in Tokens |-> -1]
  /\ request \in [Slots -> {[step |-> "idle", token |-> t, at |-> 0] : t \in Tokens}]
  /\ \A r, s \in Slots : request[r] = request[s]
  /\ served = [t \in Tokens |-> 0]

Used(t) == \E u \in uses : u.token = t
To(s, step) == request' = [request EXCEPT ![s].step = step]
Answered(s) == To(s, "idle")

(* refreshIngestionToken of the public session API.                        *)
Mint(t) ==
  /\ live /\ minted[t] = -1
  /\ minted' = [minted EXCEPT ![t] = now]
  /\ UNCHANGED <<now, uses, live, request, served>>

Expired(t) == minted[t] + Lifetime <= now

(* A request, perhaps again with the token of an earlier one, passes the   *)
(* verification: signed, not expired, and all its events of the session.   *)
(* The function begins.                                                    *)
Arrive(s, t) ==
  /\ request[s].step = "idle" /\ minted[t] # -1 /\ ~Expired(t)
  /\ request' = [request EXCEPT ![s] = [step |-> "sent", token |-> t, at |-> now]]
  /\ UNCHANGED <<now, minted, uses, live, served>>

(* exists: a used token is answered with 409.                              *)
Look(s) ==
  /\ request[s].step = "sent"
  /\ To(s, IF Used(request[s].token) THEN "idle" ELSE "new")
  /\ UNCHANGED <<now, minted, uses, live, served>>

Recent(at) == {u \in uses : u.at >= at - Window}

(* One more than the limit (faulty variant).                               *)
MayPassOneMore(at) == Cardinality(Recent(at)) <= Limit

MayPass(at) == Cardinality(Recent(at)) < Limit

(* count: beyond the limit the answer is 429.                              *)
Count(s) ==
  /\ request[s].step = "new"
  /\ To(s, IF MayPass(request[s].at) THEN "counted" ELSE "idle")
  /\ UNCHANGED <<now, minted, uses, live, served>>

(* The lookup decides, there is no unique key (faulty variant).            *)
CanInsertAgain(t) == live

(* The unique key on the token (409) and the foreign key to the session    *)
(* (503).                                                                  *)
CanInsert(t) == live /\ ~Used(t)

Insert(s) ==
  /\ request[s].step = "counted"
  /\ IF CanInsert(request[s].token)
     THEN /\ uses' = uses \cup {[token |-> request[s].token, at |-> request[s].at]}
          /\ To(s, "accepted")
     ELSE Answered(s) /\ UNCHANGED uses
  /\ UNCHANGED <<now, minted, live, served>>

(* Once accepted, the collector is called.                                 *)
Serve(s) ==
  /\ request[s].step = "accepted"
  /\ served' = [served EXCEPT ![request[s].token] = @ + 1]
  /\ Answered(s)
  /\ UNCHANGED <<now, minted, uses, live>>

(* The call of the function or its reply gets lost: 503.                   *)
Lose(s) ==
  /\ request[s].step # "idle"
  /\ Answered(s)
  /\ UNCHANGED <<now, minted, uses, live, served>>

(* Uses after the session was deleted: on delete cascade.                  *)
UsesPurged == {}

Purge ==
  /\ live /\ live' = FALSE /\ uses' = UsesPurged
  /\ UNCHANGED <<now, minted, request, served>>

Tick ==
  /\ now < MaxNow /\ now' = now + 1
  /\ UNCHANGED <<minted, uses, live, request, served>>

Next ==
  \/ \E t \in Tokens : Mint(t) \/ \E s \in Slots : Arrive(s, t)
  \/ \E s \in Slots : Look(s) \/ Count(s) \/ Insert(s) \/ Serve(s) \/ Lose(s)
  \/ Purge \/ Tick

Spec == Init /\ [][Next]_vars
-----------------------------------------------------------------------------
TypeOK ==
  /\ now \in Nat /\ live \in BOOLEAN
  /\ minted \in [Tokens -> Nat \cup {-1}]
  /\ uses \subseteq [token : Tokens, at : Nat] /\ (~live => uses = {})
  /\ request \in [Slots -> [step : Steps, token : Tokens, at : Nat]]
  /\ served \in [Tokens -> Nat]

(* The collector is called at most once for a token: not by two requests   *)
(* that look it up at the same time, not after a lost reply, and not after *)
(* a purge forgot that it was used.                                        *)
ServedOnce == \A t \in Tokens : served[t] <= 1

(* Where a token is on its way through the gate; this makes it inductive.  *)
GateInv ==
  /\ \A s \in Slots : request[s].step = "accepted" =>
       /\ served[request[s].token] = 0
       /\ live => Used(request[s].token)
  /\ \A r, s \in Slots :
       request[r].step = "accepted" /\ request[s].step = "accepted" =>
         r = s \/ request[r].token # request[s].token
  /\ \A t \in Tokens : served[t] <= 1 /\ (served[t] = 1 /\ live => Used(t))

InWindow(w) == {u \in uses : w <= u.at /\ u.at <= w + Window}

(* The requests that have counted and may still add a use to the window;   *)
(* with them the bound is inductive, since who counts sees the whole window.*)
CountedIn(w) ==
  {s \in Slots : /\ request[s].step = "counted"
                 /\ w <= request[s].at /\ request[s].at <= w + Window}

WindowInv(w) ==
  Cardinality(InWindow(w)) + Cardinality(CountedIn(w)) < Limit + Cardinality(Slots)

(* Parallel requests that counted before either inserted pass the limit    *)
(* together, but never by more than there are besides one.                 *)
OverrunBounded ==
  \A w \in 0 .. now : Cardinality(InWindow(w)) < Limit + Cardinality(Slots)

(* No window holds more uses than the limit.  Refuted by two requests.     *)
LimitKept == \A w \in 0 .. now : Cardinality(InWindow(w)) <= Limit
=============================================================================
