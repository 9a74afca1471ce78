---------------------------- MODULE EvidenceLog ----------------------------
(***************************************************************************)
(* What the browser outbox, the ingestion API and the events table promise *)
(* together about the evidence of one participant session: events are      *)
(* numbered in the order the runner emits them, each is recorded at most   *)
(* once and in that order, and the browser stops holding an event only     *)
(* when it is recorded.  EvidenceDelivery shows how the code does it.      *)
(***************************************************************************)
EXTENDS Naturals

VARIABLES
  emitted,   \* how many events the runner has emitted: the events 1..emitted
  held,      \* the events the browser still holds
  recorded   \* the events in the evidence table

logVars == <<emitted, held, recorded>>

\* A session exists once session_started is in the outbox.
LogInit ==
  /\ emitted = 1
  /\ held = {1}
  /\ recorded = {}

\* Evidence is recorded in the order of emission, without gaps.
RecordNext ==
  \E e \in 1..emitted :
    /\ e \notin recorded
    /\ \A d \in 1..(e - 1) : d \in recorded
    /\ recorded' = recorded \cup {e}
    /\ UNCHANGED <<emitted, held>>

EmitNext ==
  /\ emitted' = emitted + 1
  /\ held' = held \cup {emitted'}
  /\ UNCHANGED recorded

\* Only recorded events may be forgotten by the browser.
Release ==
  \E E \in SUBSET (held \cap recorded) :
    /\ held' = held \ E
    /\ UNCHANGED <<emitted, recorded>>

LogNext == EmitNext \/ RecordNext \/ Release

LogSpec == LogInit /\ [][LogNext]_logVars
=============================================================================
