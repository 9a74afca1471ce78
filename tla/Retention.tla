------------------------------ MODULE Retention ------------------------------
(***************************************************************************)
(* Sessions that expire, the purge that deletes them in batches, and the   *)
(* evidence rows researchers link to them meanwhile.  The purge is one     *)
(* transaction: what it deletes is gone for others when it commits.  An    *)
(* insert of a link holds a key share lock on every row it refers to until *)
(* it commits, and waits for rows that are locked or being deleted.        *)
(*                                                                         *)
(* Events and answers are kept with their session: a delete cascades.      *)
(***************************************************************************)
EXTENDS Integers, FiniteSets

CONSTANTS
  Sessions,
  Events,
  Answers,
  SessionOf,     \* the session of an event or answer
  FindingIds,
  Researchers,
  Kinds,         \* the evidence types in use
  MaxBatch,      \* max_rows
  MaxEvidence,   \* bound on the rows of evidence at a time
  MaxAborts,     \* bound on purges that break down
  NULL

Items == Events \cup Answers

ASSUME RetentionAssumption ==
  /\ SessionOf \in [Items -> Sessions]
  /\ Kinds \subseteq {"session", "event", "answer", "path", "heatmap"}
  /\ MaxBatch \in Nat \ {0} /\ MaxAborts \in Nat /\ MaxEvidence \in Nat
  /\ IsFiniteSet(Sessions)
  /\ NULL \notin Sessions \cup Items

VARIABLES
  session,       \* "none", "active", "ended", "expired" or "purged"
  participants,  \* participants with a row, named by their session
  evidence,      \* committed rows of finding_evidence
  linking,       \* the row a researcher's insert has not yet committed
  purge,         \* the transaction of the purge
  aborts

retentionVars == <<session, participants, evidence, linking, purge, aborts>>

Rows ==
  [finding : FindingIds, type : Kinds, session : Sessions,
   event : Events \cup {NULL}, answer : Answers \cup {NULL}]

(* The typed reference check of the table.                                 *)
WellTyped(row) ==
  /\ row.type = "event" => row.event # NULL
  /\ row.type = "answer" => row.answer # NULL

ItemsIn(row) == {row.event, row.answer} \ {NULL}
SessionsIn(row) == {SessionOf[i] : i \in ItemsIn(row)}

Stored(s) == session[s] \in {"active", "ended", "expired"}

Idle == [on |-> FALSE, batch |-> {}, at |-> NULL, gone |-> {}, dead |-> {}]

RetentionInit ==
  /\ session = [s \in Sessions |-> "none"]
  /\ participants = {} /\ evidence = {}
  /\ linking = [r \in Researchers |-> NULL]
  /\ purge = Idle /\ aborts = 0

(* The entry of a participant writes both rows.                            *)
StartSession(s) ==
  /\ session[s] = "none"
  /\ session' = [session EXCEPT ![s] = "active"]
  /\ participants' = participants \cup {s}
  /\ UNCHANGED <<evidence, linking, purge, aborts>>

(* A terminal event sets completed_at, and the trigger delete_after.       *)
EndSession(s) ==
  /\ session[s] = "active"
  /\ session' = [session EXCEPT ![s] = "ended"]
  /\ UNCHANGED <<participants, evidence, linking, purge, aborts>>

(* delete_after passes.                                                    *)
Expire(s) ==
  /\ session[s] = "ended"
  /\ session' = [session EXCEPT ![s] = "expired"]
  /\ UNCHANGED <<participants, evidence, linking, purge, aborts>>
-----------------------------------------------------------------------------
Locked(s) == purge.on /\ s \in purge.batch \cup purge.dead

(* The rows are looked up, not locked (faulty variant).                    *)
CanReferUnlocked(row) == Stored(row.session) /\ \A s \in SessionsIn(row) : Stored(s)

(* What the foreign keys find and lock.  The purge locks its sessions from *)
(* the start, but their events and answers only when it deletes them.      *)
CanRefer(row) ==
  /\ Stored(row.session) /\ ~Locked(row.session)
  /\ \A s \in SessionsIn(row) : Stored(s) /\ ~(purge.on /\ s \in purge.dead)

(* Sessions, events and answers may be of any session of the workspace.    *)
LinkEvidence(r, row) ==
  /\ linking[r] = NULL
  /\ WellTyped(row) /\ CanRefer(row) /\ row \notin evidence
  /\ Cardinality(evidence) < MaxEvidence
  /\ linking' = [linking EXCEPT ![r] = row]
  /\ UNCHANGED <<session, participants, evidence, purge, aborts>>

LinkCommits(r) ==
  /\ linking[r] # NULL
  /\ evidence' = evidence \cup {linking[r]}
  /\ linking' = [linking EXCEPT ![r] = NULL]
  /\ UNCHANGED <<session, participants, purge, aborts>>

Inserting == {linking[r] : r \in Researchers} \ {NULL}
-----------------------------------------------------------------------------
Expired == {s \in Sessions : session[s] = "expired"}

(* for update skip locked.                                                 *)
Free == Expired \ {row.session : row \in Inserting}

PurgeBegins ==
  /\ ~purge.on
  /\ \E batch \in SUBSET Free \ {{}} :
       /\ Cardinality(batch) <= MaxBatch
       /\ Cardinality(batch) < MaxBatch => batch = Free
       /\ purge' = [Idle EXCEPT !.on = TRUE, !.batch = batch]
  /\ UNCHANGED <<session, participants, evidence, linking, aborts>>

(* Only by the session of the row (faulty variant).                        *)
EvidenceOfSessionOnly(s) == {row \in evidence : row.session = s}

EvidenceOf(s) == {row \in evidence : row.session = s \/ s \in SessionsIn(row)}

PurgeEvidence ==
  /\ purge.on /\ purge.at = NULL
  /\ \E s \in purge.batch :
       purge' = [purge EXCEPT !.at = s, !.gone = @ \cup EvidenceOf(s)]
  /\ UNCHANGED <<session, participants, evidence, linking, aborts>>

(* References to what was deleted become null, where linked in between.    *)
Cleared(row, dead) ==
  [row EXCEPT !.event = IF @ # NULL /\ SessionOf[@] \in dead THEN NULL ELSE @,
              !.answer = IF @ # NULL /\ SessionOf[@] \in dead THEN NULL ELSE @]

(* The check of the table on the rows that lose a reference.               *)
Accepts(dead) == \A row \in evidence \ purge.gone : WellTyped(Cleared(row, dead))

(* The session is deleted with what cascades, once no insert holds a lock  *)
(* on it.  If the check refuses a row, all is rolled back.                 *)
PurgeSession ==
  /\ purge.on /\ purge.at # NULL
  /\ \A row \in Inserting : purge.at \notin SessionsIn(row)
  /\ LET dead == purge.dead \cup {purge.at}
     IN  purge' = IF Accepts(dead)
                  THEN [purge EXCEPT !.batch = @ \ {purge.at}, !.at = NULL, !.dead = dead]
                  ELSE Idle
  /\ UNCHANGED <<session, participants, evidence, linking, aborts>>

Kept == {Cleared(row, purge.dead) : row \in evidence \ purge.gone}

PurgeCommits ==
  /\ purge.on /\ purge.at = NULL /\ purge.batch = {}
  /\ session' = [s \in Sessions |-> IF s \in purge.dead THEN "purged" ELSE session[s]]
  /\ evidence' = Kept
  /\ purge' = Idle
  /\ UNCHANGED <<participants, linking, aborts>>

(* The connection breaks: rolled back.                                     *)
PurgeBreaks ==
  /\ purge.on /\ aborts < MaxAborts
  /\ purge' = Idle /\ aborts' = aborts + 1
  /\ UNCHANGED <<session, participants, evidence, linking>>

Purge == PurgeBegins \/ PurgeEvidence \/ PurgeSession \/ PurgeCommits

RetentionNext ==
  \/ \E s \in Sessions : StartSession(s) \/ EndSession(s) \/ Expire(s)
  \/ \E r \in Researchers : LinkCommits(r) \/ \E row \in Rows : LinkEvidence(r, row)
  \/ Purge \/ PurgeBreaks

RetentionSpec == RetentionInit /\ [][RetentionNext]_retentionVars

(* The purge is run again and again; transactions end.                     *)
RetentionFairness ==
  /\ WF_retentionVars(Purge)
  /\ \A r \in Researchers : WF_retentionVars(LinkCommits(r))

FairRetentionSpec == RetentionSpec /\ RetentionFairness
-----------------------------------------------------------------------------
TypeOK ==
  /\ session \in [Sessions -> {"none", "active", "ended", "expired", "purged"}]
  /\ participants \subseteq Sessions
  /\ evidence \subseteq Rows
  /\ \A row \in evidence \cup Inserting : WellTyped(row)
  /\ linking \in [Researchers -> Rows \cup {NULL}]
  /\ purge \in [on : BOOLEAN, batch : SUBSET Sessions, at : Sessions \cup {NULL},
                gone : SUBSET Rows, dead : SUBSET Sessions]
  /\ aborts \in 0 .. MaxAborts

Resolves(row) == Stored(row.session) /\ \A s \in SessionsIn(row) : Stored(s)

(* No evidence of a purged session is left, also where a researcher linked *)
(* it, or an event of it to another session, while the purge ran.          *)
EvidenceResolves == \A row \in evidence : Resolves(row)

(* What makes that inductive: an insert under way refers to rows no purge  *)
(* deletes, and no row the purge leaves is of a session it deletes.        *)
RetentionInv ==
  /\ EvidenceResolves
  /\ \A row \in Inserting :
       /\ Resolves(row) /\ ~Locked(row.session)
       /\ purge.on => \A s \in SessionsIn(row) : s \notin purge.dead
  /\ purge.on => \A row \in evidence \ purge.gone :
                   row.session \notin purge.dead \cup {purge.at}
  /\ purge.on => Accepts(purge.dead)
  /\ purge.at # NULL => purge.at \in purge.batch

(* An expired session is purged, whatever of it is linked to findings of   *)
(* other sessions.                                                         *)
ExpiredArePurged == \A s \in Sessions : session[s] = "expired" ~> session[s] = "purged"

(* docs/database-schema.md: deletion reaches participant identifiers.      *)
(* Refuted: the purge deletes sessions, not participants.                  *)
ParticipantsPurged == \A s \in participants : session[s] # "purged"
=============================================================================
