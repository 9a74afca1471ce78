------------------------------ MODULE MCReports ------------------------------
(* Instances of Reports, with Retention below it, for TLC.                 *)
(*                                                                         *)
(* The purge is explored on its own with two sessions, the first with an   *)
(* event and an answer, and links of every kind.  A report is explored     *)
(* with one session: beside findings, retests and links to its event, and  *)
(* beside findings and all that moves the row of one version.              *)
EXTENDS Reports, TLC

CONSTANTS s1, s2, e1, e2, a1, v1, t1

OneEach == e1 :> s1 @@ e2 :> s2 @@ a1 :> s1
TheVersion == s1 :> v1 @@ s2 :> v1

VARIABLE explored

OneSession ==
  /\ session[s2] = "none" /\ aborts = 0
  /\ \A row \in evidence \cup Inserting : row.type = "event" /\ row.answer = NULL
  /\ Cardinality(evidence \cup Inserting) <= 1

ExplorePurge == explored = "purge" /\ RetentionNext /\ UNCHANGED <<reportVars, explored>>
ExploreFindings ==
  /\ explored = "findings" /\ Next /\ OneSession'
  /\ UNCHANGED <<target, explored>>
  /\ Reading => UNCHANGED published

ExploreVersions ==
  /\ explored = "versions" /\ Next /\ OneSession'
  /\ Inserting' \cup evidence' \cup retests' = {}
  /\ \A v \in Versions \ {v1} : v \notin published' /\ target'[v] = target[v]
  /\ UNCHANGED explored

ReportsInit ==
  /\ Init /\ \A v \in Versions : target[v] = t1
  /\ explored \in {"purge", "findings", "versions"}

ReportsSpec ==
  /\ ReportsInit
  /\ [][ExplorePurge \/ ExploreFindings \/ ExploreVersions]_<<vars, explored>>
  /\ RetentionFairness
=============================================================================
