------------------------------- MODULE Reports -------------------------------
(***************************************************************************)
(* Findings, retests and the usability report of a version, over sessions  *)
(* that expire (Retention).  A finding holds the snapshot of a metric as   *)
(* the researcher's page showed it; a report is put together from several  *)
(* requests, each of its own moment, with nothing that keeps the database  *)
(* from moving between them: sessions come and expire, a draft gets        *)
(* another target or is published.                                         *)
(* No operation of the code deletes a finding or moves it to another       *)
(* version, so what an update or a link looks up first stays true.         *)
(***************************************************************************)
EXTENDS Retention

CONSTANTS
  Versions,
  VersionOf,             \* the version of a session
  Targets,               \* what a version may test
  Keys,
  Values,
  Aggregations,
  Statuses,              \* the finding statuses in use
  Legacy,                \* findings older than the metric snapshot column
  ContextTakesIds,       \* findings/context.ts accepts the ids there are
  RetestsHaveUpdatedAt,  \* the column the store selects is in the table
  MaxRetests,            \* bounds
  MaxReports

ASSUME ReportsAssumption ==
  /\ VersionOf \in [Sessions -> Versions]
  /\ Legacy \subseteq FindingIds
  /\ ContextTakesIds \in BOOLEAN /\ RetestsHaveUpdatedAt \in BOOLEAN
  /\ "open" \in Statuses /\ MaxReports \in Nat

VARIABLES
  published,  \* versions that are not drafts
  target,     \* target_provider and target_snapshot of a version
  findings,   \* rows, NULL where there is none
  retests,
  refused,    \* valid requests that were refused
  report,     \* the report being read
  reports

reportVars == <<published, target, findings, retests, refused, report, reports>>
vars == <<retentionVars, reportVars>>

Snapshots ==
  [key : Keys, version : Versions, value : Values \cup {NULL},
   aggregation : Aggregations, sources : SUBSET Items]

(* The column's default.                                                   *)
NoSnapshot == [sources |-> {}]

Findings == [version : Versions, status : Statuses, metric : Snapshots \cup {NoSnapshot}]

Retests ==
  [finding : FindingIds, original : Versions, retest : Versions,
   before : Snapshots, after : Snapshots]

StoredSessions(v) == {s \in Sessions : Stored(s) /\ VersionOf[s] = v}
StoredItems(v) == {i \in Items : SessionOf[i] \in StoredSessions(v)}

(* What a page of the version offers: the evidence behind a metric now.    *)
Offered(v) ==
  [key : Keys, version : {v}, value : Values \cup {NULL},
   aggregation : Aggregations, sources : {{}, StoredItems(v)}]

Contexts == [version : Versions, published : BOOLEAN, target : Targets]

(* The answers to the requests of the results, NULL where one is awaited.  *)
Counted ==
  [context : Contexts \cup {NULL}, sessions : (SUBSET Sessions) \cup {NULL},
   events : (SUBSET Events) \cup {NULL}, answers : (SUBSET Answers) \cup {NULL}]

Uncounted == [context |-> NULL, sessions |-> NULL, events |-> NULL, answers |-> NULL]

Lists == UNION {[F -> Findings] : F \in SUBSET FindingIds}

Report ==
  [stage : {"idle", "reading", "done", "unreadable", "mismatch"},
   version : Versions \cup {NULL},
   opened : BOOLEAN,      \* history: the version was published when it was asked for
   context : Contexts \cup {NULL},
   results : Counted,
   found : Lists \cup {NULL},
   links : [FindingIds -> (SUBSET Rows) \cup {NULL}],
   retests : (SUBSET Retests) \cup {NULL}]

NoReport ==
  [stage |-> "idle", version |-> NULL, opened |-> FALSE, context |-> NULL,
   results |-> Uncounted, found |-> NULL, links |-> [f \in FindingIds |-> NULL], retests |-> NULL]

Init ==
  /\ RetentionInit
  /\ published = {} /\ target \in [Versions -> Targets]
  /\ \E v \in Versions :
       findings = [f \in FindingIds |->
                     IF f \in Legacy
                     THEN [version |-> v, status |-> "open", metric |-> NoSnapshot]
                     ELSE NULL]
  /\ retests = {} /\ refused = {} /\ report = NoReport /\ reports = 0

Publish(v) ==
  /\ v \notin published
  /\ published' = published \cup {v}
  /\ UNCHANGED <<retentionVars, target, findings, retests, refused, report, reports>>

(* A save of the builder's target, where the version is a draft.           *)
Retarget(v, t) ==
  /\ v \notin published
  /\ target' = [target EXCEPT ![v] = t]
  /\ UNCHANGED <<retentionVars, published, findings, retests, refused, report, reports>>
-----------------------------------------------------------------------------
(* normalizeMetricSnapshot throws otherwise.                               *)
Normal(metric, version) == metric # NoSnapshot /\ metric.version = version

CreateFinding(f, v, metric) ==
  /\ findings[f] = NULL /\ Normal(metric, v)
  /\ IF ContextTakesIds
     THEN /\ findings' = [findings EXCEPT ![f] =
                            [version |-> v, status |-> "open", metric |-> metric]]
          /\ UNCHANGED refused
     ELSE refused' = refused \cup {"finding"} /\ UNCHANGED findings
  /\ UNCHANGED <<retentionVars, published, target, retests, report, reports>>

(* Only the snapshot of a new finding is normalized (faulty variant).      *)
MayReplaceAny(f, metric) == metric # NoSnapshot

MayReplace(f, metric) == Normal(metric, findings[f].version)

(* One PATCH of the fields that were sent.                                 *)
UpdateFinding(f, status, metric) ==
  /\ findings[f] # NULL
  /\ metric # findings[f].metric => MayReplace(f, metric)
  /\ findings' = [findings EXCEPT ![f].status = status, ![f].metric = metric]
  /\ UNCHANGED <<retentionVars, published, target, retests, refused, report, reports>>

IsOriginal(f, v) == findings[f] # NULL /\ findings[f].version = v

Comparable(r) ==
  /\ Normal(r.before, r.original) /\ Normal(r.after, r.retest)
  /\ r.before.key = r.after.key

CreateRetest(r) ==
  /\ IsOriginal(r.finding, r.original) /\ Comparable(r)
  /\ r.original # r.retest /\ Cardinality(retests) < MaxRetests
  /\ IF ContextTakesIds /\ RetestsHaveUpdatedAt
     THEN retests' = retests \cup {r} /\ UNCHANGED refused
     ELSE refused' = refused \cup {"retest"} /\ UNCHANGED retests
  /\ UNCHANGED <<retentionVars, published, target, findings, report, reports>>

(* The delta a comparison shows.                                           *)
Delta(r) ==
  IF r.before.value = NULL \/ r.after.value = NULL THEN NULL
  ELSE r.after.value - r.before.value
-----------------------------------------------------------------------------
(* What parseResultsStudyContext keeps of a row of test_versions.          *)
Context(v) == [version |-> v, published |-> v \in published, target |-> target[v]]

BeginReport(v) ==
  /\ report.stage = "idle" /\ reports < MaxReports
  /\ report' = [NoReport EXCEPT !.stage = "reading", !.version = v,
                                   !.opened = v \in published]
  /\ reports' = reports + 1
  /\ UNCHANGED <<retentionVars, published, target, findings, retests, refused>>

Reading == report.stage = "reading"

Fail(reason) ==
  [NoReport EXCEPT !.stage = reason, !.version = report.version, !.opened = report.opened]

Goes(next) ==
  /\ report' = next
  /\ UNCHANGED <<retentionVars, published, target, findings, retests, refused, reports>>

(* The row of the version is read twice: for the report, and the results.  *)
ReadContext ==
  /\ Reading /\ report.context = NULL
  /\ Goes([report EXCEPT !.context = Context(report.version)])

(* Each table at one moment here; ResultsRead has the pages.               *)
ReadVersion ==
  /\ Reading /\ report.results.context = NULL
  /\ Goes([report EXCEPT !.results.context = Context(report.version)])

ReadSessions ==
  /\ Reading /\ report.results.sessions = NULL
  /\ Goes([report EXCEPT !.results.sessions = StoredSessions(report.version)])

ReadEvents ==
  /\ Reading /\ report.results.events = NULL
  /\ Goes([report EXCEPT !.results.events = Events \cap StoredItems(report.version)])

(* Once the others are there, of the sessions that were read.              *)
ReadAnswers ==
  /\ Reading /\ report.results.answers = NULL
  /\ NULL \notin {report.results.context, report.results.sessions, report.results.events}
  /\ Goes([report EXCEPT !.results.answers =
             {a \in Answers : SessionOf[a] \in report.results.sessions /\ Stored(SessionOf[a])}])

Of(v) == {f \in FindingIds : findings[f] # NULL /\ findings[f].version = v}

(* One row that does not normalize fails the list.                         *)
ReadFindings ==
  /\ Reading /\ report.found = NULL
  /\ LET rows == [f \in Of(report.version) |-> findings[f]]
     IN  Goes(IF \A f \in DOMAIN rows : Normal(rows[f].metric, rows[f].version)
              THEN [report EXCEPT !.found = rows] ELSE Fail("unreadable"))

AllRead == NULL \notin {report.context, report.results.context, report.results.answers, report.found}

ReadEvidence(f) ==
  /\ Reading /\ AllRead
  /\ f \in DOMAIN report.found /\ report.links[f] = NULL
  /\ Goes([report EXCEPT !.links[f] = {row \in evidence : row.finding = f}])

ReadRetests ==
  /\ Reading /\ AllRead /\ report.retests = NULL
  /\ \A f \in DOMAIN report.found : report.links[f] # NULL
  /\ LET rows == {r \in retests : r.original = report.version}
     IN  Goes(IF RetestsHaveUpdatedAt /\ \A r \in rows : Comparable(r)
              THEN [report EXCEPT !.retests = rows] ELSE Fail("unreadable"))

(* The version the results were read with is the version read beside.      *)
Fits == report.results.context = report.context

BuildReport ==
  /\ Reading /\ report.retests # NULL
  /\ Goes(IF Fits THEN [report EXCEPT !.stage = "done"] ELSE Fail("mismatch"))

CloseReport ==
  /\ report.stage \notin {"idle", "reading"}
  /\ Goes(NoReport)
-----------------------------------------------------------------------------
FindingSteps ==
  \/ \E f \in FindingIds, v \in Versions, w \in Versions : \E metric \in Offered(w) :
       CreateFinding(f, v, metric)
  \/ \E f \in FindingIds, status \in Statuses, v \in Versions :
       \E metric \in Offered(v) \cup {IF findings[f] = NULL THEN NoSnapshot ELSE findings[f].metric} :
         UpdateFinding(f, status, metric)
  \/ \E f \in FindingIds, v \in Versions, w \in Versions :
       \E before \in Offered(v), after \in Offered(w) :
         CreateRetest([finding |-> f, original |-> v, retest |-> w,
                       before |-> before, after |-> after])

ReportSteps ==
  \/ \E v \in Versions : BeginReport(v)
  \/ ReadContext \/ ReadVersion \/ ReadSessions \/ ReadEvents \/ ReadAnswers \/ ReadFindings
  \/ \E f \in FindingIds : ReadEvidence(f)
  \/ ReadRetests \/ BuildReport \/ CloseReport

(* A session is of a published version, a link of a finding there is.      *)
SessionSteps ==
  /\ \/ \E s \in Sessions :
          \/ VersionOf[s] \in published /\ StartSession(s)
          \/ EndSession(s) \/ Expire(s)
     \/ \E r \in Researchers :
          \/ LinkCommits(r)
          \/ \E row \in Rows : findings[row.finding] # NULL /\ LinkEvidence(r, row)
     \/ Purge \/ PurgeBreaks
  /\ UNCHANGED reportVars

Next ==
  \/ \E v \in Versions : Publish(v)
  \/ \E v \in Versions, t \in Targets : Retarget(v, t)
  \/ FindingSteps \/ ReportSteps \/ SessionSteps

Spec == Init /\ [][Next]_vars
-----------------------------------------------------------------------------
ReportTypeOK ==
  /\ TypeOK
  /\ published \subseteq Versions /\ target \in [Versions -> Targets]
  /\ findings \in [FindingIds -> Findings \cup {NULL}]
  /\ retests \subseteq Retests
  /\ refused \subseteq {"finding", "retest"}
  /\ report \in Report /\ reports \in 0 .. MaxReports
  /\ report.stage \notin {"reading", "done"} => report.results = Uncounted /\ report.found = NULL
  /\ report.stage = "reading" => report.version \in Versions

(* What a list of findings and one of retests can be made of.              *)
Normalized ==
  /\ \A f \in FindingIds : findings[f] # NULL =>
       Normal(findings[f].metric, findings[f].version)
  /\ \A r \in retests : Comparable(r)

(* A report of a published version is answered, whatever is written while  *)
(* it is read: no finding or retest that was let in fails the list it is   *)
(* in, and the two reads of the version, however far apart, agree.  One of *)
(* a draft may fail by that comparison alone.  Refuted by a finding older  *)
(* than the snapshots, and by the table of retests as shipped.             *)
ReportsAnswered ==
  /\ report.stage # "unreadable"
  /\ report.stage = "mismatch" => ~report.opened

(* docs/research-evidence-report-contract.md: every metric is bound to an  *)
(* exact published version.  Refuted: both reads of the version may come   *)
(* before it is published and its first sessions, those of events after.   *)
CountedUnderContext ==
  report.stage = "done" /\ report.results.events # {} => report.context.published

(* docs/privacy-baseline.md: a finding shows deleted evidence as such.     *)
(* Refuted: the sources of a snapshot stay in the report's references.     *)
ReportedEvidenceStored ==
  report.stage = "done" =>
    \A f \in DOMAIN report.found : report.found[f].metric.sources
                                     \subseteq report.results.events \cup report.results.answers

(* docs/architecture.md: a claim is traceable to an exact version.         *)
(* Refuted: evidence may be of any session of the workspace.               *)
EvidenceOfItsVersion ==
  \A row \in evidence : findings[row.finding] # NULL =>
    findings[row.finding].version = VersionOf[row.session]

(* docs/research-evidence-report-contract.md: a claim can drill down to    *)
(* its finding.  Refuted: retests are read after findings.                 *)
RetestsOfReportedFindings ==
  report.stage = "done" => \A r \in report.retests : r.finding \in DOMAIN report.found

(* docs/architecture.md: deltas only for compatible metric contexts.       *)
(* Refuted: the aggregation versions are not compared.                     *)
DeltaOnlyIfComparable ==
  \A r \in retests : Delta(r) # NULL => r.before.aggregation = r.after.aggregation

(* docs/task50-52-findings-retest.md: the create API persists findings.    *)
(* Refuted as shipped: the pattern of the context accepts no id.           *)
NothingRefused == refused = {}
=============================================================================
