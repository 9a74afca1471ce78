---------------------------- MODULE ReportsProofs ----------------------------
(***************************************************************************)
(* For any number of sessions, researchers, purges, findings and reports:  *)
(* that no evidence outlives its session, from Retention!RetentionInv;     *)
(* that Reports moves the sessions and their evidence only as Retention    *)
(* does; and that reports of published versions are answered, where every  *)
(* finding has its snapshot and the table of retests its columns.          *)
(***************************************************************************)
EXTENDS Reports, TLAPS

USE RetentionAssumption

(* What a row refers to after the purge is what it referred to before,     *)
(* without the sessions that are deleted.                                  *)
LEMMA ClearedRow ==
  ASSUME NEW row \in Rows, NEW dead \in SUBSET Sessions
  PROVE  /\ Cleared(row, dead) \in Rows
         /\ Cleared(row, dead).session = row.session
         /\ SessionsIn(Cleared(row, dead)) \subseteq SessionsIn(row) \ dead
<1> DEFINE c == Cleared(row, dead)
<1>1. c \in Rows /\ c.session = row.session
  BY DEF Cleared, Rows
<1>2. \/ c.event = NULL
      \/ c.event = row.event /\ SessionOf[row.event] \notin dead
  BY DEF Cleared, Rows
<1>3. \/ c.answer = NULL
      \/ c.answer = row.answer /\ SessionOf[row.answer] \notin dead
  BY DEF Cleared, Rows
<1>4. ASSUME NEW s \in SessionsIn(c) PROVE s \in SessionsIn(row) /\ s \notin dead
  <2>1. PICK i \in ItemsIn(c) : s = SessionOf[i]
    BY <1>4 DEF SessionsIn
  <2>2. i \in {c.event, c.answer} /\ i # NULL
    BY <2>1 DEF ItemsIn
  <2>3. i \in ItemsIn(row) /\ SessionOf[i] \notin dead
    BY <1>2, <1>3, <2>2 DEF ItemsIn
  <2> QED
    BY <2>1, <2>3 DEF SessionsIn
<1> QED
  BY <1>1, <1>4

LEMMA IdleType ==
  Idle \in [on : BOOLEAN, batch : SUBSET Sessions, at : Sessions \cup {NULL},
            gone : SUBSET Rows, dead : SUBSET Sessions]
BY DEF Idle

LEMMA InsertingRows ==
  ASSUME TypeOK PROVE Inserting \subseteq Rows
BY DEF TypeOK, Inserting

LEMMA UnclearedRow ==
  ASSUME NEW row \in Rows, NEW dead \in SUBSET Sessions,
         \A s \in SessionsIn(row) : s \notin dead
  PROVE  Cleared(row, dead) = row
<1>1. row.event # NULL => SessionOf[row.event] \in SessionsIn(row)
  BY DEF SessionsIn, ItemsIn
<1>2. row.answer # NULL => SessionOf[row.answer] \in SessionsIn(row)
  BY DEF SessionsIn, ItemsIn
<1> QED
  BY <1>1, <1>2 DEF Cleared, Rows

LEMMA InitHolds == RetentionInit => TypeOK /\ RetentionInv
BY IdleType DEF RetentionInit, TypeOK, RetentionInv, Idle, Inserting, EvidenceResolves

LEMMA SessionStep ==
  ASSUME TypeOK, RetentionInv, NEW s \in Sessions,
         StartSession(s) \/ EndSession(s) \/ Expire(s)
  PROVE  TypeOK' /\ RetentionInv'
<1>1. /\ session' \in [Sessions -> {"none", "active", "ended", "expired", "purged"}]
      /\ participants' \subseteq Sessions
      /\ UNCHANGED <<evidence, linking, purge, aborts>>
  BY DEF StartSession, EndSession, Expire, TypeOK
<1>2. \A t \in Sessions : Stored(t) => Stored(t)'
  BY DEF StartSession, EndSession, Expire, TypeOK, Stored
<1>3. ASSUME NEW row \in Rows, Resolves(row) PROVE Resolves(row)'
  <2>1. row.session \in Sessions /\ SessionsIn(row) \subseteq Sessions
    BY DEF Rows, SessionsIn, ItemsIn, Items
  <2> QED
    BY <1>2, <1>3, <2>1 DEF Resolves
<1>4. TypeOK'
  BY <1>1 DEF TypeOK, Inserting
<1>5. Inserting' = Inserting
  BY <1>1 DEF Inserting
<1>6. \A row \in Rows : Locked(row.session)' = Locked(row.session)
  BY <1>1 DEF Locked
<1> QED
  BY <1>1, <1>3, <1>4, <1>5, <1>6, InsertingRows
  DEF RetentionInv, EvidenceResolves, Accepts, TypeOK

LEMMA LinkStep ==
  ASSUME TypeOK, RetentionInv, NEW r \in Researchers, NEW row \in Rows, LinkEvidence(r, row)
  PROVE  TypeOK' /\ RetentionInv'
<1>1. /\ linking' = [linking EXCEPT ![r] = row]
      /\ UNCHANGED <<session, participants, evidence, purge, aborts>>
      /\ WellTyped(row) /\ CanRefer(row)
  BY DEF LinkEvidence
<1>2. Inserting' \subseteq Inserting \cup {row}
  BY <1>1 DEF Inserting, TypeOK
<1>3. Resolves(row)' /\ ~Locked(row.session)'
      /\ (purge'.on => \A s \in SessionsIn(row) : s \notin purge'.dead)
  BY <1>1 DEF CanRefer, Resolves, Stored, Locked
<1>4. TypeOK'
  BY <1>1, <1>2 DEF TypeOK
<1>5. \A q \in Rows : Resolves(q)' = Resolves(q) /\ Locked(q.session)' = Locked(q.session)
  BY <1>1 DEF Resolves, Stored, Locked
<1> QED
  BY <1>1, <1>2, <1>3, <1>4, <1>5, InsertingRows
  DEF RetentionInv, EvidenceResolves, Accepts, TypeOK

LEMMA CommitStep ==
  ASSUME TypeOK, RetentionInv, NEW r \in Researchers, LinkCommits(r)
  PROVE  TypeOK' /\ RetentionInv'
<1> DEFINE row == linking[r]
<1>1. /\ row \in Rows /\ row \in Inserting
      /\ evidence' = evidence \cup {row}
      /\ UNCHANGED <<session, participants, purge, aborts>>
      /\ linking' = [linking EXCEPT ![r] = NULL]
  BY DEF LinkCommits, TypeOK, Inserting
<1>2. Inserting' \subseteq Inserting
  BY <1>1 DEF Inserting, TypeOK
<1>3. TypeOK'
  BY <1>1, <1>2 DEF TypeOK
<1>4. /\ WellTyped(row) /\ Resolves(row) /\ ~Locked(row.session)
      /\ purge.on => \A s \in SessionsIn(row) : s \notin purge.dead
  BY <1>1 DEF TypeOK, RetentionInv
<1>5. purge.on => WellTyped(Cleared(row, purge.dead))
  BY <1>1, <1>4, UnclearedRow DEF TypeOK
<1>6. purge.on => row.session \notin purge.dead \cup {purge.at}
  <2>1. row.session \in Sessions /\ row.session # NULL
    BY <1>1 DEF Rows
  <2> QED
    BY <1>4, <2>1 DEF Locked, RetentionInv
<1>7. \A q \in Rows : Resolves(q)' = Resolves(q) /\ Locked(q.session)' = Locked(q.session)
  BY <1>1 DEF Resolves, Stored, Locked
<1>8. EvidenceResolves'
  BY <1>1, <1>4, <1>7 DEF RetentionInv, EvidenceResolves, TypeOK
<1>9. (purge.on => Accepts(purge.dead))'
  BY <1>1, <1>5 DEF RetentionInv, Accepts
<1> QED
  BY <1>1, <1>2, <1>3, <1>6, <1>7, <1>8, <1>9, InsertingRows DEF RetentionInv

LEMMA BeginStep ==
  ASSUME TypeOK, RetentionInv, PurgeBegins PROVE TypeOK' /\ RetentionInv'
<1>1. PICK batch \in SUBSET Free \ {{}} : purge' = [Idle EXCEPT !.on = TRUE, !.batch = batch]
  BY DEF PurgeBegins
<1>2. UNCHANGED <<session, participants, evidence, linking, aborts>>
  BY DEF PurgeBegins
<1>3. batch \in SUBSET Sessions
  BY DEF Free, Expired
<1>4. /\ purge' = [on |-> TRUE, batch |-> batch, at |-> NULL, gone |-> {}, dead |-> {}]
  BY <1>1 DEF Idle
<1>5. TypeOK'
  BY <1>2, <1>3, <1>4 DEF TypeOK, Inserting
<1>6. \A row \in Inserting : row.session \notin batch
  BY DEF Free
<1>7. \A q \in Rows : Resolves(q)' = Resolves(q)
  BY <1>2 DEF Resolves, Stored
<1>8. \A row \in evidence : row \in Rows /\ row.session # NULL
  BY DEF TypeOK, Rows
<1>9. Accepts(purge.dead)'
  <2>1. \A row \in evidence : Cleared(row, {}) = row
    BY UnclearedRow DEF TypeOK
  <2> QED
    BY <1>2, <1>4, <2>1 DEF Accepts, TypeOK
<1> QED
  BY <1>2, <1>4, <1>5, <1>6, <1>7, <1>8, <1>9, InsertingRows
  DEF RetentionInv, EvidenceResolves, Locked, Inserting, TypeOK

LEMMA EvidenceStep ==
  ASSUME TypeOK, RetentionInv, PurgeEvidence PROVE TypeOK' /\ RetentionInv'
<1>1. PICK s \in purge.batch :
        purge' = [purge EXCEPT !.at = s, !.gone = @ \cup EvidenceOf(s)]
  BY DEF PurgeEvidence
<1>2. /\ UNCHANGED <<session, participants, evidence, linking, aborts>>
      /\ purge.on
  BY DEF PurgeEvidence
<1>3. /\ purge'.on /\ purge'.batch = purge.batch /\ purge'.dead = purge.dead
      /\ purge'.at = s /\ purge'.gone = purge.gone \cup EvidenceOf(s)
      /\ s \in Sessions
  BY <1>1, <1>2 DEF TypeOK
<1>4. TypeOK'
  <2>1. EvidenceOf(s) \subseteq Rows
    BY DEF EvidenceOf, TypeOK
  <2>2. purge' \in [on : BOOLEAN, batch : SUBSET Sessions, at : Sessions \cup {NULL},
                    gone : SUBSET Rows, dead : SUBSET Sessions]
    BY <1>1, <1>3, <2>1 DEF TypeOK
  <2>3. Inserting' = Inserting
    BY <1>2 DEF Inserting
  <2>4. \A row \in (evidence \cup Inserting)' : WellTyped(row)
    BY <1>2, <2>3 DEF TypeOK
  <2> QED
    BY <1>2, <2>2, <2>4 DEF TypeOK
<1>5. \A q \in Rows : Resolves(q)' = Resolves(q) /\ Locked(q.session)' = Locked(q.session)
  BY <1>2, <1>3 DEF Resolves, Stored, Locked
<1>6. \A row \in evidence \ purge'.gone : row.session # s /\ row \in evidence \ purge.gone
  BY <1>3 DEF EvidenceOf
<1>7. Accepts(purge.dead)'
  BY <1>2, <1>3, <1>6 DEF Accepts, RetentionInv
<1> QED
  BY <1>2, <1>3, <1>4, <1>5, <1>6, <1>7, InsertingRows
  DEF RetentionInv, EvidenceResolves, Inserting, TypeOK

LEMMA BackToIdle ==
  ASSUME TypeOK, RetentionInv, purge' = Idle,
         UNCHANGED <<session, participants, evidence, linking>>,
         aborts' \in 0 .. MaxAborts
  PROVE  TypeOK' /\ RetentionInv'
<1>1. TypeOK'
  BY IdleType DEF TypeOK, Inserting
<1>2. \A q \in Rows : Resolves(q)' = Resolves(q) /\ ~Locked(q.session)'
  BY DEF Resolves, Stored, Locked, Idle
<1> QED
  BY <1>1, <1>2, InsertingRows DEF RetentionInv, EvidenceResolves, Inserting, Idle, TypeOK

LEMMA DeleteStep ==
  ASSUME TypeOK, RetentionInv, PurgeSession PROVE TypeOK' /\ RetentionInv'
<1> DEFINE dead == purge.dead \cup {purge.at}
<1>1. CASE ~Accepts(dead)
  BY <1>1, BackToIdle DEF PurgeSession, TypeOK
<1>2. CASE Accepts(dead)
  <2>1. /\ UNCHANGED <<session, participants, evidence, linking, aborts>>
        /\ purge' = [purge EXCEPT !.batch = @ \ {purge.at}, !.at = NULL, !.dead = dead]
        /\ purge.on /\ purge.at # NULL /\ purge.at \in purge.batch
    BY <1>2 DEF PurgeSession, RetentionInv
  <2>2. /\ purge'.on /\ purge'.batch = purge.batch \ {purge.at} /\ purge'.at = NULL
        /\ purge'.dead = dead /\ purge'.gone = purge.gone
        /\ purge.at \in Sessions
    BY <2>1 DEF TypeOK
  <2>3. TypeOK'
    <3>1. purge' \in [on : BOOLEAN, batch : SUBSET Sessions, at : Sessions \cup {NULL},
                      gone : SUBSET Rows, dead : SUBSET Sessions]
      BY <2>1, <2>2 DEF TypeOK
    <3> QED
      BY <2>1, <3>1 DEF TypeOK, Inserting
  <2>4. \A q \in Rows : Resolves(q)' = Resolves(q) /\ Locked(q.session)' = Locked(q.session)
    BY <2>1, <2>2 DEF Resolves, Stored, Locked
  <2>5. \A row \in Inserting : \A s \in SessionsIn(row) : s \notin dead
    BY <2>1 DEF PurgeSession, RetentionInv
  <2>6. \A row \in evidence \ purge.gone : row.session \notin dead \cup {NULL}
    <3>1. \A row \in evidence : row.session # NULL
      BY DEF TypeOK, Rows
    <3> QED
      BY <2>1, <3>1 DEF RetentionInv
  <2>7. Accepts(purge.dead)'
    BY <1>2, <2>1, <2>2 DEF Accepts
  <2> QED
    BY <2>1, <2>2, <2>3, <2>4, <2>5, <2>6, <2>7, InsertingRows
    DEF RetentionInv, EvidenceResolves, Inserting, TypeOK
<1> QED
  BY <1>1, <1>2

LEMMA EndStep ==
  ASSUME TypeOK, RetentionInv, PurgeCommits PROVE TypeOK' /\ RetentionInv'
<1>1. /\ session' = [s \in Sessions |-> IF s \in purge.dead THEN "purged" ELSE session[s]]
      /\ evidence' = Kept /\ purge' = Idle /\ purge.on
      /\ UNCHANGED <<participants, linking, aborts>>
  BY DEF PurgeCommits
<1>2. purge.dead \in SUBSET Sessions /\ evidence \subseteq Rows
  BY DEF TypeOK
<1>3. \A row \in Kept : row \in Rows /\ WellTyped(row)
  BY <1>1, <1>2, ClearedRow DEF Kept, RetentionInv, Accepts
<1>4. TypeOK'
  <2>1. session' \in [Sessions -> {"none", "active", "ended", "expired", "purged"}]
    BY <1>1 DEF TypeOK
  <2>2. Inserting' = Inserting
    BY <1>1 DEF Inserting
  <2> QED
    BY <1>1, <1>3, <2>1, <2>2, IdleType DEF TypeOK
<1>5. \A s \in Sessions : Stored(s) /\ s \notin purge.dead => Stored(s)'
  BY <1>1 DEF Stored
<1>6. ASSUME NEW row \in Kept PROVE Resolves(row)'
  <2>1. PICK old \in evidence \ purge.gone : row = Cleared(old, purge.dead)
    BY DEF Kept
  <2>2. /\ row.session = old.session
        /\ SessionsIn(row) \subseteq SessionsIn(old) \ purge.dead
    BY <1>2, <2>1, ClearedRow
  <2>3. old.session \notin purge.dead /\ Resolves(old)
    BY <1>1, <2>1 DEF RetentionInv, EvidenceResolves
  <2>4. old.session \in Sessions /\ SessionsIn(old) \subseteq Sessions
    BY <1>2, <2>1 DEF Rows, SessionsIn, ItemsIn, Items
  <2> QED
    BY <1>5, <2>2, <2>3, <2>4 DEF Resolves
<1>7. ASSUME NEW row \in Inserting PROVE Resolves(row)'
  <2>1. /\ row.session \notin purge.dead /\ Resolves(row)
        /\ \A s \in SessionsIn(row) : s \notin purge.dead
    BY <1>1 DEF RetentionInv, Locked
  <2>2. row.session \in Sessions /\ SessionsIn(row) \subseteq Sessions
    BY InsertingRows DEF Rows, SessionsIn, ItemsIn, Items
  <2> QED
    BY <1>5, <2>1, <2>2 DEF Resolves
<1>8. Inserting' = Inserting
  BY <1>1 DEF Inserting
<1> QED
  BY <1>1, <1>4, <1>6, <1>7, <1>8
  DEF RetentionInv, EvidenceResolves, Locked, Idle

LEMMA StutterStep ==
  ASSUME TypeOK, RetentionInv, UNCHANGED retentionVars PROVE TypeOK' /\ RetentionInv'
BY DEF retentionVars, TypeOK, RetentionInv, EvidenceResolves, Inserting, Resolves, Stored,
       Locked, Accepts

LEMMA InvHolds == RetentionSpec => [](TypeOK /\ RetentionInv)
<1>1. TypeOK /\ RetentionInv /\ [RetentionNext]_retentionVars => (TypeOK /\ RetentionInv)'
  <2>1. CASE PurgeBreaks
    BY <2>1, BackToIdle DEF PurgeBreaks, TypeOK
  <2> QED
    BY <2>1, SessionStep, LinkStep, CommitStep, BeginStep, EvidenceStep, DeleteStep, EndStep,
       StutterStep DEF RetentionNext, Purge
<1> QED
  BY <1>1, InitHolds, PTL DEF RetentionSpec

(* The state keeps its types, and every row of evidence passes the check   *)
(* of its type.                                                            *)
THEOREM TypeCorrect == RetentionSpec => []TypeOK
BY InvHolds, PTL

(* No evidence outlives its session, whatever is linked while purges run.  *)
THEOREM NoEvidenceOutlives == RetentionSpec => []EvidenceResolves
<1>1. RetentionInv => EvidenceResolves
  BY DEF RetentionInv
<1> QED
  BY <1>1, InvHolds, PTL
-----------------------------------------------------------------------------
LEMMA FindingStepsLeave ==
  ASSUME FindingSteps PROVE UNCHANGED <<retentionVars, published, target, report, reports>>
<1>1. ASSUME NEW f, NEW v, NEW metric, CreateFinding(f, v, metric)
      PROVE  UNCHANGED <<retentionVars, published, target, report, reports>>
  BY <1>1 DEF CreateFinding
<1>2. ASSUME NEW f, NEW status, NEW metric, UpdateFinding(f, status, metric)
      PROVE  UNCHANGED <<retentionVars, published, target, report, reports>>
  BY <1>2 DEF UpdateFinding
<1>3. ASSUME NEW r, CreateRetest(r)
      PROVE  UNCHANGED <<retentionVars, published, target, report, reports>>
  BY <1>3 DEF CreateRetest
<1> QED
  BY <1>1, <1>2, <1>3 DEF FindingSteps

(* Every step of Reports is one of Retention or leaves its state alone.    *)
THEOREM ReportsKeepRetention == Spec => RetentionSpec
<1>1. Init => RetentionInit
  BY DEF Init
<1>2. [Next]_vars => [RetentionNext]_retentionVars
  <2> SUFFICES ASSUME [Next]_vars PROVE [RetentionNext]_retentionVars
    OBVIOUS
  <2>1. CASE \/ \E v \in Versions : Publish(v)
             \/ \E v \in Versions, t \in Targets : Retarget(v, t)
    BY <2>1 DEF Publish, Retarget
  <2>2. CASE FindingSteps
    BY <2>2, FindingStepsLeave
  <2>3. CASE ReportSteps
    BY <2>3 DEF ReportSteps, BeginReport, ReadContext, ReadVersion, ReadSessions, ReadEvents,
                ReadAnswers, ReadFindings, ReadEvidence, ReadRetests, BuildReport, CloseReport, Goes
  <2>4. CASE SessionSteps
    <3>1. ASSUME NEW s \in Sessions, StartSession(s) \/ EndSession(s) \/ Expire(s)
          PROVE  RetentionNext
      BY <3>1 DEF RetentionNext
    <3>2. ASSUME NEW r \in Researchers, LinkCommits(r) PROVE RetentionNext
      BY <3>2 DEF RetentionNext
    <3>3. ASSUME NEW r \in Researchers, NEW row \in Rows, LinkEvidence(r, row)
          PROVE  RetentionNext
      BY <3>3 DEF RetentionNext
    <3>4. CASE Purge \/ PurgeBreaks
      BY <3>4 DEF RetentionNext
    <3> QED
      BY <2>4, <3>1, <3>2, <3>3, <3>4 DEF SessionSteps
  <2>5. CASE UNCHANGED vars
    BY <2>5 DEF vars
  <2> QED
    BY <2>1, <2>2, <2>3, <2>4, <2>5 DEF Next
<1> QED
  BY <1>1, <1>2, PTL DEF Spec, RetentionSpec
-----------------------------------------------------------------------------
(* A report while it is read, and once it is built.                        *)
ReportGood(r) ==
  /\ r \in Report
  /\ r.stage \notin {"reading", "done"} => r.results = Uncounted /\ r.found = NULL
  /\ r.stage = "reading" => r.version \in Versions

StateGood ==
  /\ published \subseteq Versions /\ target \in [Versions -> Targets]
  /\ findings \in [FindingIds -> Findings \cup {NULL}]
  /\ retests \subseteq Retests
  /\ refused \subseteq {"finding", "retest"}
  /\ reports \in 0 .. MaxReports

ReportInv == StateGood /\ ReportGood(report)

LEMMA NoReportGood == ReportGood(NoReport)
<1>1. [f \in FindingIds |-> NULL] \in [FindingIds -> (SUBSET Rows) \cup {NULL}]
  OBVIOUS
<1>2. Uncounted \in Counted
  BY DEF Uncounted, Counted
<1>3. NoReport \in Report
  BY <1>1, <1>2 DEF NoReport, Report
<1>4. NoReport.stage = "idle" /\ NoReport.results = Uncounted /\ NoReport.found = NULL
  BY DEF NoReport
<1> QED
  BY <1>3, <1>4 DEF ReportGood

(* One field of a report is filled in.                                     *)
LEMMA Filled ==
  ASSUME NEW r \in Report
  PROVE  /\ \A x \in {"reading", "done", "unreadable", "mismatch"} :
              [r EXCEPT !.stage = x] \in Report
         /\ \A x \in Versions : [r EXCEPT !.version = x] \in Report
         /\ \A x \in BOOLEAN : [r EXCEPT !.opened = x] \in Report
         /\ \A x \in Contexts : [r EXCEPT !.context = x] \in Report
         /\ \A x \in Counted : [r EXCEPT !.results = x] \in Report
         /\ \A x \in Lists : [r EXCEPT !.found = x] \in Report
         /\ \A x \in [FindingIds -> (SUBSET Rows) \cup {NULL}] : [r EXCEPT !.links = x] \in Report
         /\ \A x \in SUBSET Retests : [r EXCEPT !.retests = x] \in Report
<1>1. \A x \in {"reading", "done", "unreadable", "mismatch"} : [r EXCEPT !.stage = x] \in Report
  BY DEF Report
<1>2. \A x \in Versions : [r EXCEPT !.version = x] \in Report
  BY DEF Report
<1>3. \A x \in Contexts : [r EXCEPT !.context = x] \in Report
  BY DEF Report
<1>4. \A x \in Counted : [r EXCEPT !.results = x] \in Report
  BY DEF Report
<1>5. \A x \in Lists : [r EXCEPT !.found = x] \in Report
  BY DEF Report
<1>6. \A x \in [FindingIds -> (SUBSET Rows) \cup {NULL}] : [r EXCEPT !.links = x] \in Report
  BY DEF Report
<1>7. \A x \in SUBSET Retests : [r EXCEPT !.retests = x] \in Report
  BY DEF Report
<1>8. \A x \in BOOLEAN : [r EXCEPT !.opened = x] \in Report
  BY DEF Report
<1> QED
  BY <1>1, <1>2, <1>3, <1>4, <1>5, <1>6, <1>7, <1>8

(* A report that fails or begins holds nothing.                            *)
Blank(stage, v, opened) ==
  [NoReport EXCEPT !.stage = stage, !.version = v, !.opened = opened]

LEMMA EmptyReportGood ==
  ASSUME NEW stage \in {"reading", "unreadable", "mismatch"}, NEW v \in Versions,
         NEW opened \in BOOLEAN
  PROVE  LET r == Blank(stage, v, opened)
         IN  /\ ReportGood(r)
             /\ r.stage = stage /\ r.version = v /\ r.opened = opened
             /\ r.context = NULL /\ r.results = Uncounted /\ r.retests = NULL
<1> DEFINE r == Blank(stage, v, opened)
           first == [NoReport EXCEPT !.stage = stage]
           second == [first EXCEPT !.version = v]
<1>1. NoReport \in Report
  BY NoReportGood DEF ReportGood
<1>2. second \in Report
  BY <1>1, Filled
<1>3. [second EXCEPT !.opened = opened] \in Report
  <2> HIDE DEF second
  <2> QED
    BY <1>2, Filled
<1>4. r = [second EXCEPT !.opened = opened]
  BY DEF NoReport, Blank
<1>5. /\ r.stage = stage /\ r.version = v /\ r.opened = opened
      /\ r.context = NULL /\ r.results = Uncounted /\ r.found = NULL /\ r.retests = NULL
  BY DEF NoReport, Blank
<1> HIDE DEF second, r
<1>6. ReportGood(r)
  BY <1>3, <1>4, <1>5 DEF ReportGood
<1> QED
  BY <1>5, <1>6 DEF r

LEMMA OfferedAreSnapshots ==
  ASSUME NEW v \in Versions, NEW metric \in Offered(v) PROVE metric \in Snapshots
<1>1. StoredItems(v) \subseteq Items
  BY DEF StoredItems
<1>2. metric \in [key : Keys, version : {v}, value : Values \cup {NULL},
                  aggregation : Aggregations, sources : {{}, StoredItems(v)}]
  BY DEF Offered
<1> QED
  BY <1>1, <1>2 DEF Snapshots

LEMMA FindingStepsGood ==
  ASSUME ReportInv, ReportsAssumption, FindingSteps PROVE ReportInv'
<1>1. ASSUME NEW f \in FindingIds, NEW v \in Versions, NEW w \in Versions,
             NEW metric \in Offered(w), CreateFinding(f, v, metric)
      PROVE  ReportInv'
  <2>1. metric \in Snapshots
    BY OfferedAreSnapshots
  <2>2. [version |-> v, status |-> "open", metric |-> metric] \in Findings
    BY <2>1 DEF Findings, ReportsAssumption
  <2>3. findings' \in [FindingIds -> Findings \cup {NULL}]
    BY <1>1, <2>2 DEF CreateFinding, ReportInv, StateGood
  <2> QED
    BY <1>1, <2>3 DEF CreateFinding, ReportInv, StateGood
<1>2. ASSUME NEW f \in FindingIds, NEW status \in Statuses, NEW v \in Versions,
             NEW metric \in Offered(v)
                              \cup {IF findings[f] = NULL THEN NoSnapshot ELSE findings[f].metric},
             UpdateFinding(f, status, metric)
      PROVE  ReportInv'
  <2>1. findings[f] \in Findings
    BY <1>2 DEF UpdateFinding, ReportInv, StateGood
  <2>2. metric \in Snapshots \cup {NoSnapshot}
    BY <2>1, OfferedAreSnapshots DEF Findings
  <2>3. [[findings[f] EXCEPT !.status = status] EXCEPT !.metric = metric] \in Findings
    BY <2>1, <2>2 DEF Findings
  <2>4. findings' = [findings EXCEPT ![f] =
                       [[findings[f] EXCEPT !.status = status] EXCEPT !.metric = metric]]
    BY <1>2 DEF UpdateFinding, ReportInv, StateGood
  <2>5. findings' \in [FindingIds -> Findings \cup {NULL}]
    BY <2>3, <2>4 DEF ReportInv, StateGood
  <2> QED
    BY <1>2, <2>5 DEF UpdateFinding, ReportInv, StateGood
<1>3. ASSUME NEW f \in FindingIds, NEW v \in Versions, NEW w \in Versions,
             NEW before \in Offered(v), NEW after \in Offered(w),
             CreateRetest([finding |-> f, original |-> v, retest |-> w,
                           before |-> before, after |-> after])
      PROVE  ReportInv'
  <2>1. before \in Snapshots /\ after \in Snapshots
    BY OfferedAreSnapshots
  <2>2. [finding |-> f, original |-> v, retest |-> w, before |-> before, after |-> after] \in Retests
    BY <2>1 DEF Retests
  <2> QED
    BY <1>3, <2>2 DEF CreateRetest, ReportInv, StateGood
<1> QED
  BY <1>1, <1>2, <1>3 DEF FindingSteps

(* What is read becomes part of the report; who builds it compares.        *)
LEMMA ReadingGood ==
  ASSUME ReportInv, NEW next, Reading, Goes(next), next \in Report,
         next.stage = "reading", next.version \in Versions
  PROVE  ReportInv'
BY DEF ReportInv, StateGood, ReportGood, Goes

LEMMA FailGood ==
  ASSUME ReportInv, Reading, NEW reason \in {"unreadable", "mismatch"}, Goes(Fail(reason))
  PROVE  /\ ReportInv'
         /\ report'.stage = reason /\ report'.opened = report.opened
<1>1. report.version \in Versions /\ report.opened \in BOOLEAN
  BY DEF ReportInv, ReportGood, Reading, Report
<1>2. report' = Blank(reason, report.version, report.opened)
  BY DEF Goes, Fail, Blank
<1>3. ReportGood(report') /\ report'.stage = reason /\ report'.opened = report.opened
  BY <1>1, <1>2, EmptyReportGood
<1> QED
  BY <1>3 DEF Goes, ReportInv, StateGood

LEMMA ContextsAreTyped ==
  ASSUME ReportInv, NEW v \in Versions PROVE Context(v) \in Contexts
BY DEF Context, Contexts, ReportInv, StateGood

(* What one more answer makes of the results: nothing else of the report   *)
(* changes, nor of the results.                                            *)
Answered(c) ==
  /\ c \in Counted
  /\ Goes([report EXCEPT !.results = c])
  /\ \/ c.context = report.results.context
     \/ report.results.context = NULL /\ c.context = Context(report.version)

LEMMA ResultsStep ==
  ASSUME ReportInv, ReadVersion \/ ReadSessions \/ ReadEvents \/ ReadAnswers
  PROVE  Reading /\ \E c : Answered(c)
<1>1. Reading /\ report \in Report /\ report.version \in Versions
  BY DEF ReportInv, ReportGood, Reading, ReadVersion, ReadSessions, ReadEvents, ReadAnswers
<1>2. report.results \in Counted
  BY <1>1 DEF Report
<1>3. CASE ReadVersion
  <2> DEFINE c == [report.results EXCEPT !.context = Context(report.version)]
  <2>1. c \in Counted /\ c.context = Context(report.version)
    BY <1>1, <1>2, ContextsAreTyped DEF Counted
  <2>2. Goes([report EXCEPT !.results = c]) /\ report.results.context = NULL
    BY <1>1, <1>3 DEF ReadVersion, Report
  <2> HIDE DEF c
  <2>3. Answered(c)
    BY <2>1, <2>2 DEF Answered
  <2> QED
    BY <1>1, <2>3
<1>4. CASE ReadSessions
  <2> DEFINE c == [report.results EXCEPT !.sessions = StoredSessions(report.version)]
  <2>1. c \in Counted /\ c.context = report.results.context
    BY <1>2 DEF Counted, StoredSessions
  <2>2. Goes([report EXCEPT !.results = c])
    BY <1>1, <1>4 DEF ReadSessions, Report
  <2> HIDE DEF c
  <2>3. Answered(c)
    BY <2>1, <2>2 DEF Answered
  <2> QED
    BY <1>1, <2>3
<1>5. CASE ReadEvents
  <2> DEFINE rows == Events \cap StoredItems(report.version)
             c == [report.results EXCEPT !.events = rows]
  <2>1. c \in Counted /\ c.context = report.results.context
    BY <1>2 DEF Counted
  <2>2. Goes([report EXCEPT !.results = c])
    BY <1>1, <1>5 DEF ReadEvents, Report
  <2> HIDE DEF c
  <2>3. Answered(c)
    BY <2>1, <2>2 DEF Answered
  <2> QED
    BY <1>1, <2>3
<1>6. CASE ReadAnswers
  <2> DEFINE rows == {a \in Answers : /\ SessionOf[a] \in report.results.sessions
                                      /\ Stored(SessionOf[a])}
             c == [report.results EXCEPT !.answers = rows]
  <2>1. rows \in SUBSET Answers
    OBVIOUS
  <2>2. Goes([report EXCEPT !.results = c])
    BY <1>1, <1>6 DEF ReadAnswers, Report
  <2> HIDE DEF rows
  <2>3. c \in Counted /\ c.context = report.results.context
    BY <1>2, <2>1 DEF Counted
  <2> HIDE DEF c
  <2>4. Answered(c)
    BY <2>2, <2>3 DEF Answered
  <2> QED
    BY <1>1, <2>4
<1> QED
  BY <1>3, <1>4, <1>5, <1>6

LEMMA ReportStepsGood ==
  ASSUME ReportInv, ReportsAssumption, TypeOK, ReportSteps PROVE ReportInv'
<1>1. report \in Report
  BY DEF ReportInv, ReportGood
<1>2. Reading => report.version \in Versions
  BY DEF ReportInv, ReportGood, Reading
<1>3. ASSUME NEW v \in Versions, BeginReport(v) PROVE ReportInv'
  <2>1. report' = Blank("reading", v, v \in published) /\ (v \in published) \in BOOLEAN
    BY <1>3 DEF BeginReport, Blank
  <2>2. ReportGood(report')
    BY <2>1, EmptyReportGood
  <2>3. reports' \in 0 .. MaxReports
    BY <1>3 DEF BeginReport, ReportInv, StateGood, ReportsAssumption
  <2> QED
    BY <1>3, <2>3, <2>2 DEF BeginReport, ReportInv, StateGood
<1>4. CASE ReadContext
  <2> DEFINE next == [report EXCEPT !.context = Context(report.version)]
  <2>1. Reading /\ Goes(next) /\ Context(report.version) \in Contexts
    BY <1>2, <1>4, ContextsAreTyped DEF ReadContext
  <2>2. next \in Report
    BY <1>1, <2>1, Filled
  <2>3. next.stage = "reading" /\ next.version \in Versions
    BY <1>1, <1>2, <2>1 DEF Reading, Report
  <2> HIDE DEF next
  <2> QED
    BY <2>1, <2>2, <2>3, ReadingGood
<1>5. CASE ReadVersion \/ ReadSessions \/ ReadEvents \/ ReadAnswers
  <2>1. Reading /\ \E c : Answered(c)
    BY <1>5, ResultsStep
  <2>2. PICK c : Answered(c)
    BY <2>1
  <2> DEFINE next == [report EXCEPT !.results = c]
  <2>3. c \in Counted /\ Goes(next)
    BY <2>2 DEF Answered
  <2>4. next \in Report
    BY <1>1, <2>3, Filled
  <2>5. next.stage = "reading" /\ next.version \in Versions
    BY <1>1, <1>2, <2>1 DEF Reading, Report
  <2> HIDE DEF next
  <2> QED
    BY <2>1, <2>3, <2>4, <2>5, ReadingGood
<1>6. CASE ReadFindings
  <2> DEFINE rows == [f \in Of(report.version) |-> findings[f]]
             next == [report EXCEPT !.found = rows]
  <2>1. Of(report.version) \in SUBSET FindingIds
    BY DEF Of
  <2>2. rows \in [Of(report.version) -> Findings]
    BY DEF Of, ReportInv, StateGood
  <2>3. rows \in Lists
    BY <2>1, <2>2 DEF Lists
  <2>4. next \in Report
    BY <1>1, <2>3, Filled
  <2>5. next.stage = "reading" /\ next.version \in Versions
    BY <1>1, <1>2, <1>6 DEF ReadFindings, Reading, Report
  <2>6. Reading /\ (Goes(next) \/ Goes(Fail("unreadable")))
    BY <1>6 DEF ReadFindings
  <2> HIDE DEF next
  <2> QED
    BY <2>4, <2>5, <2>6, ReadingGood, FailGood
<1>7. ASSUME NEW f \in FindingIds, ReadEvidence(f) PROVE ReportInv'
  <2> DEFINE linked == {row \in evidence : row.finding = f}
             links == [report.links EXCEPT ![f] = linked]
             next == [report EXCEPT !.links = links]
  <2>1. linked \in SUBSET Rows
    BY DEF TypeOK
  <2>2. report.links \in [FindingIds -> (SUBSET Rows) \cup {NULL}]
    BY <1>1 DEF Report
  <2>3. links \in [FindingIds -> (SUBSET Rows) \cup {NULL}]
    BY <2>1, <2>2
  <2>4. next \in Report
    BY <1>1, <2>3, Filled
  <2>5. next.stage = "reading" /\ next.version \in Versions
    BY <1>1, <1>2, <1>7 DEF ReadEvidence, Reading, Report
  <2>6. Goes(next) /\ Reading
    BY <1>7 DEF ReadEvidence
  <2> HIDE DEF next
  <2> QED
    BY <2>4, <2>5, <2>6, ReadingGood
<1>8. CASE ReadRetests
  <2> DEFINE rows == {r \in retests : r.original = report.version}
             next == [report EXCEPT !.retests = rows]
  <2>1. rows \in SUBSET Retests
    BY DEF ReportInv, StateGood
  <2>2. next \in Report
    BY <1>1, <2>1, Filled
  <2>3. next.stage = "reading" /\ next.version \in Versions
    BY <1>1, <1>2, <1>8 DEF ReadRetests, Reading, Report
  <2>4. Reading /\ (Goes(next) \/ Goes(Fail("unreadable")))
    BY <1>8 DEF ReadRetests
  <2> HIDE DEF next
  <2> QED
    BY <2>2, <2>3, <2>4, ReadingGood, FailGood
<1>9. CASE BuildReport
  <2> DEFINE next == [report EXCEPT !.stage = "done"]
  <2>1. CASE Fits
    <3>1. next \in Report
      BY <1>1, Filled
    <3>2. next \in Report /\ next.stage = "done"
      BY <1>1, <3>1 DEF Report
    <3>3. Goes(next)
      BY <1>9, <2>1 DEF BuildReport
    <3> HIDE DEF next
    <3>4. ReportGood(next)
      BY <3>2 DEF ReportGood
    <3> QED
      BY <3>3, <3>4 DEF Goes, ReportInv, StateGood
  <2>2. CASE ~Fits
    BY <1>9, <2>2, FailGood DEF BuildReport
  <2> QED
    BY <2>1, <2>2
<1>10. CASE CloseReport
  BY <1>10, NoReportGood DEF CloseReport, Goes, ReportInv, StateGood
<1> QED
  BY <1>3, <1>4, <1>5, <1>6, <1>7, <1>8, <1>9, <1>10 DEF ReportSteps

LEMMA ReportInvHolds == Spec => []ReportInv
<1> USE ReportsAssumption
<1>1. Init => ReportInv
  <2> SUFFICES ASSUME Init PROVE ReportInv
    OBVIOUS
  <2>1. PICK v \in Versions :
          findings = [f \in FindingIds |->
                        IF f \in Legacy
                        THEN [version |-> v, status |-> "open", metric |-> NoSnapshot] ELSE NULL]
    BY DEF Init
  <2>2. [version |-> v, status |-> "open", metric |-> NoSnapshot] \in Findings
    BY DEF Findings
  <2>3. StateGood
    BY <2>1, <2>2 DEF Init, StateGood
  <2> QED
    BY <2>3, NoReportGood DEF Init, ReportInv
<1>2. TypeOK /\ ReportInv /\ [Next]_vars => ReportInv'
  <2> SUFFICES ASSUME TypeOK, ReportInv, [Next]_vars PROVE ReportInv'
    OBVIOUS
  <2>1. ASSUME NEW v \in Versions, Publish(v) PROVE ReportInv'
    BY <2>1 DEF Publish, ReportInv, StateGood
  <2>2. ASSUME NEW v \in Versions, NEW t \in Targets, Retarget(v, t) PROVE ReportInv'
    BY <2>2 DEF Retarget, ReportInv, StateGood
  <2>3. CASE SessionSteps
    BY <2>3 DEF SessionSteps, reportVars, ReportInv, StateGood
  <2>4. CASE UNCHANGED vars
    BY <2>4 DEF vars, reportVars, ReportInv, StateGood
  <2> QED
    BY <2>1, <2>3, <2>4, <2>2, FindingStepsGood, ReportStepsGood DEF Next
<1> QED
  BY <1>1, <1>2, ReportsKeepRetention, TypeCorrect, PTL DEF Spec

(* The state of the reports keeps its types, whatever is read when.        *)
THEOREM ReportTypes == Spec => []ReportTypeOK
<1>1. TypeOK /\ ReportInv => ReportTypeOK
  BY DEF ReportInv, StateGood, ReportGood, ReportTypeOK
<1> QED
  BY <1>1, ReportInvHolds, ReportsKeepRetention, TypeCorrect, PTL

-----------------------------------------------------------------------------
LEMMA FindingStepsNormalize ==
  ASSUME ReportInv, Normalized, FindingSteps PROVE Normalized'
<1>1. ASSUME NEW f \in FindingIds, NEW v \in Versions, NEW w \in Versions,
             NEW metric \in Offered(w), CreateFinding(f, v, metric)
      PROVE  Normalized'
  <2> DEFINE new == [version |-> v, status |-> "open", metric |-> metric]
  <2>1. Normal(new.metric, new.version)
    BY <1>1 DEF CreateFinding
  <2>2. retests' = retests /\ (findings' = findings \/ findings' = [findings EXCEPT ![f] = new])
    BY <1>1 DEF CreateFinding
  <2>3. \A g \in FindingIds : findings'[g] \in {findings[g], new}
    BY <2>2 DEF ReportInv, StateGood
  <2> HIDE DEF new
  <2> QED
    BY <2>1, <2>2, <2>3 DEF Normalized
<1>2. ASSUME NEW f \in FindingIds, NEW status \in Statuses, NEW metric,
             UpdateFinding(f, status, metric)
      PROVE  Normalized'
  <2>1. findings[f] \in Findings /\ findings[f] # NULL /\ retests' = retests
    BY <1>2 DEF UpdateFinding, ReportInv, StateGood
  <2>2. Normal(metric, findings[f].version)
    BY <1>2, <2>1 DEF UpdateFinding, MayReplace, Normalized
  <2>3. findings'[f].metric = metric /\ findings'[f].version = findings[f].version
    BY <1>2, <2>1 DEF UpdateFinding, ReportInv, StateGood, Findings
  <2>4. \A g \in FindingIds : g # f => findings'[g] = findings[g]
    BY <1>2 DEF UpdateFinding, ReportInv, StateGood
  <2> QED
    BY <2>1, <2>2, <2>3, <2>4 DEF Normalized
<1>3. ASSUME NEW r, CreateRetest(r) PROVE Normalized'
  BY <1>3 DEF CreateRetest, Normalized
<1> QED
  BY <1>1, <1>2, <1>3 DEF FindingSteps

(* While a published version is read, what was read of its row is what is  *)
(* there; the retests come after both reads of it.                         *)
Steady ==
  report.stage = "reading" =>
    /\ report.retests # NULL => NULL \notin {report.context, report.results.context}
    /\ report.opened =>
         /\ report.version \in published
         /\ {report.context, report.results.context} \subseteq {NULL, Context(report.version)}

Safe == Normalized /\ Steady /\ ReportsAnswered

(* A version that is published keeps the context its reports read.         *)
LEMMA VersionsMoveSafely ==
  ASSUME ReportInv, Steady, UNCHANGED report, published \subseteq published',
         \A v \in published : target'[v] = target[v]
  PROVE  Steady'
<1>1. \A v \in published : Context(v)' = Context(v)
  BY DEF Context
<1> QED
  BY <1>1 DEF Steady

(* A failed report, or one that is begun or closed, has read nothing.      *)
LEMMA BegunSafely ==
  ASSUME NEW v \in Versions, BeginReport(v) PROVE Steady' /\ ReportsAnswered'
<1>1. PICK b \in BOOLEAN : b = (v \in published)
  <2>1. CASE v \in published
    <3>1. TRUE = (v \in published)
      BY <2>1
    <3> QED
      BY <3>1
  <2>2. CASE v \notin published
    <3>1. FALSE = (v \in published)
      BY <2>2
    <3> QED
      BY <3>1
  <2> QED
    BY <2>1, <2>2
<1>2. report' = Blank("reading", v, b) /\ published' = published
  BY <1>1 DEF BeginReport, Blank
<1>3. LET r == Blank("reading", v, b)
      IN  /\ r.stage = "reading" /\ r.version = v /\ r.opened = b
          /\ r.context = NULL /\ r.results = Uncounted /\ r.retests = NULL
  BY EmptyReportGood
<1>4. /\ report'.stage = "reading" /\ report'.version = v /\ report'.opened = b
      /\ report'.context = NULL /\ report'.results.context = NULL /\ report'.retests = NULL
  BY <1>2, <1>3 DEF Uncounted
<1> QED
  BY <1>1, <1>2, <1>4 DEF Steady, ReportsAnswered

LEMMA ReadSafely ==
  ASSUME ReportInv, Safe, RetestsHaveUpdatedAt, ReportSteps
  PROVE  Steady' /\ ReportsAnswered'
<1>1. report \in Report /\ (Reading => report.version \in Versions)
  BY DEF ReportInv, ReportGood, Reading
<1>2. report.results \in Counted
  BY <1>1 DEF Report
<1>3. ASSUME NEW v \in Versions, BeginReport(v) PROVE Steady' /\ ReportsAnswered'
  BY <1>3, BegunSafely
<1>4. ASSUME ReadContext PROVE Steady' /\ ReportsAnswered'
  <2> DEFINE next == [report EXCEPT !.context = Context(report.version)]
  <2>1. /\ next.stage = report.stage /\ next.version = report.version
        /\ next.opened = report.opened /\ next.results = report.results
        /\ next.retests = report.retests /\ next.context = Context(report.version)
    BY <1>1 DEF Report
  <2>2. report' = next /\ Reading /\ report.context = NULL /\ UNCHANGED <<published, target>>
    BY <1>4 DEF ReadContext, Goes
  <2> HIDE DEF next
  <2> QED
    BY <2>1, <2>2 DEF Safe, Steady, ReportsAnswered, Context, Reading
<1>5. ASSUME ReadVersion \/ ReadSessions \/ ReadEvents \/ ReadAnswers
      PROVE  Steady' /\ ReportsAnswered'
  <2>1. Reading /\ \E c : Answered(c)
    BY <1>5, ResultsStep
  <2>2. PICK c : Answered(c)
    BY <2>1
  <2> DEFINE next == [report EXCEPT !.results = c]
  <2>3. /\ next.stage = report.stage /\ next.version = report.version
        /\ next.opened = report.opened /\ next.context = report.context
        /\ next.retests = report.retests /\ next.results = c
    BY <1>1 DEF Report
  <2>4. report' = next /\ UNCHANGED <<published, target>>
    BY <2>2 DEF Answered, Goes
  <2>5. \/ c.context = report.results.context
        \/ report.results.context = NULL /\ c.context = Context(report.version)
    BY <2>2 DEF Answered
  <2> HIDE DEF next
  <2> QED
    BY <2>1, <2>3, <2>4, <2>5 DEF Safe, Steady, ReportsAnswered, Context, Reading
<1>6. ASSUME ReadFindings PROVE Steady' /\ ReportsAnswered'
  <2> DEFINE rows == [f \in Of(report.version) |-> findings[f]]
             next == [report EXCEPT !.found = rows]
  <2>1. \A f \in DOMAIN rows : Normal(rows[f].metric, rows[f].version)
    BY DEF Of, Safe, Normalized
  <2>2. report' = next /\ Reading /\ UNCHANGED <<published, target>>
    BY <1>6, <2>1 DEF ReadFindings, Goes
  <2>3. /\ next.stage = report.stage /\ next.version = report.version
        /\ next.opened = report.opened /\ next.context = report.context
        /\ next.retests = report.retests /\ next.results = report.results
    BY <1>1 DEF Report
  <2> HIDE DEF next
  <2> QED
    BY <2>2, <2>3 DEF Safe, Steady, ReportsAnswered, Context
<1>7. ASSUME NEW f \in FindingIds, ReadEvidence(f) PROVE Steady' /\ ReportsAnswered'
  <2> DEFINE next == [report EXCEPT !.links[f] = {row \in evidence : row.finding = f}]
  <2>1. report' = next /\ Reading /\ UNCHANGED <<published, target>>
    BY <1>7 DEF ReadEvidence, Goes
  <2>2. /\ next.stage = report.stage /\ next.version = report.version
        /\ next.opened = report.opened /\ next.context = report.context
        /\ next.retests = report.retests /\ next.results = report.results
    BY <1>1 DEF Report
  <2> HIDE DEF next
  <2> QED
    BY <2>1, <2>2 DEF Safe, Steady, ReportsAnswered, Context
<1>8. ASSUME ReadRetests PROVE Steady' /\ ReportsAnswered'
  <2> DEFINE rows == {r \in retests : r.original = report.version}
             next == [report EXCEPT !.retests = rows]
  <2>1. RetestsHaveUpdatedAt /\ \A r \in rows : Comparable(r)
    BY DEF Safe, Normalized
  <2>2. report' = next /\ Reading /\ AllRead /\ UNCHANGED <<published, target>>
    BY <1>8, <2>1 DEF ReadRetests, Goes
  <2>3. /\ next.stage = report.stage /\ next.version = report.version
        /\ next.opened = report.opened /\ next.context = report.context
        /\ next.results = report.results
    BY <1>1 DEF Report
  <2> HIDE DEF next
  <2> QED
    BY <2>2, <2>3 DEF Safe, Steady, ReportsAnswered, Context, AllRead
<1>9. ASSUME BuildReport PROVE Steady' /\ ReportsAnswered'
  <2>1. Reading /\ report.retests # NULL
    BY <1>9 DEF BuildReport
  <2>2. report.opened => Fits
    BY <2>1 DEF Safe, Steady, Reading, Fits
  <2>3. CASE Fits
    <3> DEFINE next == [report EXCEPT !.stage = "done"]
    <3>1. report' = next /\ next.stage = "done"
      BY <1>1, <1>9, <2>3 DEF BuildReport, Goes, Report
    <3> HIDE DEF next
    <3> QED
      BY <3>1 DEF Steady, ReportsAnswered
  <2>4. CASE ~Fits
    <3>1. report'.stage = "mismatch" /\ report'.opened = report.opened
      BY <1>9, <2>1, <2>4, FailGood DEF BuildReport
    <3> QED
      BY <2>2, <2>4, <3>1 DEF Steady, ReportsAnswered
  <2> QED
    BY <2>3, <2>4
<1>10. ASSUME CloseReport PROVE Steady' /\ ReportsAnswered'
  BY <1>10 DEF CloseReport, Goes, Steady, ReportsAnswered, NoReport
<1> QED
  BY <1>3, <1>4, <1>5, <1>6, <1>7, <1>8, <1>9, <1>10 DEF ReportSteps

(* Where every finding has its snapshot and the table its columns, a       *)
(* report is always answered: no write fails a list it will read, and the  *)
(* two reads of a published version agree though sessions, findings and    *)
(* drafts move between them.                                               *)
THEOREM ReportsAreAnswered ==
  ASSUME Legacy = {}, RetestsHaveUpdatedAt
  PROVE  Spec => []ReportsAnswered
<1>1. Init => Safe
  BY DEF Init, Safe, Normalized, Steady, ReportsAnswered, NoReport
<1>2. ReportInv /\ Safe /\ [Next]_vars => Safe'
  <2> SUFFICES ASSUME ReportInv, Safe, [Next]_vars PROVE Safe'
    OBVIOUS
  <2>1. ASSUME NEW v \in Versions, Publish(v) PROVE Safe'
    <3>1. UNCHANGED report /\ published \subseteq published' /\ target' = target
      BY <2>1 DEF Publish
    <3>2. Steady'
      BY <3>1, VersionsMoveSafely DEF Safe
    <3> QED
      BY <2>1, <3>2 DEF Publish, Safe, Normalized, ReportsAnswered
  <2>2. ASSUME NEW v \in Versions, NEW t \in Targets, Retarget(v, t) PROVE Safe'
    <3>1. UNCHANGED report /\ published' = published
      BY <2>2 DEF Retarget
    <3>2. \A w \in published : target'[w] = target[w]
      BY <2>2 DEF Retarget, ReportInv, StateGood
    <3>3. Steady'
      BY <3>1, <3>2, VersionsMoveSafely DEF Safe
    <3> QED
      BY <2>2, <3>3 DEF Retarget, Safe, Normalized, ReportsAnswered
  <2>3. CASE FindingSteps
    <3>1. Normalized'
      BY <2>3, FindingStepsNormalize DEF Safe
    <3>2. UNCHANGED <<report, published, target>>
      BY <2>3, FindingStepsLeave
    <3>3. Steady'
      BY <3>2, VersionsMoveSafely DEF Safe
    <3> QED
      BY <3>1, <3>2, <3>3 DEF Safe, ReportsAnswered
  <2>4. CASE ReportSteps
    <3>1. Normalized'
      BY <2>4 DEF ReportSteps, BeginReport, ReadContext, ReadVersion, ReadSessions, ReadEvents,
                  ReadAnswers, ReadFindings, ReadEvidence, ReadRetests, BuildReport, CloseReport,
                  Goes, Safe, Normalized
    <3> QED
      BY <2>4, <3>1, ReadSafely DEF Safe
  <2>5. CASE SessionSteps \/ UNCHANGED vars
    <3>1. UNCHANGED reportVars
      BY <2>5 DEF SessionSteps, vars
    <3>2. UNCHANGED <<report, published, target>>
      BY <3>1 DEF reportVars
    <3>3. Steady'
      BY <3>2, VersionsMoveSafely DEF Safe
    <3> QED
      BY <3>1, <3>3 DEF reportVars, Safe, Normalized, ReportsAnswered
  <2> QED
    BY <2>1, <2>2, <2>3, <2>4, <2>5 DEF Next
<1>3. Safe => ReportsAnswered
  BY DEF Safe
<1> QED
  BY <1>1, <1>2, <1>3, ReportInvHolds, PTL DEF Spec
=============================================================================
