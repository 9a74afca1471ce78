# Verification of the Usability Testing Platform

TLA+ models of the platform, from a researcher's draft to the results page, the TLC
configurations that check them, and TLAPS proofs about them. Paths below are
relative to the repository root.

## The system and its parts

A researcher publishes a test version; an anonymous participant runs its tasks in
a browser; raw events travel through a local outbox and an ingestion API into
Postgres, where triggers derive outcomes; analytics reads them.

| Component | State | Operations | Interacts with | Hard behaviour | Correct when |
|---|---|---|---|---|---|
| Event outbox `src/lib/tracking/event-outbox.ts` | localStorage array, one in-flight flush | enqueue, flush | lifecycle (enqueue), page (flush), token and collector APIs | enqueue during upload, lost replies, two tabs | nothing is forgotten before it is recorded |
| Runner lifecycle `src/lib/tracking/lifecycle.ts` | sequence, active task, terminal flags | start, accept external, end task, block, complete | outbox (emit), page, bridges | rebuilt after a reload from older state | sequence increases, evidence belongs to a started task |
| Participant page `src/app/t/[testVersionId]/participant-runner-client.tsx` | stage, task index, closures of running flows | the buttons, timers, bridges, polling, recovery | all public APIs | several flows awaiting at once, late replies, reload | stages follow the session |
| Collector `src/lib/collector/`, `src/app/v1/events/route.ts` | none (server functions) | authenticate, persist a batch, dead-letter | token gate, events table, DLQ | partial batches, retry, killed functions | 202 only for what has a row |
| Token gate `..._gwd06_ingestion_token_gate.sql` | used tokens | consume | collector | replay, parallel count | a token admits one request |
| Public session API `src/lib/runner/public-session.ts`, `src/app/api/public/` | cookie proof | start, token, state, feedback | page, database | reads of several tables, session ended meanwhile | state is that of the session |
| Projection and derivation triggers `..._task38_41_...sql`, `..._mt08_...sql` | task_sessions, sessions.status, derived events | after-insert triggers | events table | concurrent ingest, repeated terminals | first valid terminal wins |
| Feedback RPC `..._task37_...sql` | answers, feedback_submitted_at | save | page | double submission | only after an outcome |
| Anonymous session, retention `..._task33_...`, `..._task24_...` | sessions, delete_after | create, purge | all evidence | purge while active | expired evidence only |
| Publish and versioning `..._task32_...`, reorder `..._task29_...` | lifecycle_status, task order | publish, draft, reorder | builder, runner | edit against publish | published versions are immutable |
| Outcome rules `src/lib/builder/task-outcome-rules.ts`, `..._mt08_...` | tasks' rules | validate, match | publish, triggers | the same rule in TypeScript and SQL | success and failure never overlap |
| Provider bridges `src/lib/figma/event-bridge.ts`, `src/lib/web/` | own sequence counter | message to event | lifecycle | counters drift | each interaction once, in order |
| Execution leases `..._auto_major_execution_leases.sql` | lease rows | claim, refresh, release | automation | expiry | one owner at a time |
| Analytics `src/lib/analytics/` | none | page through rows; aggregate, path, funnel, heatmap, time metrics, observations | results page | rows inserted between pages, clocks, zero denominators | every view tells the same, outcomes and times are traced to evidence |
| Builder `src/lib/builder/` | drafts, tasks, rules, mappings | create, edit, import, preflight, save rules | publish | requests of two researchers interleave | what is published can be decided |
| Findings, reports, retests `src/lib/findings/`, `src/lib/reports/` | findings, evidence links, retests | write, link, retest, read a report | purge, results | several requests while the database moves | evidence resolves, a report is answered |
| Auth, RLS, Figma access, observability, UI | rows or none | single requests | database, external services | - | - |

`PROJECT.json` lists each component with its status, and the hazards of the code
with the line where each bites and the properties that would notice.

## Modules

From the browser to the row:

- **EvidenceLog** - the promise: events are numbered as emitted, recorded at most
  once and in order, and the browser stops holding only what is recorded.
- **EvidenceDelivery** - how the code keeps it. A session is open in browser `Tabs`
  that share one outbox (`stored`). Events are named by their place in `log`.
  Per tab: `page`, `sequence`, `ended` (lifecycle), `phase`, `batch`, `token` (the
  flush). Server: `requests` (on the network or in a function), `consumed`
  (one-time tokens), `recorded` (rows), `dlq`, `active` (session status). A step
  runs from one network await to the next; localStorage calls settle inside it.
  The identity of an event is its session, source, sequence and type, so two
  entries of `log` are the same to the outbox and the table iff they are equal;
  an event whose key is a uuid of its own (the first-party bridge) is a kind that
  no other event has. Crash and reload is `Load`/`Configure`; loss, duplication and
  delay are `Lose`, `FlushFails`, `InsertUnheard` and abandoned requests that go on.
- **ParticipantRunner** - the page after consent. `stage` and `index` are the page,
  `life` the lifecycle object, `flows` the asynchronous flows with the await point
  they are at, the task their closure was made for and the state reply they hold;
  `log`/`recorded` abstract delivery to the EvidenceLog promise; `status`,
  `outcome`, `derived`, `submitted` are the database after its triggers.
  `Delivered`, `ReadState`, `Act` are the continuations after `deliver()`,
  `fetchState()` and its reply; `Sync`, `MoveOn`, `Finish`, `Infer` are
  `syncTerminalState`, `moveAfterTerminal`, `finishSession`,
  `inferStageFromState`. Flows that are equal in every respect are one flow.
- **ProviderBridges** - from a message of the prototype to a stored raw event: the
  Figma bridge with its promise chain (`queue`, `waiting`), the first-party message
  bridge, the adapter, and the lifecycle they share the numbering with. `life` and
  `bridge` are the two counters; `stored` is what the outbox took. A `Settings`
  record is a kind of target and of storage. The page's own actions wait until the
  chains are idle; with slow storage only messages overlap.
- **TokenGate** - `withSessionIngestionAuth` and `consume_ingestion_token`, statement
  by statement as READ COMMITTED transactions, under time, a rate limit and a purge.
- **PublicSession** - entry, cookie proof, tokens, the state reply as five requests,
  and the feedback RPC, for two tabs whose cookie may be of another session.
  Events are delivered one at a time here; the snapshot is one step because
  published rows do not change.

In the database:

- **EventStore** - the pure part of the insert triggers: projection on task_sessions
  and sessions, terminal outcomes of both rule versions, backtrack, misclick and
  rage_click rows.
- **TaskProjection** - these triggers as concurrent transactions of one or two tabs
  (`open`): each statement sees what was committed when it began, an update waits
  for the row, a transaction may fail and is retried.
- **Retention** - delete_after, the batched purge (one transaction) and the inserts of
  evidence links beside it: foreign keys with their key share locks against
  `FOR UPDATE SKIP LOCKED`, the typed reference check, aborted batches.
- **ExecutionLease** - claim, refresh and release with `now()` as the start of the
  transaction, waiting calls and lost replies. The workers are not in the repository;
  they follow docs/major-auto-execution.md.

The researcher:

- **OutcomeRules** - the rule algebra twice, as TypeScript and as SQL: normalization,
  conflict, support by the target, matching.
- **RuleAuthoring** - one task from typed rules through saving, mapping, a change of
  target, preview and publish to the event that decides it. `target` is what the row of
  the version says of its target: an import writes snapshot and mapping alike
  (`Imported`), MT-03 made the snapshot of older Figma versions from their mapping and
  lost the key `environment` (`Backfilled`). The preview then reads the mapping instead
  (`PreviewTarget`), the gate the snapshot, where a capability that is not stated is
  NULL and lets a rule pass (`SqlMayBe`).
- **VersionEditing** - drafts, edits, rules, mapping, targets, preflight, reorder,
  publish and clone as the requests of concurrent clients; a write to tasks is two
  steps, because the immutability trigger reads the status without a lock. `gated` is
  history: how many tasks the publish gate saw, the ones a late insert cannot touch.
  A clone is a new row with the columns the procedure lists; the rest has its default.
- **Aggregation**, **Results** - aggregation.ts and metrics.ts; overview, paths,
  session details, funnel, heatmap, time metrics, observations and their
  presentation. Percentiles are kept times twenty, so they stay integral.
- **ResultsRead** - the tables as they grow, and the page that reads events by offset,
  the sessions beside them and the answers of these sessions after.
- **Reports** - findings with their metric snapshots, retests, and a report put
  together from the answers to its requests, each of its own moment: the version's row
  for the report (`ReadContext`) and again for the results (`ReadVersion`), its sessions,
  events and findings in any order, the answers after these, evidence and retests last.
  Meanwhile a draft gets another target (`Retarget`) or is published. `opened` is
  history: the version was published when its report was asked for. Extends Retention,
  because what a report refers to expires.

**Positions** has the parts of a sequence without a fold (`KeepAt`): the filters of the
analytics and of the rules are written with it, and with counts of sets (`SumOver`,
`Ordered`, `InPlaces`) instead of loops, so that what they compute can be proved.
**NaturalSets** has the lemmas on least and greatest elements, prefixes, parts of
sequences, counts and orders that the proofs share. The TLAPS proofs are
**EvidenceProofs** (EvidenceDelivery and ResultsRead), **ParticipantRunnerProofs**,
**PublicSessionProofs**, **TaskProjectionProofs**, **BuilderProofs** (VersionEditing and
RuleAuthoring), **ReportsProofs** (with Retention) and **GuardsProofs** (ProviderBridges,
TokenGate and ExecutionLease). The
**MC...** modules are what TLC starts from: model values, settings, scenarios and
symmetry. `MCGuards` explores TokenGate and ExecutionLease, which share no state, one at
a time (`explored`), and `MCReports` does so with Retention, with Reports beside findings and retests, and with
Reports beside what moves the row of one version.

Every event of the composition passes these borders: ProviderBridges hands stored
events to the outbox of EvidenceDelivery; EvidenceDelivery takes a token refusal at any
time, TokenGate says when; ParticipantRunner stands on the EvidenceLog promise that
EvidenceDelivery is shown to implement, and on a sequential version of the triggers
that TaskProjection has in full; ResultsRead stores rows by the operators of
EventStore; EventStore takes rule matching as given by OutcomeRules.

Definitions marked "(faulty variant)" are what a plausible slip in the code would
make of the definition below them. They are used nowhere; substituting one for the
definition it precedes makes TLC violate the property listed under "mutants".

## Runs

| Run | Question | Bounds |
|---|---|---|
| delivery | is evidence ever lost, recorded with holes or misnumbered; does delivery implement EvidenceLog | 1 tab, 4 events, batches of 2, 2 attempts, 2 tokens |
| delivery_live | does evidence arrive, does recovery end while the session is active | 1 tab, 2 events, 2 tokens |
| delivery_tabs_loss | violated: two tabs lose an event | 2 tabs, 3 events |
| runner | is an outcome always that of the first terminal evidence, does evidence follow its start, is thank-you honest, does a session end as a whole | 2 tasks, 3 kinds of target, 6 events, 2 flows, 1 reload |
| rules | do both programs give a pair of rules one verdict, does the preview tell what publish will do, does a web rule fire | all types, 2 names, 10 forms, 5 imported targets, 4 of before MT-03 |
| versions | is what is published decidable, unchanged and publishable again as a clone | 2 researchers, 2 versions and a third that nobody works beside, 2 tasks, 1 edit, every operation |
| projection | does the outcome have its evidence, is there one, is it final, is every event stored in the end | 1 or 2 tabs, 4 events, 1 failure |
| results | do all views agree, are outcomes, times and what is available traced, can results always be computed, is the funnel the longest prefix, does paging miss or count twice | six scenarios of 1-2 participants, 4-6 raw events, pages of 3 |
| bridges | are numbers gapless and in order, do bridge and lifecycle stay in step, is each message handled | 3 settings, 2 tasks, 8 events, 6 messages, 3 waiting, 2 failures |
| guards | does a token serve once, how far is the rate limit overrun, is a lease exclusive and kept | 3 tokens, 2 parallel requests; 3 workers, time to 4 |
| reports | does evidence of findings resolve, is a report answered whatever moves while it is read, are expired sessions purged | 2 sessions, an event and an answer, 1 abort; 2 versions, 1 finding, 1 retest; 1 version, 2 targets, 1 finding |
| entry | does a state reply cover its events, does a page act on its own session only, is feedback whole and not asked again | 2 tabs, 2 sessions, 2 tasks, 3 events, 2 loads, 3 reads |

Why the bounds suffice. *delivery*: a batch of two with four events has a full batch,
a second one and an event emitted during each; two tokens are an abandoned request
and its retry (older ones behave like the abandoned one); two attempts are a failure
and the last failure. *runner*: six events are a two-task session from start to
completion with an interaction or a give-up in each task; two flows are one that is
late and one that is current. *versions*: two versions are a published one and its
clone, the third (`ThirdIsQuiet`) the clone of a version that was edited, published and
written to late; two clients are a publish and whatever it overtakes, two tasks one the
gate saw and one inserted late. *rules*: the older targets are with or without stated
capabilities and start node. *reports*: two targets are one read before and one after a
change. *projection*: a start, a terminal view, a raw
end and an event after it, split over two transactions. *results*: the scenarios are
what the algorithms tell apart - a decided task visited on, two interleaved
participants, a page boundary inside an insertion, a clock set back, the walk through
the funnel and back, bursts of clicks; properties of the tables alone are evaluated
before the page is opened, as the reader writes nothing. *bridges*: two tasks mount a
second bridge, three waiting operations are one under way, one behind it and one to
reorder. *guards*: a third request passes or not after two parallel ones; a third worker
claims after an expiry. *entry*: the second load replaces the cookie of the first.
Bounds are named `Max...`, and checked in the guards of the actions that count.

Deadlock is checked in the delivery runs only. Elsewhere the system really stops:
the page ends on "complete", "technical" or "invalid" or once its flows failed, a
published task has no more to decide, a purged session nothing more to purge.

A property stated under a condition names the rest of its story in its comment:
`EndIsClean` is of one load of the page, `OneOutcome` of one open tab, `BridgeInStep` of
storage that takes what the page emits, `CloneStaysPublishable` of a source whose tasks
the gate saw, `PreviewTellsPublishability` in one direction of imported targets,
`ReportsAnswered` (a mismatch) of versions published when asked for, `ViewsAgree` (where
times enter it) of clocks that go forward, `NothingMissed` of a table nothing is purged from. Without the
condition each is refuted, see below.

The type invariants of the modules hold in these instances too; of them only that of
EvidenceDelivery is part of a run.

**Assumptions about the deployment.** *versions* sets `RuleFunctionsGranted`, *reports*
sets `ContextTakesIds` and `RetestsHaveUpdatedAt`, *entry* sets `InsertNamesTest`: with
the migrations as shipped each is false and the operation behind it always fails
(Known divergences 9-12). The runs ask what holds once it works.

## Fairness

*delivery_live*: server functions end and browser requests are answered or fail; a
request that is sent again and again is at some time admitted and its current event
persisted while its reply is awaited; `Retry` is the online handler or the
participant pressing "try again" (the code has no retry timer). Loss, reload and
failures stay unfair. Without strong fairness of admission and persistence a network
that always fails would refute arrival, which no code can prevent. *projection*: weak
fairness of each tab's next statement - a backend does not stop in a transaction - and
failures are bounded. *bridges*: weak fairness of handling the head of the chain and of
a storage operation ending, one way or the other. *reports*: weak fairness of the
purge, which is scheduled, and of the commit of an insert.

## Findings and known divergences

The run *delivery_tabs_loss* shows the finding: events of two tabs with equal identity
are lost. `docs/qa/evidence-concurrency-20260926.md` names the missing cross-tab lock
as a limit.

The following expectations of documentation or tests were refuted in the same way;
their definitions are kept in the modules, and each can be seen again by listing it in
the .cfg of its module with the change named here.

| # | Property | Change | What the code does |
|---|---|---|---|
| 1 | `EvidenceDelivery!RecoveryEnds` | delivery_live | after completion no token is minted, `deliver()` comes before reading the state: a lost last reply leaves the recovery card for ever |
| 2 | `EvidenceDelivery!CompletionEmittedOnce` | delivery | a reload with a pending completion completes again |
| 3 | `ParticipantRunner!RunnerHasStarted` | runner | a reload while the deciding event is pending shows the next task unstarted |
| 4 | `ParticipantRunner!FeedbackFollowsOutcome` | runner | a reload while task_started is pending: giving up emits nothing, feedback is refused |
| 5 | `ParticipantRunner!NoTaskSkipped` | NumTasks = 3, 4 events | a late state reply skips a task |
| 6 | `RuleAuthoring!FigmaScreenRuleFires` | rules (its lists hold a "screen" rule in the hyphen form) | the editor keeps 12-3, the adapter reports 12:3 |
| 7 | `VersionEditing!PublishedTasksFrozen`, `CloneIsComplete` | versions | a request that passed the trigger commits after the publish: a text changes, or a task without rules appears in a published version (`PublishedIsDecidable` speaks of the tasks the gate saw), and its clone cannot be published (`CloneIsComplete`) |
| 8 | `VersionEditing!DraftsAreNewest`, `CloneKeepsFunnel`, `LabelTellsRules`, `ReorderTakesEffect` | versions (`DraftsAreNewest`: `MaxEdits = 0`, without the constraint) | two clients insert drafts; the clone forgets the funnel; every publish is labelled v2; the reorder names a constraint without its schema under an empty search_path and always fails |
| 9 | `VersionEditing!CompleteDraftIsPublished` (an invariant) | `RuleFunctionsGranted = FALSE` | the callers of publish may not execute private.task_rule_* |
| 10 | `Reports!NothingRefused` | `ContextTakesIds = FALSE` | the pattern of the finding context accepts no id |
| 11 | `Reports!ReportsAnswered` | `RetestsHaveUpdatedAt = FALSE`, or a `Legacy` finding | the store selects a column the table lacks; one finding without a snapshot fails the report |
| 12 | `PublicSession!EntriesTaken` | `InsertNamesTest = FALSE` | the entry does not fill sessions.test_id |
| 13 | `TaskProjection!EventuallyStored` | `Skews = {-2}` | a participant's clock behind the server's breaks completed_at >= started_at at each attempt |
| 14 | `TaskProjection!DecidedOnce`, `RowTellsReport` without `Alone` | projection | two tabs derive two terminal events; row and report then name different ones |
| 15 | `ProviderBridges!NoneRefused`, `PreviousTold` without `TakesAll` or with dialogs, `StartedFirst`; `NumbersGapless` with a setting that is slow and ends tasks, `NoneRefused` with a slow first-party one | bridges | the first-party bridge counts an event that was not stored, and everything after it is refused until the next mount; a new bridge starts from the first screen; a task whose start was refused goes on; over storage that really waits a timeout and a message take one number, and of two first-party messages the second is refused (localStorage does not wait) |
| 16 | `ResultsRead!PathHasNoRepeats`, `ReadIsConsistent`; `NothingMissed` with reading and purging | results | a row on two pages is on the path twice; a derived row is read without its source; a purge moves rows past the offset |
| 17 | `ResultsRead!BacktracksCounted`, `DetoursBeforeTerminal`, `SeqShown`, `ScreensTimed` | results | backtracks refer to one view and two are wanted; visits after the outcome are detours; answers are stored as `response` and read as `score`; a screen viewed after the outcome is left before it is entered |
| 18 | `TokenGate!LimitKept` | guards | parallel requests pass the limit together (`OverrunBounded` says how far) |
| 19 | `ExecutionLease!OneWorks` | guards | a lease expires under a worker that goes on |
| 20 | `Retention!ParticipantsPurged` | reports | participants outlive their sessions |
| 21 | `Reports!CountedUnderContext`, `ReportedEvidenceStored`, `RetestsOfReportedFindings`, `DeltaOnlyIfComparable`, `EvidenceOfItsVersion` | reports, with values and a second aggregation | both reads of the version may precede its publish and those of its first events follow it, so that a report names a draft and counts them; snapshots keep purged sources; retests are read after findings; aggregations are not compared; a link may be of another version |
| 22 | `PublicSession!AnswersOfTheirSession`, `PendingIsDelivered` (FairSpec) | two links | feedback and tokens follow the cookie, not the page |

| 23 | `RuleAuthoring!GateAsksSupport` | rules | of drafts that MT-03 backfilled: without a start node the preview has no target and refuses what the gate publishes (`publish()` ends with the preview and throws after publishing); where the mapping states no capabilities `not task_rule_publishable(...)` is NULL and the draft passes with rules the editor calls unsupported |

Also seen while modelling, without a property: a Figma import blocks publishing and no
operation lifts the block; `preflightDraft` writes over a target saved meanwhile;
a dead letter has no foreign key and outlives its session; a session that never ends
never expires.

## Proofs

All are for any values of the constants, from the assumptions named in the modules.

`EvidenceProofs` on delivery, under `OneTab` (Tabs = {FirstTab}): `TypeCorrect`,
`NothingIsLost`, `EvidenceIsAPrefix`, `NumberingIncreases` and
`DeliveryImplementsLog`. The properties are not inductive by themselves.
`DeliveryInv` adds what carries them: events are numbered by their place and the
tab's counter is at the last one (`NumberedInOrder`); a loading page, between its state
request and `configureRuntime`, knows the last number from the server or the outbox
(`LoadingKnows`); every request, live or abandoned, and every batch about to be sent
holds with an event all earlier ones that are not recorded (`RequestsInOrder`,
`BatchesInOrder`), which is why two requests side by side leave no hole; and what a
tab waits for is recorded or in the hands of its request (`AwaitedInHand`), which is
why a 202 may empty the batch. With more than one tab the first theorems are false.

`EvidenceProofs` on the results, under `ReadAssumption` (signals are of the types a bridge
tells; `None` is not a number, task or outcome; the screens of the funnel are distinct,
as `parseFunnelDefinition` demands), for any participants, tasks, events, clocks and page
size: every invariant of the run *results* is a theorem. Three invariants carry them,
each on top of the one before.

- `ReadInvariant` (`ReadInvariantHolds`, `ReadTypes`): rows have increasing ids; while pages
  are read, a row that was there when the page was opened is read or has its place
  behind the offset (`NothingSkipped`), because insertions only move rows back. This
  gives `NothingIsMissed`; a purge moves rows forward and is excluded.
- `EvidenceInv` (`EvidenceHolds`): every derived row has its raw row (`Evidenced`); raw rows of
  a session are numbered in the order of insertion (`InSequence`); the row of
  task_sessions tells of its attempt what the events tell - when it started, and the
  outcome and time of the one event all others of its kind come after (`AttemptsTold`);
  a participant is in a task that was started, never in one to come (`InOrder`). This
  gives `ResultsAreComputed`: the database check on ended_at is what keeps a clock set
  back from taking the results down.
- `StoryInv` (`StoryHolds`): with clocks that go forward, later rows of a session have later
  times (`Forward`); a misclick is of a pointer event, each of its own (`Misclicks`); an
  ended session has one event that ended it, and its status says which (`Endings`).

`ViewsAgreeHolds` has four parts. Outcomes: each program looks for a first row by its
own key, and all keys put the same row first, the one `AttemptsTold` names. Counts: the
instances counted by task are as many as counted by session, because they are the parts
of one set twice (`CountParts`), and the percentiles of one list grow (`PercentilesGrow`).
Pointers: misclicks map one to one into pointers, and a point falls under one outcome or
none. Timeline: the sort puts each row in a place of its own (`PlacedInOrder`), and with
`Forward` an earlier time is no later anchor. `NumbersTracedHolds` compares the instances of
all rows with those of the rows a metric refers to: started and terminal event are found
again (`FoundAmong`), so the instances match one to one (`Matches`) and counts and ordered
times, which depend on no more, are the same. `FunnelIsRight`: the greedy search is never
behind any visit of the screens (`SearchVisits`), hence optimal. `RepeatsAreNotCounted`:
metrics and funnel are functions of the set of rows read (`ReorderedAnalytics`,
`SameFunnel`), whatever their order and repetitions.

`ParticipantRunnerProofs`: `RunnerTypes`, `EvidenceFollowsStart`, `OutcomesAreReproducible`,
`ThanksAreHonest` and `SessionEndsClean`, for any number of tasks, flows, events and
reloads. `RunnerInv` adds what a late flow may rely on: a state reply tells of starts
that were emitted and of outcomes and an end that are final (`ViewsArePast`); a flow
waits only where its kind does, and a completion being delivered is in the log
(`FlowsOrderly`); the active task was started, and on a page that shows the runner
without one the task shown was (`ActiveHasStarted`); the event recorded last is the one
that ended the session (`EndIsRecorded`); and, in the first load, a started task is
either the open one or has its terminal evidence in the log (`FirstLoad`). The proof
takes log and lifecycle as values and shows that each thing the page does is a move from
one sound pair to another (`Leads`), so that an action of several effects is several
moves.

`TaskProjectionProofs`: `ProjectionTypes`, `OutcomesHaveEvidence` and `OutcomesAreFinal`, for
any number of tabs. `ProjectionInv` adds that a transaction which changed the task row
holds its lock, that no outcome is committed on it, and that the evidence of what it
wrote is among the rows it stores (`TxInv`): READ COMMITTED and the row lock are what
carries it. `OneOutcomeForOneTab` is under one open tab: `SoloInv` follows a transaction
through its statements - ids and sequence numbers grow along the rows (`Ordered`), the
row has the outcome of the first terminal and only raw ones follow it
(`DecidedByFirst`).

`PublicSessionProofs`: `PublicTypes`, `RepliesCovered`, `OwnSession` and `FeedbackIsSettled`, for
any tabs, sessions and tasks. `PublicSessionInv` adds that whoever names a session names
one there is (`SessionsKnown`), that each part of a reply read so far is covered by the
number that will be read after it (`NumbersCovered`: this is where the order of the five
requests matters), and that feedback which was in before a reply began is marked in it
(`FeedbackMarked`).

`BuilderProofs` on VersionEditing: `EditingTypes`, `PublishedDecidable`, `PublishedFrozen` and
`ClonesStayPublishable`, for any number of clients, versions and tasks. `VersionsInv` adds
that an operation under way goes on with a version there is (`ClientsKnow`) and that the
tasks the gate saw stay in front; a late write then changes a text or adds a task, and
neither touches what decides. The clone keeps what the gate asks for because its columns
are among those the procedure lists (`CopyKeeps`), and because the published source,
through all writes that came late, still passes the gate where it saw all tasks.

`BuilderProofs` on RuleAuthoring, for any screens, values, forms of writing and lengths of
the lists typed: `AuthoringTypeCorrect`, `OneVerdictHolds`, `PreviewIsRight` and
`WebRuleFiresHolds`. `AuthoringInvariant` says what a stored rule can be: none, what the
editor builds of values that were typed, distinct and normalized, or what the mapping
made of it (`StoredRules`); and that a published task passed the gate. `NoEventDecidesTwice`
goes beyond the run: no raw event at all is both success and failure of a published
task, for rules without a conflict have no value in common. What the preview shows
passes the gate because a stored rule is read back as it was stored (`SettledRuleParsed`),
because support in TypeScript implies that SQL does not return FALSE (`SupportPasses`), and
because the target the preview falls back on states no more than the snapshot MT-03 made,
or states screens where the snapshot leaves SQL with NULL (`PreviewTargets`); the converse
is of imported targets, which state every capability (`ImportedTargets`). A web
rule fires because what the page reports for a typed value is its normal form
(`ReportedIsNormalized`).

`ReportsProofs`: `TypeCorrect` and `NoEvidenceOutlives` for Retention (evidence of a finding
resolves in every state, for any sessions, researchers and batch size), where
`RetentionInv` adds that an insert under way refers to rows no purge deletes, and that no
row a purge leaves is of a session it deletes. `ReportsKeepRetention` shows that Reports
implements Retention - every step is one of Retention's or leaves its state - so that
these hold of Reports too. `ReportTypes`, and `ReportsAreAnswered` under two assumptions the
shipped migrations do not meet, `Legacy = {}` and `RetestsHaveUpdatedAt` (divergence 11).
Its invariant `Safe` has two parts beside the property: no finding or retest there is
fails the list it will be in (`Normalized`, whatever is created, replaced and linked), and
while a published version is read, what was read of its row is what is there (`Steady`),
since no draft's publish or change of target reaches it; so the two reads agree. For a
draft neither is promised: its report may end in a mismatch.

`GuardsProofs`: `BridgeInvariant`, `NumberingIsGapless` (stored events have the numbers 1, 2,
3, ... and are in the order of arrival) and `BridgeStaysInStep`, for any settings, tasks,
messages and failures, under `OnlyMessagesOverlap`: an enqueue that waits for its storage is not overtaken by the
end of the task, which localStorage grants and without which it is false (divergence 15).
`BridgeInv` adds that one enqueue is under way at a time, carrying the number after the
last one stored (`UnderWay`); that the lifecycle has counted what is stored, and a Figma
bridge no more than that (`Counted`); and that what waits in the chain came after what is
stored, unless the bridge has fallen behind, and then the lifecycle refuses it
(`Younger`). `StepInv`, on top of it and for storage that takes what the page emits, follows
the task: the page shows the one the lifecycle has open or has ended (`PageFollows`), tasks
have their start and their terminal event on record in order, which is what recovery finds
its way by (`EvidenceFollows`), what is under way is of that task (`EnqueuedFollows`), the
bridge counts with the lifecycle (`BridgeFollows`) and remembers the last stored view
(`ScreenFollows`). `BridgeStaysInStep` also takes `OnlyChainsOverlap`: the first-party bridge
has no chain, and over storage that waits it would number two messages and have the second
refused (divergence 15). Then `GateTypes`, and `GateServesOnce` for any number of parallel requests.
`GateInv` adds that the token of an accepted request has served nobody yet, is held by no
other accepted request, and that its use is on record while the session lives; the
unique key carries it, whatever the lookups before saw. `OverrunIsBounded`: in `WindowInv`
the requests that have counted and may still insert are counted with the uses, since
whoever counts sees the whole window. `LeaseTypes`, `LeasesExclude` (at most one worker
knows of a lease that is not over, for any number of workers and any delay of calls and
replies) and `LeasesAreKept` (no step but the holder's takes a live lease). `LeaseInv` adds
that what a worker was told never reaches beyond the row, that a worker has one call
under way, and that one who released knows of nothing.

Each invariant was checked with TLC first. Twice that changed what is claimed:
`PublishedIsDecidable` is not true of a task inserted late, which one task could not show,
and the log of the runner is not bounded by `MaxEvents` with three tasks, since a block
ends a task and the session.

Only model-checked:

- liveness: `EventuallyRecorded`, `RecoveryEndsWhileActive`, `EventuallyStored`,
  `EveryMessageHandled` and `ExpiredArePurged`; and `CompleteDraftIsPublished`, which uses
  ENABLED: beyond the prover. Every other property of the passing runs is a theorem;
- what `SortSeq` and `SelectSeq` compute for every input, an induction over data: the
  order of `ScreenPath` and of the screens in `TimeMetrics`. The theorems need of the
  triggers only that a derived row refers to the row it is stored with, and nothing of
  these two; some refuted expectations of the table above are about them.

## What is not modelled

- Parts with status not_modelled: authentication, workspaces and row level security
  (one row per call), Figma access and OAuth (an external service), observability,
  the researcher UI and the demo.
- In the browser: two tabs interleaving within one localStorage read-modify-write;
  rendering and focus; `abandonTask`/`abandonSession` (no caller). The floating point
  transform of pointer positions; that it may fail is in EvidenceDelivery.
- At the API: validation of fields that accepts what the page sends; signatures and
  encodings of tokens and proofs; the SEQ range and disabled questions, which the page
  does not offer.
- In the database: deadlocks of partly locked batches; the tests and projects rows.
- In the results: labels, definitions, device classes, parsing of the study context;
  derived rows are ordered after their raw one, where the code ties by a random uuid;
  `deriveTaskTimeMetrics` has no caller but tests and is modelled all the same.
- In reports: free texts, severities and the counts of the summary; the pages of a table
  (ResultsRead has them) and the texts of its tasks.

## Plan

Every invariant and action property of the passing runs is a theorem. Left are:

1. **Refinement** - the sequential triggers of ParticipantRunner from TaskProjection
   with one tab; the delivery of ParticipantRunner from EvidenceLog.
2. **Auth and workspaces** - ownership of created workspaces and the editor role, if
   access control comes into scope.
