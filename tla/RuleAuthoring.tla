---------------------------- MODULE RuleAuthoring ----------------------------
(***************************************************************************)
(* One task of a draft, from the rules a researcher types to the events    *)
(* that decide it: the outcome-rule editor and its procedure, the frame    *)
(* mapping, the target (which may change after the rules were saved), the  *)
(* preview and publish.  The typed rules are chosen once, at the start.    *)
(***************************************************************************)
EXTENDS OutcomeRules

CONSTANTS
  TypedRules,  \* the rules a researcher may type: type and values
  Snapshots,   \* the snapshots an import or a preflight may make
  Mappings     \* the capabilities in the mappings MT-03 found

\* No target, or a mapping without capabilities.
NoTarget == [provider |-> "none", screen |-> "unstated", instrumentation |-> "unstated",
             pointer |-> "unstated", publishBlocked |-> FALSE]

Unstated == [NoTarget EXCEPT !.provider = "figma_prototype"]

StatesAll(snapshot) == "unstated" \notin {snapshot.screen, snapshot.instrumentation, snapshot.pointer}

ASSUME AuthoringAssumption ==
  /\ TypedRules \subseteq [type : V2Types, values : Seq(Value)]
  /\ Snapshots \subseteq {snapshot \in Snapshot : StatesAll(snapshot)}
  /\ Mappings \subseteq {snapshot \in Snapshot :
                          StatesAll(snapshot) /\ snapshot.provider = "figma_prototype"} \cup {NoTarget}

(***************************************************************************)
(* What a version says of its target: target_snapshot and whether it has   *)
(* the key environment, the capabilities of prototype_mapping, and whether *)
(* there is a figma_start_node_id.                                         *)
(***************************************************************************)
Imported(snapshot) ==
  [snapshot |-> snapshot, environment |-> TRUE, mapping |-> snapshot, startNode |-> TRUE]

\* MT-03 made the snapshot of an older version: jsonb_strip_nulls drops its
\* environment, and capabilities the mapping does not have become {}.
Backfilled(mapping, startNode) ==
  [snapshot |-> IF mapping = NoTarget THEN Unstated ELSE mapping,
   environment |-> FALSE, mapping |-> mapping, startNode |-> startNode]

Imports == {Imported(snapshot) : snapshot \in Snapshots}
Backfills == {Backfilled(mapping, startNode) : mapping \in Mappings, startNode \in BOOLEAN}

VARIABLES
  typed,    \* what the researcher typed, success and failure
  target,   \* what the version says of its target
  stored,   \* tasks.success_rule and tasks.failure_rule
  phase,    \* lifecycle_status: "draft" or "published"
  refused   \* who refused the last save: "nobody", "editor" or "database"

authoringVars == <<typed, target, stored, phase, refused>>

AuthoringInit ==
  /\ typed \in [success : TypedRules, failure : TypedRules]
  /\ target \in Imports \cup Backfills
  /\ stored = [success |-> NoRule, failure |-> NoRule]
  /\ phase = "draft"
  /\ refused = "nobody"

-----------------------------------------------------------------------------
\* The checks of save_task_outcome_rules on the rules it is given.
DatabaseAccepts(success, failure) ==
  /\ SqlPublishable(success, target.snapshot) /\ SqlPublishable(failure, target.snapshot)
  /\ ~SqlConflict(success, failure)

\* createTaskOutcomeRuleStore.save, and the procedure it calls.
SaveTaskRules ==
  LET success == BuildRule(typed.success.type, typed.success.values)
      failure == BuildRule(typed.failure.type, typed.failure.values)
      allowed == /\ HasRule(success) /\ HasRule(failure)
                 /\ Supported(success, target.snapshot) /\ Supported(failure, target.snapshot)
                 /\ ~RulesConflict(success, failure)
  IN  /\ phase = "draft"
      /\ UNCHANGED <<typed, target, phase>>
      /\ \/ ~allowed /\ refused' = "editor" /\ UNCHANGED stored
         \/ /\ allowed /\ ~DatabaseAccepts(success, failure)
            /\ refused' = "database" /\ UNCHANGED stored
         \/ /\ allowed /\ DatabaseAccepts(success, failure)
            /\ refused' = "nobody"
            /\ stored' = [success |-> success, failure |-> failure]

\* parseFigmaNodeIdentifier, after the trim of requiredText.
CanonicalNode(v) ==
  IF v.form \in {"hyphen", "node"} THEN Written(v, "node") ELSE Rejected

\* The node ids of a mapping, <<>> where requiredNodeIds throws.
NodeIds(values) ==
  LET ids == [i \in DOMAIN values |-> CanonicalNode(values[i])]
  IN  IF Rejected \in ToSet(ids) \/ ~IsInjective(ids) THEN <<>> ELSE ids

\* createPrototypeFrameMappingPersistence.save and save_figma_frame_mapping:
\* both rules become presented_node rules, whatever the target is.
SaveTaskMapping ==
  LET success == NodeIds(typed.success.values)
      failure == NodeIds(typed.failure.values)
  IN  /\ phase = "draft"
      /\ success # <<>> /\ failure # <<>>
      /\ ToSet(success) \cap ToSet(failure) = {}
      /\ stored' = [success |-> [version |-> 1, type |-> V1Type, values |-> success],
                    failure |-> [version |-> 1, type |-> V1Type, values |-> failure]]
      /\ UNCHANGED <<typed, target, phase, refused>>

\* saveDraft and preflightDraft replace snapshot and mapping and leave the rules.
ChangeTarget(snapshot) ==
  /\ phase = "draft"
  /\ target' = Imported(snapshot)
  /\ UNCHANGED <<typed, stored, phase, refused>>

\* What publish_draft_test_version asks of the target and of each task.
PublishGate ==
  /\ ~target.snapshot.publishBlocked
  /\ SqlPublishable(stored.success, target.snapshot) /\ SqlPublishable(stored.failure, target.snapshot)
  /\ ~SqlConflict(stored.success, stored.failure)

\* legacyFigmaTarget: it needs a start node, and takes a mapping that states
\* nothing for one with screens.
LegacyFigmaTarget ==
  IF ~target.startNode THEN NoTarget
  ELSE IF target.mapping = NoTarget THEN [Unstated EXCEPT !.screen = "Available"]
  ELSE target.mapping

\* parseTargetSnapshot(...) ?? legacyFigmaTarget(...): a snapshot without the key
\* environment does not parse.
PreviewTarget == IF target.environment THEN target.snapshot ELSE LegacyFigmaTarget

\* The preview shows a draft with a target that is not blocked and rules that
\* validateStoredTaskOutcomeRules accepts.
Previewable ==
  /\ PreviewTarget # NoTarget
  /\ ~PreviewTarget.publishBlocked
  /\ ValidStored(PreviewTarget, stored.success, stored.failure)

PublishTask ==
  /\ phase = "draft"
  /\ PublishGate
  /\ phase' = "published"
  /\ UNCHANGED <<typed, target, stored, refused>>

AuthoringNext ==
  \/ SaveTaskRules
  \/ SaveTaskMapping
  \/ \E snapshot \in Snapshots : ChangeTarget(snapshot)
  \/ PublishTask

AuthoringSpec == AuthoringInit /\ [][AuthoringNext]_authoringVars

-----------------------------------------------------------------------------
(* Evidence of the published task. *)

\* What the adapters send for something called v: the Figma bridge the node
\* with a colon, the web instrumentation the trimmed name, the URL without its
\* hash, the element id as it is.
Reported(type, v) ==
  CASE type \in {"screen", V1Type} /\ target.snapshot.provider = "figma_prototype" ->
         IF v.form = "hyphen" THEN Written(v, "node") ELSE v
    [] type = "url" -> IF v.form = "fragment" THEN Written(v, "url") ELSE v
    [] type = "element" -> v
    [] OTHER -> IF v.form = "padded" THEN Written(v, "word") ELSE v

NoEvidence == [name |-> "screen_view", screen |-> Absent, url |-> Absent,
               route |-> Absent, element |-> Absent, signal |-> Absent]

EvidenceOf(type, v) ==
  LET seen == [NoEvidence EXCEPT !.name = EventChannel(type)]
  IN  CASE type \in {"screen", V1Type} -> [seen EXCEPT !.screen = Reported(type, v)]
        [] type = "url" -> [seen EXCEPT !.url = Reported(type, v)]
        [] type = "route" -> [seen EXCEPT !.route = Reported(type, v)]
        [] type = "element" -> [seen EXCEPT !.element = Reported(type, v)]
        [] type = "completion_signal" -> [seen EXCEPT !.signal = Reported(type, v)]

\* One event of the first's kind that shows what both name: a screen_view may
\* carry a URL and a route, a pointer interaction carries its screen too.
JointEvidence(s, f) ==
  [field \in DOMAIN NoEvidence |->
     IF field = "name" THEN s.name
     ELSE IF s[field] # Absent THEN s[field] ELSE f[field]]

-----------------------------------------------------------------------------
(* Properties *)

AuthoringTypeOK ==
  /\ typed \in [success : TypedRules, failure : TypedRules]
  /\ target \in Imports \cup Backfills
  /\ stored.success.values \in Seq(Value) /\ stored.failure.values \in Seq(Value)
  /\ phase \in {"draft", "published"}
  /\ refused \in {"nobody", "editor", "database"}

\* No event of a published task satisfies its success and its failure rule,
\* even one that names a screen, a URL, a route and an element at once: the
\* trigger never needs its "failure wins".
OneVerdict ==
  phase = "published" =>
    \A s \in ToSet(stored.success.values), f \in ToSet(stored.failure.values) :
      LET success == EvidenceOf(stored.success.type, s)
          failure == EvidenceOf(stored.failure.type, f)
      IN  \A event \in {JointEvidence(success, failure), JointEvidence(failure, success)} :
            ~(SqlMatches(stored.success, event) /\ SqlMatches(stored.failure, event))

\* A draft the preview shows can be published, also one whose target changed
\* under its rules and one of before MT-03, of which preview and gate read
\* different columns; a draft with an imported target that can be published is shown.
PreviewTellsPublishability ==
  phase = "draft" =>
    /\ Previewable => PublishGate
    /\ target.environment => (PublishGate => Previewable)

\* The comment of MT-08 on publish_draft_test_version: a publish gate of
\* "deterministic capability-supported terminal rules".  A draft of before MT-03
\* without a start node is published, though the preview (which publish() itself
\* ends with) refuses it; and where its mapping states no capabilities, the gate
\* lets rules pass that the editor calls unsupported.
GateAsksSupport ==
  phase = "draft" /\ PublishGate =>
    /\ Previewable
    /\ Supported(stored.success, target.snapshot) /\ Supported(stored.failure, target.snapshot)

\* What a researcher typed for a web target decides the task when the page
\* shows just that; an element id is the exception, it is trimmed on one side.
WebRuleFires ==
  phase = "published" /\ target.snapshot.provider # "figma_prototype" /\ typed.success.type # "element" =>
    \A v \in ToSet(typed.success.values) : SqlMatches(stored.success, EvidenceOf(stored.success.type, v))

\* public-embed.ts: "Figma URLs represent ordinary node ids with a hyphen ...
\* Accept either documented representation and return one canonical internal
\* id": a screen typed as 5-3 should decide the task when 5:3 is presented.
FigmaScreenRuleFires ==
  phase = "published" /\ target.snapshot.provider = "figma_prototype" =>
    \A v \in ToSet(typed.success.values) : SqlMatches(stored.success, EvidenceOf(stored.success.type, v))
=============================================================================
