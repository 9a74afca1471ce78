--------------------------- MODULE VersionEditing ---------------------------
(***************************************************************************)
(* The versions of one test and the researchers who edit them.  A client   *)
(* of the builder is a sequence of requests: it looks up the draft, reads  *)
(* what it needs, and writes.  Each request is a transaction of its own;   *)
(* the stored procedures (publish, clone, rules, mapping, funnel) lock the *)
(* rows they work on and are one step.  A write to tasks is two: the       *)
(* trigger reads the status of the version without locking it, and the     *)
(* statement commits later.  Any request may fail and end the operation.   *)
(***************************************************************************)
EXTENDS Naturals, Sequences, FiniteSets, FiniteSetsExt

CONSTANTS
  Clients,      \* browser tabs of researchers
  Operations,   \* the operations of several requests they may start
  MaxVersions,  \* bound on the versions of the test
  MaxTasks,     \* bound on the tasks of a version
  MaxEdits,     \* bound on the task edits
  RuleFunctionsGranted  \* may the caller execute private.task_rule_*?

ASSUME EditingAssumption ==
  /\ Operations \subseteq {"create", "edit", "reorder", "rules", "mapping", "target", "preflight"}
  /\ MaxVersions \in Nat \ {0} /\ MaxTasks \in Nat \ {0} /\ MaxEdits \in Nat
  /\ RuleFunctionsGranted \in BOOLEAN

VARIABLES
  versions,  \* test_versions by version_no, each with its tasks in order
  client,    \* what each client is doing and has read
  edits      \* task texts written so far

vars == <<versions, client, edits>>

Numbers == 1..MaxVersions

\* A legacy Figma snapshot (of before the preflight, and its mapping stated its
\* capabilities), a Figma import, an owned site before and after its live
\* preflight, a site of others.
Targets == {"legacy", "figma", "site", "approved", "external"}
Blocked(target) == target \in {"figma", "site"}

\* The rules of a task: none, presented_node (V1), screen or signal (V2).
Rules == {"none", "node", "screen", "signal"}
Fits(rules, target) ==
  \/ rules = "node" /\ target \in {"legacy", "figma"}
  \/ rules = "screen" /\ target \in {"legacy", "figma", "approved"}
  \/ rules = "signal" /\ target = "approved"

Task == [text : 0..MaxEdits, rules : Rules]
Lists == {list \in Seq(Task) : Len(list) <= MaxTasks}

\* gated is history: how many tasks the publish gate saw.
Version == [status : {"none", "draft", "published"}, target : Targets, funnel : BOOLEAN,
            label : {"none", "v1", "v2"}, tasks : Lists, gated : 0..MaxTasks]
Unused == [status |-> "none", target |-> "site", funnel |-> FALSE, label |-> "none",
           tasks |-> <<>>, gated |-> 0]

Drafts == {v \in Numbers : versions[v].status = "draft"}
Published == {v \in Numbers : versions[v].status = "published"}
Used == Drafts \cup Published
Newest(S) == IF S = {} THEN 0 ELSE Max(S)

Idle == [op |-> "idle", step |-> "idle", draft |-> 0, seen |-> 0, target |-> "site"]

\* The first version passed the gate of MT-08; its funnel may have been set.
Init ==
  /\ \E target \in {"legacy", "approved"}, rules \in {"node", "screen"}, funnel \in BOOLEAN :
       /\ Fits(rules, target)
       /\ versions = [v \in Numbers |->
            IF v = 1 THEN [status |-> "published", target |-> target, funnel |-> funnel,
                           label |-> IF rules = "node" THEN "v1" ELSE "v2",
                           tasks |-> <<[text |-> 0, rules |-> rules]>>, gated |-> 1]
            ELSE Unused]
  /\ client = [c \in Clients |-> Idle]
  /\ edits = 0

-----------------------------------------------------------------------------
\* The client stops at an error or at the end of its operation.
Answer(c) == client' = [client EXCEPT ![c] = Idle]

At(c, op, step) == client[c].op = op /\ client[c].step = step

\* The network or the API fails a request: it throws, nothing is written.
RequestFails(c) ==
  /\ client[c].op # "idle"
  /\ Answer(c)
  /\ UNCHANGED <<versions, edits>>

\* draftVersion and findDraft: the newest draft, and its snapshot where the
\* operation needs it.  Only saveDraft goes on without one.
FindDraft(c, op) ==
  LET v == Newest(Drafts)
  IN  /\ client[c] = Idle
      /\ v # 0 \/ op = "target"
      /\ client' = [client EXCEPT ![c] =
            [op |-> op, step |-> "found", draft |-> v, seen |-> 0,
             target |-> IF op \in {"rules", "preflight"} THEN versions[v].target ELSE "site"]]
      /\ UNCHANGED <<versions, edits>>

\* createTask: rowsForVersion, whose length gives the ordinal.
CountTasks(c) ==
  /\ At(c, "create", "found")
  /\ client' = [client EXCEPT ![c].step = "counted",
                              ![c].seen = Len(versions[client[c].draft].tasks)]
  /\ UNCHANGED <<versions, edits>>

\* guard_task_version_immutable, before the row is written: it looks at the
\* status the last committed transaction left, without a lock.
GuardTask(c) ==
  /\ At(c, "create", "counted") \/ At(c, "edit", "found")
  /\ UNCHANGED <<versions, edits>>
  /\ IF versions[client[c].draft].status = "published"
     THEN Answer(c)
     ELSE client' = [client EXCEPT ![c].step = "guarded"]

\* The POST of createTask commits, unless its ordinal is taken.
InsertTask(c) ==
  LET v == client[c].draft
  IN  /\ At(c, "create", "guarded")
      /\ client[c].seen < MaxTasks
      /\ Answer(c) /\ UNCHANGED edits
      /\ IF client[c].seen = Len(versions[v].tasks)
         THEN versions' = [versions EXCEPT ![v].tasks = Append(@, [text |-> 0, rules |-> "none"])]
         ELSE UNCHANGED versions

\* The PATCH of updateTask, or of the post-task questions, commits.
UpdateTask(c) ==
  /\ At(c, "edit", "guarded")
  /\ edits < MaxEdits
  /\ edits' = edits + 1
  /\ \E i \in DOMAIN versions[client[c].draft].tasks :
       versions' = [versions EXCEPT ![client[c].draft].tasks[i].text = edits + 1]
  /\ Answer(c)

\* reorder_draft_tasks names the constraint it defers without its schema, and
\* its search_path is empty: the statement raises, and nothing is written.
ReorderTasks(c) ==
  /\ At(c, "reorder", "found")
  /\ UNCHANGED <<versions, edits>>
  /\ Answer(c)

-----------------------------------------------------------------------------
\* (faulty variant) the status read with the draft is trusted.
StaleEditable(v) == v # 0 /\ versions[v].status # "none"

\* A filter lifecycle_status = draft in the statement, and the immutability
\* trigger of test_versions behind it.
Editable(v) == v # 0 /\ versions[v].status = "draft"

\* save_task_outcome_rules, after the editor compared the rules with the
\* snapshot it had read.
SaveRules(c) ==
  LET v == client[c].draft
  IN  /\ At(c, "rules", "found")
      /\ Answer(c) /\ UNCHANGED edits
      /\ \E rules \in {"screen", "signal"}, i \in 1..MaxTasks :
           IF /\ RuleFunctionsGranted
              /\ Fits(rules, client[c].target)
              /\ Editable(v)
              /\ Fits(rules, versions[v].target)
              /\ i \in DOMAIN versions[v].tasks
           THEN versions' = [versions EXCEPT ![v].tasks[i].rules = rules]
           ELSE UNCHANGED versions

\* save_figma_frame_mapping writes presented_node rules whatever the snapshot.
SaveFrameMapping(c) ==
  LET v == client[c].draft
  IN  /\ At(c, "mapping", "found")
      /\ Answer(c) /\ UNCHANGED edits
      /\ \E i \in 1..MaxTasks :
           IF Editable(v) /\ i \in DOMAIN versions[v].tasks
           THEN versions' = [versions EXCEPT ![v].tasks[i].rules = "node"]
           ELSE UNCHANGED versions

\* saveDraft with a draft at hand: one PATCH of it.
PatchTarget(c) ==
  LET v == client[c].draft
  IN  /\ At(c, "target", "found") /\ v # 0
      /\ Answer(c) /\ UNCHANGED edits
      /\ \E target \in {"figma", "site", "external"} :
           IF Editable(v)
           THEN versions' = [versions EXCEPT ![v].target = target]
           ELSE UNCHANGED versions

\* saveDraft without one: the newest version_no is a request of its own.
ReadLatestNumber(c) ==
  /\ At(c, "target", "found") /\ client[c].draft = 0
  /\ client' = [client EXCEPT ![c].step = "numbered", ![c].seen = Newest(Used)]
  /\ UNCHANGED <<versions, edits>>

\* The POST of a new draft; (test_id, version_no) is unique.
InsertDraft(c) ==
  LET v == client[c].seen + 1
  IN  /\ At(c, "target", "numbered")
      /\ v \in Numbers
      /\ Answer(c) /\ UNCHANGED edits
      /\ \E target \in {"figma", "site", "external"} :
           IF v \notin Used
           THEN versions' = [versions EXCEPT ![v] = [Unused EXCEPT !.status = "draft", !.target = target]]
           ELSE UNCHANGED versions

\* preflightDraft: the live fetch of the site it read, then a PATCH with the
\* approved snapshot of that site.
PreflightDraft(c) ==
  LET v == client[c].draft
  IN  /\ At(c, "preflight", "found")
      /\ Answer(c) /\ UNCHANGED edits
      /\ IF client[c].target \in {"site", "approved"} /\ Editable(v)
         THEN versions' = [versions EXCEPT ![v].target = "approved"]
         ELSE UNCHANGED versions

-----------------------------------------------------------------------------
(* The procedures that are one request, of any client. *)

\* save_draft_funnel_config.
SaveFunnel ==
  LET v == Newest(Drafts)
  IN  /\ v # 0
      /\ versions' = [versions EXCEPT ![v].funnel = TRUE]
      /\ UNCHANGED <<client, edits>>

\* (faulty variant) the gate before MT-08: a target and a task are enough.
CompleteWithoutRules(v) ==
  /\ versions[v].tasks # <<>>
  /\ ~Blocked(versions[v].target)

\* What the publish gate asks of a draft.
Complete(v) ==
  /\ versions[v].tasks # <<>>
  /\ ~Blocked(versions[v].target)
  /\ \A i \in DOMAIN versions[v].tasks : Fits(versions[v].tasks[i].rules, versions[v].target)

\* success_rule_version: V2 where a task has such a rule, else what it was.
PublishedLabel(version) ==
  IF \E i \in DOMAIN version.tasks : version.tasks[i].rules \in {"screen", "signal"} THEN "v2"
  ELSE IF version.label = "none" THEN "v1" ELSE version.label

Publish ==
  LET v == Newest(Drafts)
  IN  /\ v # 0 /\ RuleFunctionsGranted /\ Complete(v)
      /\ versions' = [versions EXCEPT ![v].status = "published",
                                      ![v].label = PublishedLabel(versions[v]),
                                      ![v].gated = Len(versions[v].tasks)]
      /\ UNCHANGED <<client, edits>>

\* (faulty variant) the columns MT-03 adds are not in its new clone procedure.
CloneWithoutTarget ==
  LET source == versions[Newest(Published)]
  IN  /\ Drafts = {} /\ Newest(Used) < MaxVersions
      /\ versions' = [versions EXCEPT ![Newest(Used) + 1] =
                        [Unused EXCEPT !.status = "draft", !.label = source.label, !.tasks = source.tasks]]
      /\ UNCHANGED <<client, edits>>

\* create_draft_from_published: a draft there is is returned as it is, else a row
\* is inserted with the columns of the newest published version that the
\* procedure lists, and its tasks.  A column it does not list, like funnel_config,
\* has its default.
CloneDraft ==
  LET source == versions[Newest(Published)]
  IN  /\ Drafts = {} /\ Newest(Used) < MaxVersions
      /\ versions' = [versions EXCEPT ![Newest(Used) + 1] =
                        [Unused EXCEPT !.status = "draft", !.target = source.target,
                                       !.label = source.label, !.tasks = source.tasks]]
      /\ UNCHANGED <<client, edits>>

Next ==
  \/ \E c \in Clients :
       \/ \E op \in Operations : FindDraft(c, op)
       \/ RequestFails(c)
       \/ CountTasks(c) \/ GuardTask(c) \/ InsertTask(c) \/ UpdateTask(c) \/ ReorderTasks(c)
       \/ SaveRules(c) \/ SaveFrameMapping(c)
       \/ PatchTarget(c) \/ ReadLatestNumber(c) \/ InsertDraft(c) \/ PreflightDraft(c)
  \/ SaveFunnel
  \/ Publish
  \/ CloneDraft

Spec == Init /\ [][Next]_vars

-----------------------------------------------------------------------------
(* Properties *)

TypeOK ==
  /\ versions \in [Numbers -> Version]
  /\ client \in [Clients -> [op : Operations \cup {"idle"},
                             step : {"idle", "found", "counted", "guarded", "numbered"},
                             draft : {0} \cup Numbers, seen : Nat, target : Targets]]
  /\ \A v \in Published : versions[v].label # "none"
  /\ edits \in 0..MaxEdits

\* A version once published keeps its status, target, funnel and rule version,
\* and the rules its tasks are decided by, however late a request of a client
\* that found it as a draft arrives.
PublishedVersionFrozen ==
  [][\A v \in Published :
       /\ [versions'[v] EXCEPT !.tasks = <<>>] = [versions[v] EXCEPT !.tasks = <<>>]
       /\ \A i \in DOMAIN versions[v].tasks :
            versions'[v].tasks[i].rules = versions[v].tasks[i].rules]_vars

\* Every task a version was published with has rules its target can decide,
\* though target and rules are saved by different requests, in any order, and
\* whatever is written late.
PublishedIsDecidable ==
  \A v \in Published :
    /\ 0 < versions[v].gated /\ versions[v].gated <= Len(versions[v].tasks)
    /\ ~Blocked(versions[v].target)
    /\ \A i \in 1..versions[v].gated : Fits(versions[v].tasks[i].rules, versions[v].target)

\* What makes it inductive: an operation goes on with a version there is, the
\* others are empty, and the first one is published from the start.
ClientsKnow ==
  \A c \in Clients :
    /\ client[c].draft # 0 => client[c].draft \in Used
    /\ client[c].op \notin {"idle", "target"} => client[c].draft # 0

VersionsInv ==
  /\ TypeOK /\ ClientsKnow /\ PublishedIsDecidable
  /\ 1 \in Published /\ \A v \in Numbers \ Used : versions[v] = Unused

\* A draft is newer than every published version, so that editing after publish
\* leads to the next version (task32-publish-versioning.md, QA contract 4).
DraftsAreNewest == \A d \in Drafts, p \in Published : d > p

\* A draft that starts with tasks, as the clone of the newest published version
\* does, could be published at once, if the gate saw all tasks of that version:
\* nothing the gate asks for is lost between publish, what is written beside and
\* after it, and clone.
CloneStaysPublishable ==
  [][\A v \in Numbers : versions[v].status = "none" /\ versions'[v].tasks # <<>> =>
       LET source == versions[Newest(Published)]
       IN  source.gated = Len(source.tasks) => Complete(v)']_vars

\* The same without the condition: a task that slipped in beside the publish has
\* no rules, and its copy keeps the next version from being published.
CloneIsComplete ==
  [][\A v \in Numbers :
       versions[v].status = "none" /\ versions'[v].tasks # <<>> => Complete(v)']_vars

\* task48-funnel-analysis.md: "edit-after-publish clones the exact definition
\* into the new draft".
CloneKeepsFunnel ==
  [][\A v \in Numbers : versions[v].status = "none" /\ versions'[v].tasks # <<>> =>
       versions'[v].funnel = versions[Newest(Published)].funnel]_vars

\* task32-publish-versioning.md: the triggers "reject insert/update/delete of
\* tasks belonging to a published version".  A task that is inserted late has
\* no rules, and cannot get any.
PublishedTasksFrozen ==
  [][\A v \in Published : versions'[v].tasks = versions[v].tasks]_vars

\* task-outcome-rules.md: "Each published test version must bind" its success
\* and failure rule version: V2 says that a task has such rules.
LabelTellsRules ==
  \A v \in Published : versions[v].label = "v2" =>
    \E i \in DOMAIN versions[v].tasks : versions[v].tasks[i].rules \in {"screen", "signal"}

\* The test of task 29: "reorderTasks uses one atomic RPC and returns canonical
\* order".
ReorderTakesEffect == [][\A c \in Clients : ReorderTasks(c) => versions' # versions]_vars

\* task32-publish-versioning.md: the publish procedure is "allowed only to
\* authenticated and server-side service_role": for them, a complete draft is
\* published.
CompleteDraftIsPublished == Drafts # {} /\ Complete(Newest(Drafts)) => ENABLED Publish
=============================================================================
