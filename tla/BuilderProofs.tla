--------------------------- MODULE BuilderProofs ---------------------------
(***************************************************************************)
(* Proofs about the builder.  VersionEditing, for any number of            *)
(* researchers, versions, tasks and edits: what a version is published     *)
(* with can be decided, stays as it is, and makes a next draft that can be *)
(* published.  RuleAuthoring, for any screens, values and lengths of the   *)
(* rules typed in: the rules of a published task decide no event twice,    *)
(* publishing accepts what the preview shows, and on a web target a rule   *)
(* fires on the evidence of each of its values.                            *)
(***************************************************************************)
EXTENDS VersionEditing, RuleAuthoring, NaturalSets

\* The newest of some versions is one of them.
LEMMA NewestIsOne ==
  ASSUME NEW S \in SUBSET Numbers
  PROVE  /\ S # {} => Newest(S) \in S
         /\ Newest(S) # 0 <=> S # {}
         /\ Newest(S) \in 0..MaxVersions
<1> USE EditingAssumption
<1>1. CASE S = {}
  BY <1>1 DEF Newest
<1>2. CASE S # {}
  <2>1. S \in SUBSET (0..MaxVersions) /\ MaxVersions \in Nat
    BY DEF Numbers
  <2>2. Max(S) \in S
    BY <1>2, <2>1, GreatestElement
  <2>3. Newest(S) = Max(S)
    BY <1>2 DEF Newest
  <2>4. Max(S) \in 1..MaxVersions
    BY <2>2 DEF Numbers
  <2>5. QED
    BY <1>2, <2>1, <2>2, <2>3, <2>4
<1>3. QED
  BY <1>1, <1>2

(***************************************************************************)
(* What a request may write to a version x: a draft is edited; tasks of a  *)
(* draft, or of a version published since, are added or reworded; a new    *)
(* draft is created, empty or as a copy; a complete draft is published.    *)
(***************************************************************************)
Edited(x, y) == x.status = "draft" /\ y.status = "draft"

Reworded(x, y) ==
  /\ x.status # "none"
  /\ y.status = x.status /\ y.target = x.target /\ y.funnel = x.funnel
  /\ y.label = x.label /\ y.gated = x.gated
  /\ Len(x.tasks) <= Len(y.tasks)
  /\ \A i \in DOMAIN x.tasks : y.tasks[i].rules = x.tasks[i].rules

Decided(y) ==
  /\ 0 < y.gated /\ y.gated <= Len(y.tasks)
  /\ ~Blocked(y.target)
  /\ \A i \in 1..y.gated : Fits(y.tasks[i].rules, y.target)

Released(x, y) ==
  /\ x.status = "draft" /\ y.status = "published" /\ y.label # "none"
  /\ Decided(y)

CopyOf(source) ==
  [Unused EXCEPT !.status = "draft", !.target = source.target,
                 !.label = source.label, !.tasks = source.tasks]

Created(x, y) ==
  /\ x.status = "none" /\ y.status = "draft"
  /\ y.tasks = <<>> \/ y = CopyOf(versions[Newest(Published)])

MayWrite(x, y) == Edited(x, y) \/ Reworded(x, y) \/ Released(x, y) \/ Created(x, y)

WritesOne ==
  \E v \in Numbers, y \in Version :
    versions' = [versions EXCEPT ![v] = y] /\ MayWrite(versions[v], y)

ClientType == [op : Operations \cup {"idle"},
               step : {"idle", "found", "counted", "guarded", "numbered"},
               draft : {0} \cup Numbers, seen : Nat, target : Targets]

-----------------------------------------------------------------------------
(* What the writes come to *)

\* No write takes a version away, and what is published stays published.
LEMMA WriteKeepsStatus ==
  ASSUME VersionsInv, WritesOne
  PROVE  /\ versions' \in [Numbers -> Version]
         /\ Used \subseteq Used' /\ Published \subseteq Published'
         /\ \A u \in Numbers \ Used' : versions'[u] = Unused
<1>1. PICK v \in Numbers, y \in Version :
        versions' = [versions EXCEPT ![v] = y] /\ MayWrite(versions[v], y)
  BY DEF WritesOne
<1>2. versions \in [Numbers -> Version]
  BY DEF VersionsInv, TypeOK
<1>3. \A u \in Numbers : versions'[u] = IF u = v THEN y ELSE versions[u]
  BY <1>1, <1>2
<1>4. /\ y.status \in {"draft", "published"}
      /\ versions[v].status = "published" => y.status = "published"
  <2>1. versions[v].status \in {"none", "draft", "published"}
    BY <1>2 DEF Version
  <2>2. QED
    BY <1>1, <2>1 DEF MayWrite, Edited, Reworded, Released, Created
<1>5. versions' \in [Numbers -> Version]
  BY <1>1, <1>2
<1>6. Used \subseteq Used' /\ Published \subseteq Published'
  BY <1>3, <1>4 DEF Used, Drafts, Published
<1>7. ASSUME NEW u \in Numbers \ Used' PROVE versions'[u] = Unused
  <2>1. u # v
    BY <1>3, <1>4 DEF Used, Drafts, Published
  <2>2. u \in Numbers \ Used
    BY <1>6
  <2>3. QED
    BY <1>3, <2>1, <2>2 DEF VersionsInv
<1>8. QED
  BY <1>5, <1>6, <1>7

\* Whatever is written, what was published can be decided.
LEMMA WriteKeepsDecidable ==
  ASSUME VersionsInv, WritesOne
  PROVE  PublishedIsDecidable' /\ \A v \in Published' : versions'[v].label # "none"
<1>1. PICK v \in Numbers, y \in Version :
        versions' = [versions EXCEPT ![v] = y] /\ MayWrite(versions[v], y)
  BY DEF WritesOne
<1>2. versions \in [Numbers -> Version]
  BY DEF VersionsInv, TypeOK
<1>3. \A u \in Numbers : versions'[u] = IF u = v THEN y ELSE versions[u]
  BY <1>1, <1>2
<1>4. \A u \in Numbers : versions[u].status = "published" =>
        Decided(versions[u]) /\ versions[u].label # "none"
  BY DEF VersionsInv, TypeOK, PublishedIsDecidable, Published, Decided
<1>5. y.status = "published" => Decided(y) /\ y.label # "none"
  <2>1. CASE Reworded(versions[v], y)
    <3>1. ASSUME versions[v].status = "published" PROVE Decided(y) /\ y.label # "none"
      <4>1. /\ Decided(versions[v]) /\ y.label = versions[v].label /\ versions[v].label # "none"
            /\ y.target = versions[v].target /\ y.gated = versions[v].gated
        BY <1>4, <2>1, <3>1 DEF Reworded
      <4>2. /\ versions[v].tasks \in Seq(Task) /\ y.tasks \in Seq(Task)
            /\ versions[v].gated \in Nat
        BY <1>2, EditingAssumption DEF Version, Lists
      <4>3. versions[v].gated <= Len(y.tasks)
        BY <2>1, <4>1, <4>2 DEF Reworded, Decided
      <4>4. \A i \in 1..versions[v].gated : y.tasks[i].rules = versions[v].tasks[i].rules
        BY <2>1, <4>1, <4>2 DEF Reworded, Decided
      <4>5. QED
        BY <4>1, <4>3, <4>4 DEF Decided
    <3>2. QED
      BY <2>1, <3>1 DEF Reworded
  <2>2. CASE Released(versions[v], y)
    BY <2>2 DEF Released
  <2>3. QED
    BY <1>1, <2>1, <2>2 DEF MayWrite, Edited, Created
<1>6. \A u \in Numbers : versions'[u].status = "published" =>
        Decided(versions'[u]) /\ versions'[u].label # "none"
  BY <1>3, <1>4, <1>5
<1>7. QED
  BY <1>6 DEF PublishedIsDecidable, Published, Decided

\* What is published stays, but for tasks that are reworded or added late.
LEMMA WriteKeepsPublished ==
  ASSUME VersionsInv, WritesOne, NEW u \in Published
  PROVE  /\ [versions'[u] EXCEPT !.tasks = <<>>] = [versions[u] EXCEPT !.tasks = <<>>]
         /\ \A i \in DOMAIN versions[u].tasks :
              versions'[u].tasks[i].rules = versions[u].tasks[i].rules
<1>1. PICK v \in Numbers, y \in Version :
        versions' = [versions EXCEPT ![v] = y] /\ MayWrite(versions[v], y)
  BY DEF WritesOne
<1>2. versions \in [Numbers -> Version] /\ u \in Numbers /\ versions[u].status = "published"
  BY DEF VersionsInv, TypeOK, Published
<1>3. CASE u # v
  BY <1>1, <1>2, <1>3
<1>4. CASE u = v
  <2>1. versions'[u] = y /\ Reworded(versions[u], y)
    BY <1>1, <1>2, <1>4 DEF MayWrite, Edited, Released, Created
  <2>2. [y EXCEPT !.tasks = <<>>] = [versions[u] EXCEPT !.tasks = <<>>]
    <3>1. versions[u] \in Version
      BY <1>2
    <3>2. QED
      BY <2>1, <3>1 DEF Reworded, Version
  <2>3. QED
    BY <2>1, <2>2 DEF Reworded
<1>5. QED
  BY <1>3, <1>4

\* A copy keeps what the gate asks for.
LEMMA CopyKeeps ==
  ASSUME NEW source \in Version
  PROVE  /\ CopyOf(source) \in Version /\ CopyOf(source).status = "draft"
         /\ CopyOf(source).target = source.target /\ CopyOf(source).tasks = source.tasks
<1> DEFINE k == [Unused EXCEPT !.status = "draft"]
           m == [k EXCEPT !.target = source.target]
           n == [m EXCEPT !.label = source.label]
           y == [n EXCEPT !.tasks = source.tasks]
<1>1. k \in Version /\ k.status = "draft"
  <2>1. <<>> \in Lists
    BY EditingAssumption DEF Lists
  <2>2. Unused \in Version
    BY <2>1, EditingAssumption DEF Unused, Version, Targets
  <2>3. QED
    BY <2>2 DEF Version
<1>2. source.target \in Targets /\ source.label \in {"none", "v1", "v2"} /\ source.tasks \in Lists
  BY DEF Version
<1>3. CopyOf(source) = y
  BY DEF CopyOf
<1> HIDE DEF k
<1>4. m \in Version /\ m.status = "draft" /\ m.target = source.target
  BY <1>1, <1>2 DEF Version
<1> HIDE DEF m
<1>5. n \in Version /\ n.status = "draft" /\ n.target = source.target
  BY <1>2, <1>4 DEF Version
<1> HIDE DEF n
<1>6. y \in Version /\ y.status = "draft" /\ y.target = source.target /\ y.tasks = source.tasks
  BY <1>2, <1>5 DEF Version
<1>7. QED
  BY <1>3, <1>6

\* A new draft with tasks is a copy of the newest published version.
LEMMA WriteCopies ==
  ASSUME VersionsInv, WritesOne, NEW u \in Numbers,
         versions[u].status = "none", versions'[u].tasks # <<>>, versions'[u] # versions[u]
  PROVE  versions'[u] = CopyOf(versions[Newest(Published)])
<1>1. PICK v \in Numbers, y \in Version :
        versions' = [versions EXCEPT ![v] = y] /\ MayWrite(versions[v], y)
  BY DEF WritesOne
<1>2. versions \in [Numbers -> Version]
  BY DEF VersionsInv, TypeOK
<1>3. u = v /\ versions'[u] = y
  BY <1>1, <1>2
<1>4. y = CopyOf(versions[Newest(Published)])
  BY <1>1, <1>3 DEF MayWrite, Edited, Reworded, Released, Created
<1>5. QED
  BY <1>3, <1>4

-----------------------------------------------------------------------------
(* The writes of the requests *)

\* A draft with some fields replaced is one.
LEMMA DraftTarget ==
  ASSUME NEW x \in Version, NEW chosen \in Targets
  PROVE  [x EXCEPT !.target = chosen] \in Version /\ [x EXCEPT !.target = chosen].status = x.status
BY DEF Version

LEMMA DraftFunnel ==
  ASSUME NEW x \in Version
  PROVE  [x EXCEPT !.funnel = TRUE] \in Version /\ [x EXCEPT !.funnel = TRUE].status = x.status
BY DEF Version

LEMMA VersionTasks ==
  ASSUME NEW x \in Version, NEW list \in Lists
  PROVE  LET y == [x EXCEPT !.tasks = list] IN
         /\ y \in Version /\ y.tasks = list
         /\ y.status = x.status /\ y.target = x.target /\ y.funnel = x.funnel
         /\ y.label = x.label /\ y.gated = x.gated
BY DEF Version

\* A task of the list is replaced.
LEMMA TaskReplaced ==
  ASSUME NEW list \in Lists, NEW i \in DOMAIN list, NEW task \in Task
  PROVE  /\ [list EXCEPT ![i] = task] \in Lists
         /\ Len([list EXCEPT ![i] = task]) = Len(list)
BY DEF Lists

LEMMA RulesWrite ==
  ASSUME VersionsInv, NEW c \in Clients, NEW v \in Numbers, versions[v].status = "draft",
         NEW rules \in Rules, NEW i \in DOMAIN versions[v].tasks,
         versions' = [versions EXCEPT ![v].tasks[i].rules = rules]
  PROVE  WritesOne
<1>1. versions \in [Numbers -> Version] /\ versions[v] \in Version /\ versions[v].tasks \in Lists
  BY DEF VersionsInv, TypeOK, Version
<1> DEFINE task == [versions[v].tasks[i] EXCEPT !.rules = rules]
           list == [versions[v].tasks EXCEPT ![i] = task]
           y == [versions[v] EXCEPT !.tasks = list]
<1>2. task \in Task
  <2>1. versions[v].tasks[i] \in Task
    BY <1>1 DEF Lists
  <2>2. QED
    BY <2>1 DEF Task
<1>3. list \in Lists
  BY <1>1, <1>2, TaskReplaced
<1>4. y \in Version /\ y.status = "draft"
  BY <1>1, <1>3, VersionTasks
<1>5. versions' = [versions EXCEPT ![v] = y]
  BY <1>1
<1>6. QED
  BY <1>4, <1>5 DEF WritesOne, MayWrite, Edited

LEMMA TextWrite ==
  ASSUME VersionsInv, NEW v \in Numbers, versions[v].status # "none",
         NEW text \in 0..MaxEdits, NEW i \in DOMAIN versions[v].tasks,
         versions' = [versions EXCEPT ![v].tasks[i].text = text]
  PROVE  WritesOne
<1>1. versions \in [Numbers -> Version] /\ versions[v] \in Version /\ versions[v].tasks \in Lists
  BY DEF VersionsInv, TypeOK, Version
<1> DEFINE task == [versions[v].tasks[i] EXCEPT !.text = text]
           list == [versions[v].tasks EXCEPT ![i] = task]
           y == [versions[v] EXCEPT !.tasks = list]
<1>2. task \in Task /\ task.rules = versions[v].tasks[i].rules
  <2>1. versions[v].tasks[i] \in Task
    BY <1>1 DEF Lists
  <2>2. QED
    BY <2>1 DEF Task
<1>3. list \in Lists /\ Len(list) = Len(versions[v].tasks)
  BY <1>1, <1>2, TaskReplaced
<1>4. \A j \in DOMAIN versions[v].tasks : list[j].rules = versions[v].tasks[j].rules
  BY <1>1, <1>2 DEF Lists
<1>5. /\ y \in Version /\ y.tasks = list
      /\ y.status = versions[v].status /\ y.target = versions[v].target
      /\ y.funnel = versions[v].funnel /\ y.label = versions[v].label
      /\ y.gated = versions[v].gated
  BY <1>1, <1>3, VersionTasks
<1>6. versions' = [versions EXCEPT ![v] = y]
  BY <1>1
<1> HIDE DEF y, list, task
<1>7. Reworded(versions[v], y)
  <2>1. Len(list) \in Nat
    BY <1>3 DEF Lists
  <2>2. QED
    BY <1>3, <1>4, <1>5, <2>1 DEF Reworded
<1>8. QED
  BY <1>5, <1>6, <1>7 DEF WritesOne, MayWrite

LEMMA TaskAdded ==
  ASSUME VersionsInv, NEW v \in Numbers, versions[v].status # "none",
         Len(versions[v].tasks) < MaxTasks,
         versions' = [versions EXCEPT ![v].tasks = Append(@, [text |-> 0, rules |-> "none"])]
  PROVE  WritesOne
<1> USE EditingAssumption
<1>1. versions \in [Numbers -> Version] /\ versions[v] \in Version /\ versions[v].tasks \in Lists
  BY DEF VersionsInv, TypeOK, Version
<1> DEFINE old == versions[v].tasks
           list == Append(old, [text |-> 0, rules |-> "none"])
           y == [versions[v] EXCEPT !.tasks = list]
<1>2. [text |-> 0, rules |-> "none"] \in Task
  BY DEF Task, Rules
<1>3. list \in Lists /\ Len(list) = Len(old) + 1 /\ Len(old) \in Nat
  BY <1>1, <1>2 DEF Lists
<1>4. \A j \in DOMAIN old : list[j] = old[j]
  BY <1>1, <1>2 DEF Lists
<1>5. /\ y \in Version /\ y.tasks = list
      /\ y.status = versions[v].status /\ y.target = versions[v].target
      /\ y.funnel = versions[v].funnel /\ y.label = versions[v].label
      /\ y.gated = versions[v].gated
  BY <1>1, <1>3, VersionTasks
<1>6. versions' = [versions EXCEPT ![v] = y]
  BY <1>1
<1> HIDE DEF y, list
<1>7. Reworded(versions[v], y)
  BY <1>3, <1>4, <1>5 DEF Reworded
<1>8. QED
  BY <1>5, <1>6, <1>7 DEF WritesOne, MayWrite

LEMMA TargetWrite ==
  ASSUME VersionsInv, NEW v \in Numbers, versions[v].status = "draft", NEW chosen \in Targets,
         versions' = [versions EXCEPT ![v].target = chosen]
  PROVE  WritesOne
<1>1. versions \in [Numbers -> Version] /\ versions[v] \in Version
  BY DEF VersionsInv, TypeOK
<1> DEFINE y == [versions[v] EXCEPT !.target = chosen]
<1>2. y \in Version /\ y.status = "draft"
  BY <1>1, DraftTarget
<1>3. versions' = [versions EXCEPT ![v] = y]
  BY <1>1
<1> HIDE DEF y
<1>4. QED
  BY <1>2, <1>3 DEF WritesOne, MayWrite, Edited

LEMMA DraftAdded ==
  ASSUME VersionsInv, NEW v \in Numbers, v \notin Used, NEW chosen \in Targets,
         versions' = [versions EXCEPT ![v] = [Unused EXCEPT !.status = "draft", !.target = chosen]]
  PROVE  WritesOne
<1> USE EditingAssumption
<1> DEFINE y == [Unused EXCEPT !.status = "draft", !.target = chosen]
<1>1. versions[v].status = "none"
  BY DEF VersionsInv, Unused
<1>2. Unused \in Version /\ Unused.tasks = <<>>
  <2>1. <<>> \in Lists
    BY DEF Lists
  <2>2. QED
    BY <2>1 DEF Unused, Version, Targets
<1>3. y = [[Unused EXCEPT !.status = "draft"] EXCEPT !.target = chosen]
  OBVIOUS
<1>4. y \in Version /\ y.status = "draft" /\ y.tasks = <<>>
  <2> DEFINE m == [Unused EXCEPT !.status = "draft"]
  <2>1. m \in Version /\ m.status = "draft" /\ m.tasks = <<>>
    BY <1>2 DEF Version
  <2>2. y = [m EXCEPT !.target = chosen]
    BY <1>3
  <2> HIDE DEF y, m
  <2>3. QED
    BY <2>1, <2>2 DEF Version
<1> HIDE DEF y
<1>5. QED
  BY <1>1, <1>4 DEF y, WritesOne, MayWrite, Created

LEMMA FunnelWrite ==
  ASSUME VersionsInv, SaveFunnel
  PROVE  WritesOne
<1> DEFINE v == Newest(Drafts)
           y == [versions[v] EXCEPT !.funnel = TRUE]
<1>1. v \in Numbers /\ versions[v].status = "draft"
  <2>1. Drafts \in SUBSET Numbers
    BY DEF Drafts
  <2>2. v \in Drafts
    BY <2>1, NewestIsOne DEF SaveFunnel
  <2>3. QED
    BY <2>2 DEF Drafts
<1>2. versions \in [Numbers -> Version] /\ versions[v] \in Version
  BY <1>1 DEF VersionsInv, TypeOK
<1>3. y \in Version /\ y.status = "draft"
  BY <1>1, <1>2, DraftFunnel
<1>4. versions' = [versions EXCEPT ![v] = y]
  BY <1>2 DEF SaveFunnel
<1> HIDE DEF y, v
<1>5. QED
  BY <1>1, <1>3, <1>4 DEF WritesOne, MayWrite, Edited

LEMMA PublishWrite ==
  ASSUME VersionsInv, Publish
  PROVE  WritesOne
<1> USE EditingAssumption
<1> DEFINE v == Newest(Drafts)
           x == versions[v]
           m == [x EXCEPT !.status = "published"]
           n == [m EXCEPT !.label = PublishedLabel(x)]
           y == [n EXCEPT !.gated = Len(x.tasks)]
<1>1. v \in Numbers /\ x.status = "draft"
  <2>1. Drafts \in SUBSET Numbers
    BY DEF Drafts
  <2>2. v \in Drafts
    BY <2>1, NewestIsOne DEF Publish
  <2>3. QED
    BY <2>2 DEF Drafts
<1>2. versions \in [Numbers -> Version] /\ x \in Version /\ x.tasks \in Lists
  BY <1>1 DEF VersionsInv, TypeOK, Version
<1>3. versions' = [versions EXCEPT ![v] = y]
  BY <1>1, <1>2 DEF Publish
<1>4. PublishedLabel(x) \in {"v1", "v2"}
  BY <1>2 DEF PublishedLabel, Version
<1>5. Len(x.tasks) \in 0..MaxTasks
  BY <1>2 DEF Lists
<1>6. /\ y \in Version /\ y.status = "published" /\ y.label \in {"v1", "v2"}
      /\ y.gated = Len(x.tasks) /\ y.tasks = x.tasks /\ y.target = x.target
  <2> HIDE DEF x
  <2>1. m \in Version /\ m.status = "published" /\ m.tasks = x.tasks /\ m.target = x.target
    BY <1>2 DEF Version
  <2> HIDE DEF m
  <2>2. /\ n \in Version /\ n.status = "published" /\ n.tasks = x.tasks /\ n.target = x.target
        /\ n.label \in {"v1", "v2"}
    BY <1>4, <2>1 DEF Version
  <2> HIDE DEF n
  <2>3. QED
    BY <1>5, <2>2 DEF Version
<1>7. Decided(y)
  <2>1. /\ x.tasks # <<>> /\ ~Blocked(x.target)
        /\ \A i \in DOMAIN x.tasks : Fits(x.tasks[i].rules, x.target)
    BY DEF Publish, Complete
  <2>2. DOMAIN x.tasks = 1..Len(x.tasks) /\ Len(x.tasks) > 0
    BY <1>2, <2>1 DEF Lists
  <2> HIDE DEF y, x
  <2>3. QED
    BY <1>5, <1>6, <2>1, <2>2 DEF Decided
<1> HIDE DEF y, x, v
<1>8. QED
  BY <1>1, <1>3, <1>6, <1>7 DEF WritesOne, MayWrite, Released, x

LEMMA CloneWrite ==
  ASSUME VersionsInv, CloneDraft
  PROVE  WritesOne
<1> USE EditingAssumption
<1> DEFINE v == Newest(Used) + 1
           x == versions[Newest(Published)]
           y == CopyOf(x)
<1>1. v \in Numbers /\ versions[v].status = "none"
  <2>1. Used \in SUBSET Numbers /\ Used # {}
    BY DEF Used, Drafts, Published, VersionsInv
  <2>2. Newest(Used) \in 0..MaxVersions /\ \A u \in Used : u <= Newest(Used)
    <3>1. Used \in SUBSET (0..MaxVersions) /\ MaxVersions \in Nat
      BY <2>1 DEF Numbers
    <3>2. Newest(Used) = Max(Used)
      BY <2>1 DEF Newest
    <3>3. QED
      BY <2>1, <3>1, <3>2, GreatestElement
  <2>3. v \in Numbers /\ v \notin Used
    BY <2>2 DEF CloneDraft, Numbers
  <2>4. QED
    BY <2>3 DEF VersionsInv, Unused
<1>2. x \in Version /\ versions \in [Numbers -> Version]
  <2>1. Published \in SUBSET Numbers /\ Published # {}
    BY DEF Published, VersionsInv
  <2>2. QED
    BY <2>1, NewestIsOne DEF VersionsInv, TypeOK
<1>3. versions' = [versions EXCEPT ![v] = y]
  BY DEF CloneDraft, CopyOf
<1>4. y \in Version /\ y.status = "draft"
  BY <1>2, CopyKeeps
<1> HIDE DEF v
<1>5. QED
  BY <1>1, <1>3, <1>4 DEF WritesOne, MayWrite, Created

-----------------------------------------------------------------------------
(* What clients know *)

LEMMA ClientsStillKnow ==
  ASSUME VersionsInv, Used \subseteq Used', NEW c \in Clients, NEW z \in ClientType,
         client' = [client EXCEPT ![c] = z],
         z.draft # 0 => z.draft \in Used,
         z.op \notin {"idle", "target"} => z.draft # 0
  PROVE  client' \in [Clients -> ClientType] /\ ClientsKnow'
<1>1. client \in [Clients -> ClientType] /\ ClientsKnow
  BY DEF VersionsInv, TypeOK, ClientType
<1>2. client' \in [Clients -> ClientType]
  BY <1>1
<1>3. \A d \in Clients : client'[d] = IF d = c THEN z ELSE client[d]
  BY <1>1
<1>4. QED
  BY <1>1, <1>2, <1>3 DEF ClientsKnow

LEMMA IdleClient == Idle \in ClientType /\ Idle.draft = 0 /\ Idle.op = "idle"
BY DEF Idle, ClientType, Targets

LEMMA Answered ==
  ASSUME VersionsInv, Used \subseteq Used', NEW c \in Clients, Answer(c)
  PROVE  client' \in [Clients -> ClientType] /\ ClientsKnow'
BY IdleClient, ClientsStillKnow DEF Answer

\* An operation that goes on has the draft it found.
LEMMA FoundDraft ==
  ASSUME VersionsInv, NEW c \in Clients, client[c].op \notin {"idle", "target"}
  PROVE  client[c].draft \in Numbers /\ versions[client[c].draft].status # "none"
<1>1. client[c].draft \in Used
  BY DEF VersionsInv, ClientsKnow
<1>2. QED
  BY <1>1 DEF Used, Drafts, Published

-----------------------------------------------------------------------------
(* The steps *)

\* What each step comes to: a write or none, and clients that know of it.
Allowed ==
  /\ versions' = versions \/ WritesOne
  /\ edits' \in 0..MaxEdits
  /\ Used \subseteq Used' => client' \in [Clients -> ClientType] /\ ClientsKnow'

LEMMA FindDraftStep ==
  ASSUME VersionsInv, NEW c \in Clients, NEW op \in Operations, FindDraft(c, op)
  PROVE  Allowed
<1> DEFINE v == Newest(Drafts)
           z == [op |-> op, step |-> "found", draft |-> v, seen |-> 0,
                 target |-> IF op \in {"rules", "preflight"} THEN versions[v].target ELSE "site"]
<1>1. /\ v # 0 \/ op = "target"
      /\ client' = [client EXCEPT ![c] = z]
      /\ versions' = versions /\ edits' = edits
  BY DEF FindDraft
<1>2. Drafts \in SUBSET Numbers
  BY DEF Drafts
<1>3. v \in {0} \cup Numbers /\ (v # 0 => v \in Drafts)
  BY <1>2, NewestIsOne
<1>4. op \in {"rules", "preflight"} => versions[v].target \in Targets
  BY <1>1, <1>2, <1>3 DEF VersionsInv, TypeOK, Version
<1>5. z \in ClientType
  BY <1>3, <1>4 DEF ClientType, Targets
<1>6. z.draft = v /\ z.op = op
  OBVIOUS
<1> HIDE DEF z
<1>7. Used \subseteq Used' => client' \in [Clients -> ClientType] /\ ClientsKnow'
  BY <1>1, <1>3, <1>5, <1>6, ClientsStillKnow DEF Used
<1>8. QED
  BY <1>1, <1>7 DEF Allowed, VersionsInv, TypeOK

LEMMA CountTasksStep ==
  ASSUME VersionsInv, NEW c \in Clients, CountTasks(c)
  PROVE  Allowed
<1> DEFINE n == Len(versions[client[c].draft].tasks)
           m == [client[c] EXCEPT !.step = "counted"]
           z == [m EXCEPT !.seen = n]
<1>1. client[c].op = "create" /\ versions' = versions /\ edits' = edits /\ client[c] \in ClientType
  BY DEF CountTasks, At, VersionsInv, TypeOK, ClientType
<1>2. n \in Nat
  BY <1>1, FoundDraft DEF VersionsInv, TypeOK, Version, Lists
<1>3. m \in ClientType /\ m.draft = client[c].draft /\ m.op = client[c].op
  BY <1>1 DEF ClientType
<1>4. z \in ClientType /\ z.draft = client[c].draft /\ z.op = client[c].op
  <2> HIDE DEF m, n
  <2>1. QED
    BY <1>2, <1>3 DEF ClientType
<1>5. client' = [client EXCEPT ![c] = z]
  BY DEF CountTasks, VersionsInv, TypeOK
<1>6. client[c].draft \in Used
  BY <1>1 DEF VersionsInv, ClientsKnow
<1> HIDE DEF z
<1>7. Used \subseteq Used' => client' \in [Clients -> ClientType] /\ ClientsKnow'
  BY <1>1, <1>4, <1>5, <1>6, FoundDraft, ClientsStillKnow DEF VersionsInv, ClientsKnow
<1>8. QED
  BY <1>1, <1>7 DEF Allowed, VersionsInv, TypeOK

LEMMA GuardTaskStep ==
  ASSUME VersionsInv, NEW c \in Clients, GuardTask(c)
  PROVE  Allowed
<1> DEFINE z == [client[c] EXCEPT !.step = "guarded"]
<1>1. /\ client[c].op \in {"create", "edit"} /\ versions' = versions /\ edits' = edits
      /\ client[c] \in ClientType
  BY DEF GuardTask, At, VersionsInv, TypeOK, ClientType
<1>2. z \in ClientType /\ z.draft = client[c].draft /\ z.op = client[c].op
  BY <1>1 DEF ClientType
<1>3. Answer(c) \/ client' = [client EXCEPT ![c] = z]
  BY DEF GuardTask, VersionsInv, TypeOK
<1> HIDE DEF z
<1>4. client[c].draft \in Used /\ client[c].draft # 0
  BY <1>1 DEF VersionsInv, ClientsKnow
<1>5. Used \subseteq Used' => client' \in [Clients -> ClientType] /\ ClientsKnow'
  BY <1>2, <1>3, <1>4, Answered, ClientsStillKnow
<1>6. QED
  BY <1>1, <1>5 DEF Allowed, VersionsInv, TypeOK

LEMMA ReadLatestNumberStep ==
  ASSUME VersionsInv, NEW c \in Clients, ReadLatestNumber(c)
  PROVE  Allowed
<1> DEFINE m == [client[c] EXCEPT !.step = "numbered"]
           z == [m EXCEPT !.seen = Newest(Used)]
<1>1. /\ client[c].op = "target" /\ client[c].draft = 0 /\ versions' = versions /\ edits' = edits
      /\ client[c] \in ClientType
  BY DEF ReadLatestNumber, At, VersionsInv, TypeOK, ClientType
<1>2. Newest(Used) \in Nat
  <2>1. Used \in SUBSET Numbers
    BY DEF Used, Drafts, Published
  <2>2. QED
    BY <2>1, NewestIsOne
<1>3. m \in ClientType /\ m.draft = client[c].draft /\ m.op = client[c].op
  BY <1>1 DEF ClientType
<1>4. z \in ClientType /\ z.draft = client[c].draft /\ z.op = client[c].op
  <2> HIDE DEF m
  <2>1. QED
    BY <1>2, <1>3 DEF ClientType
<1>5. client' = [client EXCEPT ![c] = z]
  BY DEF ReadLatestNumber, VersionsInv, TypeOK
<1> HIDE DEF z
<1>6. Used \subseteq Used' => client' \in [Clients -> ClientType] /\ ClientsKnow'
  BY <1>1, <1>4, <1>5, ClientsStillKnow
<1>7. QED
  BY <1>1, <1>6 DEF Allowed, VersionsInv, TypeOK

\* The requests that end an operation.
LEMMA AnsweredStep ==
  ASSUME VersionsInv, NEW c \in Clients, Answer(c), versions' = versions \/ WritesOne,
         edits' \in 0..MaxEdits
  PROVE  Allowed
BY Answered DEF Allowed

LEMMA TaskStep ==
  ASSUME VersionsInv, NEW c \in Clients, InsertTask(c) \/ UpdateTask(c) \/ ReorderTasks(c)
  PROVE  Allowed
<1> USE EditingAssumption
<1> DEFINE v == client[c].draft
<1>1. edits \in 0..MaxEdits
  BY DEF VersionsInv, TypeOK
<1>2. CASE InsertTask(c)
  <2>1. v \in Numbers /\ versions[v].status # "none"
    BY <1>2, FoundDraft DEF InsertTask, At
  <2>2. versions' = versions \/ WritesOne
    BY <1>2, <2>1, TaskAdded DEF InsertTask
  <2>3. QED
    BY <1>1, <1>2, <2>2, AnsweredStep DEF InsertTask
<1>3. CASE UpdateTask(c)
  <2>1. v \in Numbers /\ versions[v].status # "none"
    BY <1>3, FoundDraft DEF UpdateTask, At
  <2>2. edits' = edits + 1 /\ edits + 1 \in 0..MaxEdits
    <3>1. edits < MaxEdits /\ edits' = edits + 1
      BY <1>3 DEF UpdateTask
    <3>2. QED
      BY <1>1, <3>1
  <2>3. PICK i \in DOMAIN versions[v].tasks :
          versions' = [versions EXCEPT ![v].tasks[i].text = edits + 1]
    BY <1>3 DEF UpdateTask
  <2>4. WritesOne
    BY <2>1, <2>2, <2>3, TextWrite
  <2>5. QED
    BY <1>3, <2>2, <2>4, AnsweredStep DEF UpdateTask
<1>4. CASE ReorderTasks(c)
  BY <1>1, <1>4, AnsweredStep DEF ReorderTasks
<1>5. QED
  BY <1>2, <1>3, <1>4

LEMMA RulesStep ==
  ASSUME VersionsInv, NEW c \in Clients, SaveRules(c) \/ SaveFrameMapping(c)
  PROVE  Allowed
<1> DEFINE v == client[c].draft
<1>1. v \in Numbers
  BY FoundDraft DEF SaveRules, SaveFrameMapping, At
<1>2. edits' = edits /\ edits \in 0..MaxEdits /\ Answer(c)
  BY DEF SaveRules, SaveFrameMapping, VersionsInv, TypeOK
<1>3. \/ versions' = versions
      \/ /\ versions[v].status = "draft"
         /\ \E rules \in Rules, i \in DOMAIN versions[v].tasks :
              versions' = [versions EXCEPT ![v].tasks[i].rules = rules]
  BY DEF SaveRules, SaveFrameMapping, Editable, Rules
<1>4. versions' = versions \/ WritesOne
  BY <1>1, <1>3, RulesWrite
<1>5. QED
  BY <1>2, <1>4, AnsweredStep

LEMMA TargetStep ==
  ASSUME VersionsInv, NEW c \in Clients, PatchTarget(c) \/ InsertDraft(c) \/ PreflightDraft(c)
  PROVE  Allowed
<1> DEFINE v == client[c].draft
<1>1. edits' = edits /\ edits \in 0..MaxEdits /\ Answer(c)
  BY DEF PatchTarget, InsertDraft, PreflightDraft, VersionsInv, TypeOK
<1>2. v \in {0} \cup Numbers
  BY DEF VersionsInv, TypeOK
<1>3. ASSUME NEW chosen \in Targets, Editable(v), versions' = [versions EXCEPT ![v].target = chosen]
      PROVE  WritesOne
  BY <1>2, <1>3, TargetWrite DEF Editable
<1>4. CASE PatchTarget(c) \/ PreflightDraft(c)
  <2>1. \/ versions' = versions
        \/ Editable(v) /\ \E chosen \in Targets : versions' = [versions EXCEPT ![v].target = chosen]
    BY <1>4 DEF PatchTarget, PreflightDraft, Targets
  <2>2. QED
    BY <1>1, <1>3, <2>1, AnsweredStep
<1>5. CASE InsertDraft(c)
  <2>1. \/ versions' = versions
        \/ \E u \in Numbers \ Used, chosen \in Targets :
             versions' = [versions EXCEPT ![u] = [Unused EXCEPT !.status = "draft", !.target = chosen]]
    BY <1>5 DEF InsertDraft, Targets
  <2>2. versions' = versions \/ WritesOne
    BY <2>1, DraftAdded
  <2>3. QED
    BY <1>1, <2>2, AnsweredStep
<1>6. QED
  BY <1>4, <1>5

LEMMA ProcedureStep ==
  ASSUME VersionsInv, SaveFunnel \/ Publish \/ CloneDraft \/ UNCHANGED vars
  PROVE  Allowed
<1>1. client' = client /\ edits' = edits
  BY DEF SaveFunnel, Publish, CloneDraft, vars
<1>2. versions' = versions \/ WritesOne
  BY FunnelWrite, PublishWrite, CloneWrite DEF vars
<1>3. Used \subseteq Used' => ClientsKnow'
  BY <1>1 DEF VersionsInv, ClientsKnow
<1>4. QED
  BY <1>1, <1>2, <1>3 DEF Allowed, VersionsInv, TypeOK, ClientType

LEMMA NextAllowed ==
  ASSUME VersionsInv, [Next]_vars
  PROVE  Allowed
<1>1. ASSUME NEW c \in Clients, RequestFails(c) PROVE Allowed
  BY <1>1, AnsweredStep DEF RequestFails, VersionsInv, TypeOK
<1>2. QED
  BY <1>1, FindDraftStep, CountTasksStep, GuardTaskStep, TaskStep, RulesStep, TargetStep,
     ReadLatestNumberStep, ProcedureStep DEF Next

-----------------------------------------------------------------------------
(* The theorems *)

LEMMA InitEditing == Init => VersionsInv
<1> SUFFICES ASSUME Init PROVE VersionsInv
  OBVIOUS
<1> USE EditingAssumption
<1>1. PICK chosen \in {"legacy", "approved"}, rules \in {"node", "screen"}, funnel \in BOOLEAN :
        /\ Fits(rules, chosen)
        /\ versions = [v \in Numbers |->
             IF v = 1 THEN [status |-> "published", target |-> chosen, funnel |-> funnel,
                            label |-> IF rules = "node" THEN "v1" ELSE "v2",
                            tasks |-> <<[text |-> 0, rules |-> rules]>>, gated |-> 1]
             ELSE Unused]
  BY DEF Init
<1> DEFINE list == <<[text |-> 0, rules |-> rules]>>
           first == [status |-> "published", target |-> chosen, funnel |-> funnel,
                     label |-> IF rules = "node" THEN "v1" ELSE "v2", tasks |-> list, gated |-> 1]
<1>2. list \in Lists /\ Len(list) = 1 /\ list[1].rules = rules
  <2>1. [text |-> 0, rules |-> rules] \in Task
    BY DEF Task, Rules
  <2>2. QED
    BY <2>1 DEF Lists
<1>3. first \in Version
  <2> HIDE DEF list
  <2>1. QED
    BY <1>2 DEF Version, Targets
<1>4. Unused \in Version
  <2>1. <<>> \in Lists
    BY DEF Lists
  <2>2. QED
    BY <2>1 DEF Unused, Version, Targets
<1>5. versions = [v \in Numbers |-> IF v = 1 THEN first ELSE Unused]
  BY <1>1
<1>6. Decided(first) /\ first.status = "published" /\ first.label # "none"
  BY <1>1, <1>2 DEF Decided, Blocked
<1> HIDE DEF first
<1>7. 1 \in Numbers
  BY DEF Numbers
<1>8. \A v \in Numbers : v \in Published <=> v = 1
  BY <1>5, <1>6 DEF Published, Unused
<1>9. 1 \in Published /\ \A v \in Numbers \ Used : versions[v] = Unused
  BY <1>5, <1>7, <1>8 DEF Used
<1>10. PublishedIsDecidable
  <2>1. \A v \in Published : v = 1
    BY <1>8 DEF Published
  <2>2. versions[1] = first
    BY <1>5, <1>7
  <2>3. QED
    BY <1>6, <2>1, <2>2 DEF PublishedIsDecidable, Decided
<1>11. client = [c \in Clients |-> Idle] /\ edits = 0
  BY DEF Init
<1>12. TypeOK
  <2>1. versions \in [Numbers -> Version]
    BY <1>3, <1>4, <1>5
  <2>2. \A v \in Published : versions[v].label # "none"
    BY <1>5, <1>6, <1>7, <1>8 DEF Published
  <2>3. client \in [Clients -> ClientType]
    BY <1>11, IdleClient
  <2>4. QED
    BY <1>11, <2>1, <2>2, <2>3 DEF TypeOK, ClientType
<1>13. ClientsKnow
  BY <1>11, IdleClient DEF ClientsKnow
<1>14. QED
  BY <1>9, <1>10, <1>12, <1>13 DEF VersionsInv

LEMMA NextEditing == VersionsInv /\ [Next]_vars => VersionsInv'
<1> SUFFICES ASSUME VersionsInv, [Next]_vars PROVE VersionsInv'
  OBVIOUS
<1>1. Allowed
  BY NextAllowed
<1>2. /\ versions' \in [Numbers -> Version]
      /\ Used \subseteq Used' /\ Published \subseteq Published'
      /\ \A u \in Numbers \ Used' : versions'[u] = Unused
      /\ PublishedIsDecidable' /\ \A v \in Published' : versions'[v].label # "none"
  <2>1. CASE WritesOne
    BY <2>1, WriteKeepsStatus, WriteKeepsDecidable
  <2>2. CASE versions' = versions
    BY <2>2 DEF VersionsInv, TypeOK, Used, Drafts, Published, PublishedIsDecidable
  <2>3. QED
    BY <1>1, <2>1, <2>2 DEF Allowed
<1>3. edits' \in 0..MaxEdits /\ client' \in [Clients -> ClientType] /\ ClientsKnow'
  BY <1>1, <1>2 DEF Allowed
<1>4. TypeOK'
  BY <1>2, <1>3 DEF TypeOK, ClientType
<1>5. 1 \in Published'
  BY <1>2 DEF VersionsInv
<1>6. QED
  BY <1>2, <1>3, <1>4, <1>5 DEF VersionsInv

\* The invariant holds of every behaviour.
THEOREM EditingInvariant == Spec => []VersionsInv
BY InitEditing, NextEditing, PTL DEF Spec

\* Every variable stays in its type, and a published version has a rule version.
THEOREM EditingTypes == Spec => []TypeOK
<1>1. VersionsInv => TypeOK
  BY DEF VersionsInv
<1>2. QED
  BY <1>1, EditingInvariant, PTL

\* Whatever researchers save beside and after the publish, the tasks a version
\* was published with can be decided on its target.
THEOREM PublishedDecidable == Spec => []PublishedIsDecidable
<1>1. VersionsInv => PublishedIsDecidable
  BY DEF VersionsInv
<1>2. QED
  BY <1>1, EditingInvariant, PTL

\* No request, however late, changes what a version was published with, but for
\* the texts of its tasks.
THEOREM PublishedFrozen == Spec => PublishedVersionFrozen
<1>1. ASSUME VersionsInv, [Next]_vars, NEW v \in Published
      PROVE  /\ [versions'[v] EXCEPT !.tasks = <<>>] = [versions[v] EXCEPT !.tasks = <<>>]
             /\ \A i \in DOMAIN versions[v].tasks :
                  versions'[v].tasks[i].rules = versions[v].tasks[i].rules
  BY <1>1, NextAllowed, WriteKeepsPublished DEF Allowed
<1>2. VersionsInv /\ [Next]_vars =>
        [\A v \in Published :
           /\ [versions'[v] EXCEPT !.tasks = <<>>] = [versions[v] EXCEPT !.tasks = <<>>]
           /\ \A i \in DOMAIN versions[v].tasks :
                versions'[v].tasks[i].rules = versions[v].tasks[i].rules]_vars
  BY <1>1
<1>3. QED
  BY <1>2, EditingInvariant, PTL DEF Spec, PublishedVersionFrozen

\* A draft that starts with tasks passes the gate as it is, if the gate saw all
\* tasks of the version it is a copy of: what was decided at the publish held
\* through everything written since, and the copy has all of it.
THEOREM ClonesStayPublishable == Spec => CloneStaysPublishable
<1> DEFINE source == versions[Newest(Published)]
<1>1. ASSUME VersionsInv, [Next]_vars, NEW v \in Numbers,
             versions[v].status = "none", versions'[v].tasks # <<>>,
             source.gated = Len(source.tasks)
      PROVE  Complete(v)'
  <2>1. versions[v].tasks = <<>>
    BY <1>1 DEF VersionsInv, Used, Drafts, Published, Unused
  <2>2. WritesOne /\ versions'[v] # versions[v]
    BY <1>1, <2>1, NextAllowed DEF Allowed
  <2>3. Newest(Published) \in Published
    <3>1. Published \in SUBSET Numbers /\ Published # {}
      BY <1>1 DEF Published, VersionsInv
    <3>2. QED
      BY <3>1, NewestIsOne
  <2>4. source \in Version /\ source.tasks \in Seq(Task)
    BY <1>1, <2>3 DEF VersionsInv, TypeOK, Published, Version, Lists
  <2>5. /\ ~Blocked(source.target)
        /\ \A i \in 1..source.gated : Fits(source.tasks[i].rules, source.target)
    BY <1>1, <2>3 DEF VersionsInv, PublishedIsDecidable
  <2>6. DOMAIN source.tasks = 1..source.gated
    BY <1>1, <2>4
  <2>7. versions'[v] = CopyOf(source)
    BY <1>1, <2>2, WriteCopies
  <2> HIDE DEF source
  <2>8. versions'[v].target = source.target /\ versions'[v].tasks = source.tasks
    BY <2>4, <2>7, CopyKeeps
  <2>9. QED
    BY <1>1, <2>5, <2>6, <2>8 DEF Complete
<1>2. VersionsInv /\ [Next]_vars =>
        [\A v \in Numbers : versions[v].status = "none" /\ versions'[v].tasks # <<>> =>
           (source.gated = Len(source.tasks) => Complete(v)')]_vars
  BY <1>1
<1>3. QED
  BY <1>2, EditingInvariant, PTL DEF Spec, CloneStaysPublishable

-----------------------------------------------------------------------------
(* Lists of values. *)

\* Dropping repeats leaves every value of the list, and each once.
LEMMA DistinctFacts ==
  ASSUME NEW T, NEW values \in Seq(T)
  PROVE  /\ Distinct(values) \in Seq(T)
         /\ ToSet(Distinct(values)) = ToSet(values)
         /\ IsInjective(Distinct(values))
         /\ values # <<>> => Distinct(values) # <<>>
<1> DEFINE S == {i \in DOMAIN values : \A j \in 1 .. (i - 1) : values[j] # values[i]}
           kept == KeepAt(values, S)
<1>1. DOMAIN values = 1 .. Len(values) /\ Len(values) \in Nat
  BY LenProperties
<1>2. S \in SUBSET DOMAIN values
  OBVIOUS
<1>3. Distinct(values) = kept
  BY DEF Distinct
<1>4. \A i \in DOMAIN values : \E j \in S : values[j] = values[i]
  <2>1. TAKE i \in DOMAIN values
  <2> DEFINE Same == {j \in DOMAIN values : values[j] = values[i]}
  <2>2. Same \in SUBSET Nat /\ Same # {}
    BY <1>1
  <2>3. Min(Same) \in Same /\ \A j \in Same : Min(Same) <= j
    BY <2>2, LeastElement
  <2>4. Min(Same) \in DOMAIN values /\ values[Min(Same)] = values[i]
    BY <2>3
  <2>5. \A j \in 1 .. (Min(Same) - 1) : values[j] # values[i]
    <3>1. \A j \in 1 .. (Min(Same) - 1) : j \in DOMAIN values /\ ~(Min(Same) <= j)
      BY <1>1, <2>4
    <3>2. QED
      BY <2>3, <3>1
  <2>6. Min(Same) \in S
    BY <2>4, <2>5
  <2>7. QED
    BY <2>4, <2>6
<1>5. \A i, j \in S : values[i] = values[j] => i = j
  <2>1. ASSUME NEW i \in S, NEW j \in S, i < j PROVE values[i] # values[j]
    <3>1. i \in 1 .. (j - 1)
      BY <1>1, <2>1
    <3>2. QED
      BY <3>1
  <2>2. \A i, j \in S : i < j \/ j < i \/ i = j
    BY <1>1
  <2>3. QED
    BY <2>1, <2>2
<1> HIDE DEF S
<1>6. /\ kept \in Seq(T)
      /\ \A k \in DOMAIN kept : Nth(S, k) \in S /\ kept[k] = values[Nth(S, k)]
      /\ \A k, l \in DOMAIN kept : k < l => Nth(S, k) < Nth(S, l)
      /\ \A i \in S : \E k \in DOMAIN kept : Nth(S, k) = i /\ kept[k] = values[i]
  BY <1>2, KeepAtFacts
<1> HIDE DEF kept
<1>7. DOMAIN kept = 1 .. Len(kept) /\ Len(kept) \in Nat
  BY <1>6, LenProperties
<1>8. ToSet(kept) = ToSet(values)
  <2>1. \A k \in DOMAIN kept : kept[k] \in ToSet(values)
    BY <1>2, <1>6 DEF ToSet
  <2>2. \A i \in DOMAIN values : values[i] \in ToSet(kept)
    BY <1>4, <1>6 DEF ToSet
  <2>3. QED
    BY <2>1, <2>2 DEF ToSet
<1>9. IsInjective(kept)
  <2>1. \A k, l \in DOMAIN kept : kept[k] = kept[l] => Nth(S, k) = Nth(S, l)
    BY <1>5, <1>6
  <2>2. \A k, l \in DOMAIN kept : Nth(S, k) \in Nat /\ (k < l \/ l < k \/ k = l)
    BY <1>1, <1>2, <1>6, <1>7
  <2>3. \A k, l \in DOMAIN kept : Nth(S, k) = Nth(S, l) => k = l
    BY <1>6, <2>2
  <2>4. QED
    BY <2>1, <2>3 DEF IsInjective
<1>10. values # <<>> => kept # <<>>
  <2>1. ASSUME values # <<>> PROVE kept # <<>>
    <3>1. 1 \in DOMAIN values
      BY <1>1, <2>1, EmptySeq
    <3>2. PICK k \in DOMAIN kept : TRUE
      BY <1>4, <1>6, <3>1
    <3>3. QED
      BY <1>7, <3>2, EmptySeq
  <2>2. QED
    BY <2>1
<1>11. QED
  BY <1>3, <1>6, <1>8, <1>9, <1>10

\* A list without repeats is left as it is.
LEMMA DistinctOfInjective ==
  ASSUME NEW T, NEW values \in Seq(T), IsInjective(values)
  PROVE  Distinct(values) = values
<1> DEFINE n == Len(values)
<1>1. DOMAIN values = 1 .. n /\ n \in Nat /\ values \in [1 .. n -> T]
  BY LenProperties
<1>2. {i \in DOMAIN values : \A j \in 1 .. (i - 1) : values[j] # values[i]} = 1 .. n
  <2>1. \A i \in 1 .. n : \A j \in 1 .. (i - 1) : j \in 1 .. n /\ j # i
    BY <1>1
  <2>2. \A i \in 1 .. n : \A j \in 1 .. (i - 1) : values[j] # values[i]
    BY <1>1, <2>1 DEF IsInjective
  <2>3. QED
    BY <1>1, <2>2
<1>3. IsFiniteSet(1 .. n) /\ Cardinality(1 .. n) = n
  BY <1>1, FS_Interval
<1>4. ASSUME NEW k \in 1 .. n PROVE Nth(1 .. n, k) = k
  <2>1. \A i \in 1 .. n : {j \in 1 .. n : j <= i} = 1 .. i
    BY <1>1
  <2>2. \A i \in 1 .. n : Cardinality({j \in 1 .. n : j <= i}) = i
    <3>1. TAKE i \in 1 .. n
    <3>2. Cardinality(1 .. i) = i
      BY <1>1, FS_Interval
    <3>3. QED
      BY <2>1, <3>2
  <2>3. \E i \in 1 .. n : Cardinality({j \in 1 .. n : j <= i}) = k
    BY <2>2
  <2>4. Nth(1 .. n, k) \in 1 .. n /\ Cardinality({j \in 1 .. n : j <= Nth(1 .. n, k)}) = k
    BY <2>3 DEF Nth
  <2>5. QED
    BY <2>2, <2>4
<1>5. Distinct(values) = [k \in 1 .. n |-> values[k]]
  BY <1>2, <1>3, <1>4 DEF Distinct, KeepAt
<1>6. QED
  BY <1>1, <1>5

-----------------------------------------------------------------------------
(* The rules that are stored. *)

\* How the values of a rule of a type are written once they are normalized
\* and the database took them.
Clean(type) ==
  CASE type = "url" -> {"url"}
    [] type = "route" -> {"path"}
    [] OTHER -> {"word", "node", "hyphen", "path", "url", "fragment"}

\* A V2 rule the editor built, and a V1 rule of the frame mapping.
BuiltRule(rule) ==
  /\ rule.version = 2 /\ rule.type \in V2Types
  /\ rule = [version |-> 2, type |-> rule.type, values |-> rule.values]
  /\ rule.values \in Seq(Value) /\ rule.values # <<>> /\ IsInjective(rule.values)
  /\ \A v \in ToSet(rule.values) : v.form \in Clean(rule.type)

MappedRule(rule) ==
  /\ rule.version = 1 /\ rule.type = V1Type
  /\ rule = [version |-> 1, type |-> V1Type, values |-> rule.values]
  /\ rule.values \in Seq(Value) /\ rule.values # <<>> /\ IsInjective(rule.values)
  /\ \A v \in ToSet(rule.values) : v.form = "node"

SettledRule(rule) == BuiltRule(rule) \/ MappedRule(rule)

\* A sequence of values whose trimmed form is asked for, none of them padded.
Trimmed(values) ==
  [i \in DOMAIN values |-> IF values[i].form = "padded" THEN Written(values[i], "word") ELSE values[i]]

\* Such a sequence is left as it is.
LEMMA NothingToTrim ==
  ASSUME NEW values \in Seq(Value), \A v \in ToSet(values) : v.form # "padded"
  PROVE  Trimmed(values) = values
<1>1. values \in [1 .. Len(values) -> Value] /\ DOMAIN values = 1 .. Len(values)
  BY LenProperties
<1>2. \A i \in DOMAIN values : values[i].form # "padded"
  BY DEF ToSet
<1>3. Trimmed(values) = [i \in DOMAIN values |-> values[i]]
  BY <1>2 DEF Trimmed
<1>4. QED
  BY <1>1, <1>3

\* The value of a stored rule is the one both programs read.
LEMMA SettledRuleRead ==
  ASSUME NEW rule, SettledRule(rule)
  PROVE  /\ SqlValues(rule) = rule.values
         /\ rule.values # <<>> /\ ToSet(rule.values) # {}
         /\ rule.type \in V2Types \cup {V1Type}
         /\ HasRule(rule)
<1>1. /\ rule.values \in Seq(Value) /\ rule.values # <<>> /\ IsInjective(rule.values)
      /\ rule.type = V1Type \/ (rule.version = 2 /\ rule.type \in V2Types)
      /\ rule.version # 0
  BY DEF SettledRule, BuiltRule, MappedRule
<1>2. \A v \in ToSet(rule.values) : v.form \notin {"padded", "blank", "hugeurl"}
  <2>1. CASE BuiltRule(rule)
    BY <2>1 DEF BuiltRule, Clean, V2Types
  <2>2. CASE MappedRule(rule)
    BY <2>2 DEF MappedRule
  <2>3. QED
    BY <2>1, <2>2 DEF SettledRule
<1>3. Trimmed(rule.values) = rule.values
  BY <1>1, <1>2, NothingToTrim
<1>4. SqlValues(rule) = IF /\ rule.type = V1Type \/ (rule.version = 2 /\ rule.type \in V2Types)
                           /\ \A v \in ToSet(Trimmed(rule.values)) : v.form \notin {"blank", "hugeurl"}
                           /\ IsInjective(Trimmed(rule.values))
                        THEN Trimmed(rule.values) ELSE <<>>
  BY DEF SqlValues, Trimmed
<1>5. SqlValues(rule) = rule.values
  BY <1>1, <1>2, <1>3, <1>4
<1>6. ToSet(rule.values) # {}
  <2>1. 1 \in DOMAIN rule.values
    BY <1>1, EmptySeq, LenProperties
  <2>2. QED
    BY <2>1 DEF ToSet
<1>7. HasRule(rule)
  BY <1>1 DEF HasRule, NoRule
<1>8. QED
  BY <1>1, <1>5, <1>6, <1>7 DEF V1Type

\* Normalizing gives a value in the form of its type, or rejects it; what is
\* in that form already stays as it is.
LEMMA NormalizedFacts ==
  ASSUME NEW type \in V2Types, NEW v \in Value
  PROVE  /\ Rejected \notin Value
         /\ Normalized(type, v) # Rejected =>
              /\ Normalized(type, v) \in Value
              /\ Normalized(type, v).form \in Clean(type) \cup {"hugeurl"}
         /\ v.form \in Clean(type) => Normalized(type, v) = v
<1>1. v.core \in Cores /\ v.form \in Forms /\ v = [core |-> v.core, form |-> v.form]
  BY DEF Value
<1>2. Rejected \notin Value
  BY DEF Rejected, Value, Forms
<1>3. \A form \in Forms : Written(v, form) \in Value /\ Written(v, form).form = form
  BY <1>1 DEF Written, Value
<1>4. CASE type = "url"
  <2>1. Normalized(type, v) = NormalizeUrl(v)
    BY <1>4 DEF Normalized
  <2>2. Clean(type) = {"url"}
    BY <1>4 DEF Clean
  <2>3. QED
    BY <1>1, <1>2, <1>3, <2>1, <2>2 DEF NormalizeUrl, Forms
<1>5. CASE type = "route"
  <2>1. Normalized(type, v) = NormalizeRoute(v)
    BY <1>5 DEF Normalized
  <2>2. Clean(type) = {"path"}
    BY <1>5 DEF Clean
  <2>3. QED
    BY <1>1, <1>2, <2>1, <2>2 DEF NormalizeRoute
<1>6. CASE type \notin {"url", "route"}
  <2>1. Normalized(type, v) = NormalizeOpaque(v)
    BY <1>6 DEF Normalized
  <2>2. Clean(type) = {"word", "node", "hyphen", "path", "url", "fragment"}
    BY <1>6 DEF Clean
  <2>3. QED
    BY <1>1, <1>2, <1>3, <2>1, <2>2 DEF NormalizeOpaque, Forms
<1>7. QED
  BY <1>4, <1>5, <1>6

\* The rule the editor built of what was typed, once the database took it.
LEMMA BuildFacts ==
  ASSUME NEW type, NEW values \in Seq(Value), NEW snapshot,
         HasRule(BuildRule(type, values)), SqlPublishable(BuildRule(type, values), snapshot)
  PROVE  /\ BuiltRule(BuildRule(type, values))
         /\ BuildRule(type, values).type = type /\ type \in V2Types
         /\ \A v \in ToSet(values) : /\ Normalized(type, v) \in ToSet(BuildRule(type, values).values)
                                     /\ Normalized(type, v) # Rejected
<1> DEFINE normal == [i \in DOMAIN values |-> Normalized(type, values[i])]
           rule == BuildRule(type, values)
<1>1. /\ type \in V2Types /\ values # <<>> /\ Rejected \notin ToSet(normal)
      /\ rule = [version |-> 2, type |-> type, values |-> Distinct(normal)]
  BY DEF BuildRule, HasRule
<1>2. DOMAIN values = 1 .. Len(values) /\ Len(values) \in Nat
  BY LenProperties
<1>3. \A i \in DOMAIN values : values[i] \in Value
  BY <1>2, ElementOfSeq
<1>4. \A i \in DOMAIN values : normal[i] # Rejected /\ normal[i] \in ToSet(normal)
  BY <1>1 DEF ToSet
<1>5. \A i \in DOMAIN values :
        normal[i] \in Value /\ normal[i].form \in Clean(type) \cup {"hugeurl"}
  BY <1>1, <1>3, <1>4, NormalizedFacts
<1>6. normal \in Seq(Value) /\ normal # <<>>
  <2>1. normal \in [1 .. Len(values) -> Value]
    BY <1>2, <1>5
  <2>2. normal \in Seq(Value) /\ Len(normal) = Len(values)
    BY <1>2, <2>1
  <2>3. Len(values) # 0
    BY <1>1, EmptySeq
  <2>4. QED
    BY <2>2, <2>3, EmptySeq
<1> HIDE DEF normal
<1>7. /\ Distinct(normal) \in Seq(Value) /\ Distinct(normal) # <<>>
      /\ ToSet(Distinct(normal)) = ToSet(normal)
      /\ IsInjective(Distinct(normal))
  BY <1>6, DistinctFacts
<1>8. rule.version = 2 /\ rule.type = type /\ rule.values = Distinct(normal)
  BY <1>1
<1>9. DOMAIN normal = DOMAIN values
  BY DEF normal
<1>10. \A v \in ToSet(rule.values) : v.form \in Clean(type) \cup {"hugeurl"}
  <2>1. \A v \in ToSet(normal) : \E i \in DOMAIN values : v = normal[i]
    BY <1>9 DEF ToSet
  <2>2. \A v \in ToSet(normal) : v.form \in Clean(type) \cup {"hugeurl"}
    BY <1>5, <2>1
  <2>3. QED
    BY <1>7, <1>8, <2>2
<1>11. \A v \in ToSet(rule.values) : v.form # "hugeurl"
  <2>1. ToSet(SqlValues(rule)) # {}
    BY DEF SqlPublishable
  <2>2. SqlValues(rule) # <<>>
    <3>1. ToSet(<<>>) = {}
      BY DEF ToSet
    <3>2. QED
      BY <2>1, <3>1
  <2>3. \A v \in ToSet(Trimmed(rule.values)) : v.form \notin {"blank", "hugeurl"}
    BY <2>2 DEF SqlValues, Trimmed
  <2>4. \A v \in ToSet(rule.values) : v.form # "padded"
    BY <1>10 DEF Clean
  <2>5. Trimmed(rule.values) = rule.values
    BY <1>7, <1>8, <2>4, NothingToTrim
  <2>6. QED
    BY <2>3, <2>5
<1>12. BuiltRule(rule)
  <2>1. rule = [version |-> 2, type |-> rule.type, values |-> rule.values]
    BY <1>1, <1>8
  <2>2. \A v \in ToSet(rule.values) : v.form \in Clean(rule.type)
    BY <1>8, <1>10, <1>11
  <2>3. QED
    BY <1>1, <1>7, <1>8, <2>1, <2>2 DEF BuiltRule
<1>13. \A v \in ToSet(values) : Normalized(type, v) \in ToSet(rule.values) /\ Normalized(type, v) # Rejected
  <2>1. \A i \in DOMAIN values : normal[i] = Normalized(type, values[i])
    BY DEF normal
  <2>2. \A v \in ToSet(values) : \E i \in DOMAIN values : v = values[i]
    BY DEF ToSet
  <2>3. \A v \in ToSet(values) : Normalized(type, v) \in ToSet(normal) /\ Normalized(type, v) # Rejected
    BY <1>4, <2>1, <2>2
  <2>4. ToSet(rule.values) = ToSet(normal)
    BY <1>7, <1>8
  <2>5. QED
    BY <2>3, <2>4
<1>14. QED
  BY <1>1, <1>8, <1>12, <1>13

\* What the preview parses of a stored rule is the rule itself.
LEMMA SettledRuleParsed ==
  ASSUME NEW rule, SettledRule(rule)
  PROVE  ParseStored(rule) = rule
<1>1. CASE BuiltRule(rule)
  <2>1. ParseStored(rule) = BuildRule(rule.type, rule.values)
    BY <1>1 DEF ParseStored, BuiltRule, V2Types, V1Type
  <2> DEFINE normal == [i \in DOMAIN rule.values |-> Normalized(rule.type, rule.values[i])]
  <2>2. rule.values \in [1 .. Len(rule.values) -> Value] /\ DOMAIN rule.values = 1 .. Len(rule.values)
    BY <1>1, LenProperties DEF BuiltRule
  <2>3. \A i \in DOMAIN rule.values : rule.values[i] \in Value /\ rule.values[i].form \in Clean(rule.type)
    BY <1>1, <2>2 DEF BuiltRule, ToSet
  <2>4. \A i \in DOMAIN rule.values : Normalized(rule.type, rule.values[i]) = rule.values[i]
    BY <1>1, <2>3, NormalizedFacts DEF BuiltRule
  <2>5. normal = rule.values
    BY <2>2, <2>4
  <2>6. Rejected \notin ToSet(normal)
    <3>1. \A v \in Value : Rejected # v
      BY DEF Rejected, Value, Forms
    <3>2. QED
      BY <2>3, <2>5, <3>1 DEF ToSet
  <2>7. Distinct(normal) = rule.values
    BY <1>1, <2>5, DistinctOfInjective DEF BuiltRule
  <2>8. BuildRule(rule.type, rule.values) = [version |-> 2, type |-> rule.type, values |-> Distinct(normal)]
    BY <1>1, <2>6 DEF BuildRule, BuiltRule
  <2>9. QED
    BY <1>1, <2>1, <2>7, <2>8 DEF BuiltRule
<1>2. CASE MappedRule(rule)
  <2>1. Trimmed(rule.values) = rule.values
    BY <1>2, NothingToTrim DEF MappedRule
  <2>2. ParseStored(rule) = IF /\ Trimmed(rule.values) # <<>>
                               /\ \A v \in ToSet(Trimmed(rule.values)) : v.form # "blank"
                               /\ IsInjective(Trimmed(rule.values))
                            THEN [rule EXCEPT !.values = Trimmed(rule.values)] ELSE NoRule
    BY <1>2 DEF ParseStored, Trimmed, MappedRule
  <2>3. ParseStored(rule) = [rule EXCEPT !.values = rule.values]
    BY <1>2, <2>1, <2>2 DEF MappedRule
  <2>4. rule = [version |-> 1, type |-> V1Type, values |-> rule.values]
    BY <1>2 DEF MappedRule
  <2> DEFINE values == rule.values
  <2>5. [rule EXCEPT !.values = values] = rule
    <3>1. [[version |-> 1, type |-> V1Type, values |-> values] EXCEPT !.values = values]
             = [version |-> 1, type |-> V1Type, values |-> values]
      OBVIOUS
    <3>2. QED
      BY <2>4, <3>1
  <2>6. QED
    BY <2>3, <2>5
<1>3. QED
  BY <1>1, <1>2 DEF SettledRule

\* The gate and the preview ask the same of a target that states all there is
\* to ask, for a stored rule.
LEMMA SettledRuleSupported ==
  ASSUME NEW rule, SettledRule(rule), NEW snapshot, StatesAll(snapshot)
  PROVE  SqlPublishable(rule, snapshot) <=> Supported(rule, snapshot)
<1> DEFINE measured == snapshot.provider # "figma_prototype" /\ snapshot.instrumentation = "Available"
<1>0. /\ SqlMayBe(snapshot.screen) <=> snapshot.screen = "Available"
      /\ SqlMayBe(snapshot.instrumentation) <=> snapshot.instrumentation = "Available"
      /\ SqlMayBe(snapshot.pointer) <=> snapshot.pointer = "Available"
  BY DEF StatesAll, SqlMayBe
<1>1. SqlValues(rule) = rule.values /\ ToSet(rule.values) # {}
  BY SettledRuleRead
<1>2. CASE MappedRule(rule)
  <2>1. rule.type = V1Type /\ \A v \in ToSet(rule.values) : v.form = "node"
    BY <1>2 DEF MappedRule
  <2>2. SqlPublishable(rule, snapshot) <=>
          snapshot.provider = "figma_prototype" /\ snapshot.screen = "Available"
    BY <1>0, <1>1, <2>1 DEF SqlPublishable, V1Type
  <2>3. QED
    BY <2>1, <2>2 DEF Supported
<1>3. CASE BuiltRule(rule)
  <2>1. rule.version = 2 /\ rule.type \in V2Types /\ rule.type # V1Type
    BY <1>3 DEF BuiltRule, V2Types, V1Type
  <2>2. Supported(rule, snapshot) <=> rule.type \in AvailableTypes(snapshot)
    BY <2>1 DEF Supported
  <2>3. CASE rule.type = "screen"
    <3>1. SqlPublishable(rule, snapshot) <=> snapshot.screen = "Available"
      BY <1>0, <1>1, <2>1, <2>3 DEF SqlPublishable
    <3>2. rule.type \in AvailableTypes(snapshot) <=> snapshot.screen = "Available"
      BY <2>3 DEF AvailableTypes
    <3>3. QED
      BY <2>2, <3>1, <3>2
  <2>4. CASE rule.type = "url"
    <3>1. \A v \in ToSet(rule.values) : v.form = "url"
      BY <1>3, <2>4 DEF BuiltRule, Clean
    <3>2. SqlPublishable(rule, snapshot) <=> measured
      BY <1>0, <1>1, <2>1, <2>4, <3>1 DEF SqlPublishable
    <3>3. rule.type \in AvailableTypes(snapshot) <=> measured
      BY <2>4 DEF AvailableTypes
    <3>4. QED
      BY <2>2, <3>2, <3>3
  <2>5. CASE rule.type = "route"
    <3>1. \A v \in ToSet(rule.values) : v.form = "path"
      BY <1>3, <2>5 DEF BuiltRule, Clean
    <3>2. SqlPublishable(rule, snapshot) <=> measured
      BY <1>0, <1>1, <2>1, <2>5, <3>1 DEF SqlPublishable
    <3>3. rule.type \in AvailableTypes(snapshot) <=> measured
      BY <2>5 DEF AvailableTypes
    <3>4. QED
      BY <2>2, <3>2, <3>3
  <2>6. CASE rule.type = "element"
    <3>1. SqlPublishable(rule, snapshot) <=> measured /\ snapshot.pointer = "Available"
      BY <1>0, <1>1, <2>1, <2>6 DEF SqlPublishable
    <3>2. rule.type \in AvailableTypes(snapshot) <=> measured /\ snapshot.pointer = "Available"
      BY <2>6 DEF AvailableTypes
    <3>3. QED
      BY <2>2, <3>1, <3>2
  <2>7. CASE rule.type = "completion_signal"
    <3>1. SqlPublishable(rule, snapshot) <=> measured
      BY <1>0, <1>1, <2>1, <2>7 DEF SqlPublishable
    <3>2. rule.type \in AvailableTypes(snapshot) <=> measured
      BY <2>7 DEF AvailableTypes
    <3>3. QED
      BY <2>2, <3>1, <3>2
  <2>8. QED
    BY <2>1, <2>3, <2>4, <2>5, <2>6, <2>7 DEF V2Types
<1>4. QED
  BY <1>2, <1>3 DEF SettledRule

\* The rule the frame mapping makes of the values that were typed.
LEMMA MappedFacts ==
  ASSUME NEW values \in Seq(Value), NodeIds(values) # <<>>
  PROVE  MappedRule([version |-> 1, type |-> V1Type, values |-> NodeIds(values)])
<1> DEFINE ids == [i \in DOMAIN values |-> CanonicalNode(values[i])]
<1>1. DOMAIN values = 1 .. Len(values) /\ Len(values) \in Nat
  BY LenProperties
<1>2. Rejected \notin ToSet(ids) /\ IsInjective(ids) /\ NodeIds(values) = ids
  BY DEF NodeIds
<1>3. \A i \in DOMAIN values : ids[i] \in Value /\ ids[i].form = "node"
  <2>1. TAKE i \in DOMAIN values
  <2>2. values[i] \in Value
    BY <1>1, ElementOfSeq
  <2>3. ids[i] # Rejected
    BY <1>2 DEF ToSet
  <2>4. ids[i] = Written(values[i], "node")
    BY <2>3 DEF CanonicalNode
  <2>5. QED
    BY <2>2, <2>4 DEF Written, Value, Forms
<1>4. ids \in Seq(Value)
  BY <1>1, <1>3
<1> HIDE DEF ids
<1>5. DOMAIN ids = DOMAIN values
  BY DEF ids
<1>6. \A v \in ToSet(ids) : v.form = "node"
  BY <1>3, <1>5 DEF ToSet
<1>7. QED
  BY <1>2, <1>4, <1>6 DEF MappedRule

-----------------------------------------------------------------------------
(* The invariant. *)

NoRules == [success |-> NoRule, failure |-> NoRule]

\* Stored are no rules, or two that were saved together; a V2 rule is the one
\* the editor built of what was typed.
StoredRules ==
  \/ stored = NoRules
  \/ /\ stored = [success |-> stored.success, failure |-> stored.failure]
     /\ SettledRule(stored.success) /\ SettledRule(stored.failure)
     /\ \/ MappedRule(stored.success)
        \/ /\ stored.success.type = typed.success.type
           /\ \A v \in ToSet(typed.success.values) :
                /\ Normalized(typed.success.type, v) \in ToSet(stored.success.values)
                /\ Normalized(typed.success.type, v) # Rejected

AuthoringInvariant ==
  /\ typed \in [success : TypedRules, failure : TypedRules]
  /\ target \in Imports \cup Backfills
  /\ phase \in {"draft", "published"}
  /\ refused \in {"nobody", "editor", "database"}
  /\ StoredRules
  /\ phase = "published" => PublishGate

\* What was typed is a list of values for each of the two rules.
LEMMA TypedFacts ==
  ASSUME typed \in [success : TypedRules, failure : TypedRules]
  PROVE  typed.success.values \in Seq(Value) /\ typed.failure.values \in Seq(Value)
BY AuthoringAssumption

\* It holds of a new task, and every request of the builder keeps it.
LEMMA AuthoringInitial == AuthoringInit => AuthoringInvariant
<1>1. ASSUME AuthoringInit PROVE AuthoringInvariant
  <2>1. stored = NoRules /\ phase # "published"
    BY <1>1 DEF AuthoringInit, NoRules
  <2>2. QED
    BY <1>1, <2>1 DEF AuthoringInit, AuthoringInvariant, StoredRules
<1>2. QED
  BY <1>1

LEMMA AuthoringStep ==
  AuthoringInvariant /\ [AuthoringNext]_authoringVars => AuthoringInvariant'
<1> SUFFICES ASSUME AuthoringInvariant, [AuthoringNext]_authoringVars
             PROVE  AuthoringInvariant'
  OBVIOUS
<1>1. CASE SaveTaskRules
  <2> DEFINE success == BuildRule(typed.success.type, typed.success.values)
             failure == BuildRule(typed.failure.type, typed.failure.values)
  <2>1. UNCHANGED <<typed, target, phase>> /\ phase = "draft" /\ refused' \in {"nobody", "editor", "database"}
    BY <1>1 DEF SaveTaskRules
  <2>2. \/ UNCHANGED stored
        \/ /\ stored' = [success |-> success, failure |-> failure]
           /\ HasRule(success) /\ HasRule(failure) /\ DatabaseAccepts(success, failure)
    BY <1>1 DEF SaveTaskRules
  <2>3. CASE UNCHANGED stored
    <3>1. StoredRules'
      BY <2>1, <2>3 DEF AuthoringInvariant, StoredRules
    <3>2. QED
      BY <2>1, <3>1 DEF AuthoringInvariant
  <2>4. CASE /\ stored' = [success |-> success, failure |-> failure]
             /\ HasRule(success) /\ HasRule(failure) /\ DatabaseAccepts(success, failure)
    <3>1. typed.success.values \in Seq(Value) /\ typed.failure.values \in Seq(Value)
      BY TypedFacts DEF AuthoringInvariant
    <3>2. SqlPublishable(success, target.snapshot) /\ SqlPublishable(failure, target.snapshot)
      BY <2>4 DEF DatabaseAccepts
    <3>3. /\ BuiltRule(success)
          /\ success.type = typed.success.type
          /\ \A v \in ToSet(typed.success.values) :
               /\ Normalized(typed.success.type, v) \in ToSet(success.values)
               /\ Normalized(typed.success.type, v) # Rejected
      BY <2>4, <3>1, <3>2, BuildFacts
    <3>4. BuiltRule(failure)
      BY <2>4, <3>1, <3>2, BuildFacts
    <3> HIDE DEF success, failure
    <3>5. stored'.success = success /\ stored'.failure = failure
      BY <2>4
    <3>6. SettledRule(success) /\ SettledRule(failure)
      BY <3>3, <3>4 DEF SettledRule
    <3>7. StoredRules'
      BY <2>1, <2>4, <3>3, <3>5, <3>6 DEF StoredRules
    <3>8. QED
      BY <2>1, <3>7 DEF AuthoringInvariant
  <2>5. QED
    BY <2>2, <2>3, <2>4
<1>2. CASE SaveTaskMapping
  <2> DEFINE success == [version |-> 1, type |-> V1Type, values |-> NodeIds(typed.success.values)]
             failure == [version |-> 1, type |-> V1Type, values |-> NodeIds(typed.failure.values)]
  <2>1. /\ UNCHANGED <<typed, target, phase, refused>> /\ phase = "draft"
        /\ NodeIds(typed.success.values) # <<>> /\ NodeIds(typed.failure.values) # <<>>
        /\ stored' = [success |-> success, failure |-> failure]
    BY <1>2 DEF SaveTaskMapping
  <2>2. typed.success.values \in Seq(Value) /\ typed.failure.values \in Seq(Value)
    BY TypedFacts DEF AuthoringInvariant
  <2>3. MappedRule(success) /\ MappedRule(failure)
    BY <2>1, <2>2, MappedFacts
  <2> HIDE DEF success, failure
  <2>4. stored'.success = success /\ stored'.failure = failure
    BY <2>1
  <2>5. StoredRules'
    BY <2>1, <2>3, <2>4 DEF StoredRules, SettledRule
  <2>6. QED
    BY <2>1, <2>5 DEF AuthoringInvariant
<1>3. ASSUME NEW snapshot \in Snapshots, ChangeTarget(snapshot)
      PROVE  AuthoringInvariant'
  <2>1. phase = "draft" /\ target' \in Imports /\ UNCHANGED <<typed, stored, phase, refused>>
    BY <1>3 DEF ChangeTarget, Imports
  <2>2. StoredRules'
    BY <2>1 DEF AuthoringInvariant, StoredRules
  <2>3. QED
    BY <2>1, <2>2 DEF AuthoringInvariant
<1>4. CASE PublishTask
  <2>1. PublishGate /\ phase' = "published" /\ UNCHANGED <<typed, target, stored, refused>>
    BY <1>4 DEF PublishTask
  <2>2. StoredRules' /\ PublishGate'
    BY <2>1 DEF AuthoringInvariant, StoredRules, PublishGate
  <2>3. QED
    BY <2>1, <2>2 DEF AuthoringInvariant
<1>5. CASE UNCHANGED authoringVars
  <2>1. UNCHANGED <<typed, target, stored, phase, refused>>
    BY <1>5 DEF authoringVars
  <2>2. StoredRules' /\ (PublishGate' <=> PublishGate)
    BY <2>1 DEF AuthoringInvariant, StoredRules, PublishGate
  <2>3. QED
    BY <2>1, <2>2 DEF AuthoringInvariant
<1>6. QED
  BY <1>1, <1>2, <1>3, <1>4, <1>5 DEF AuthoringNext

\* Whatever is typed, saved, mapped and retargeted, the stored rules are those
\* the editor or the mapping built, and a published task passed the gate.
THEOREM AuthoringInvariantHolds == AuthoringSpec => []AuthoringInvariant
BY AuthoringInitial, AuthoringStep, PTL DEF AuthoringSpec

\* The type invariant of the run.
THEOREM AuthoringTypeCorrect == AuthoringSpec => []AuthoringTypeOK
<1>1. AuthoringInvariant => AuthoringTypeOK
  <2> SUFFICES ASSUME AuthoringInvariant PROVE AuthoringTypeOK
    OBVIOUS
  <2>1. NoRule.values \in Seq(Value)
    BY DEF NoRule
  <2>2. stored.success.values \in Seq(Value) /\ stored.failure.values \in Seq(Value)
    BY <2>1 DEF AuthoringInvariant, StoredRules, NoRules, SettledRule, BuiltRule, MappedRule
  <2>3. QED
    BY <2>2 DEF AuthoringInvariant, AuthoringTypeOK
<1>2. QED
  BY <1>1, AuthoringInvariantHolds, PTL

\* No event at all satisfies two rules that do not conflict.
LEMMA NoConflictNoDoubleVerdict ==
  ASSUME NEW success, NEW failure, ~SqlConflict(success, failure), NEW event
  PROVE  ~(SqlMatches(success, event) /\ SqlMatches(failure, event))
<1> SUFFICES ASSUME SqlMatches(success, event), SqlMatches(failure, event) PROVE FALSE
  OBVIOUS
<1>1. EventChannel(success.type) = EventChannel(failure.type)
  BY DEF SqlMatches
<1>2. /\ success.type = failure.type \/ (ScreenDomain(success.type) /\ ScreenDomain(failure.type))
      /\ ToSet(SqlValues(success)) \cap ToSet(SqlValues(failure)) = {}
  BY <1>1 DEF SqlConflict
<1>3. Candidate(success.type, event) = Candidate(failure.type, event)
  <2>1. CASE success.type = failure.type
    BY <2>1
  <2>2. CASE ScreenDomain(success.type) /\ ScreenDomain(failure.type)
    <3>1. Candidate(success.type, event) = event.screen
      BY <2>2 DEF Candidate, ScreenDomain, V1Type
    <3>2. Candidate(failure.type, event) = event.screen
      BY <2>2 DEF Candidate, ScreenDomain, V1Type
    <3>3. QED
      BY <3>1, <3>2
  <2>3. QED
    BY <1>2, <2>1, <2>2
<1>4. QED
  BY <1>2, <1>3 DEF SqlMatches

\* What the run checks for the events that two named values make together:
\* no such event satisfies both rules of a published task.
THEOREM OneVerdictHolds == AuthoringSpec => []OneVerdict
<1>1. AuthoringInvariant => OneVerdict
  <2> SUFFICES ASSUME AuthoringInvariant, phase = "published" PROVE OneVerdict
    BY DEF OneVerdict
  <2>1. ~SqlConflict(stored.success, stored.failure)
    BY DEF AuthoringInvariant, PublishGate
  <2>2. \A event : ~(SqlMatches(stored.success, event) /\ SqlMatches(stored.failure, event))
    BY <2>1, NoConflictNoDoubleVerdict
  <2>3. QED
    BY <2>2, Zenon DEF OneVerdict
<1>2. QED
  BY <1>1, AuthoringInvariantHolds, PTL

\* The same of every event the collector can store: the order in which the
\* trigger asks for failure and success never matters.
THEOREM NoEventDecidesTwice ==
  AuthoringSpec => [](phase = "published" =>
    \A event \in RawEvent : ~(SqlMatches(stored.success, event) /\ SqlMatches(stored.failure, event)))
<1>1. AuthoringInvariant => (phase = "published" =>
        \A event \in RawEvent : ~(SqlMatches(stored.success, event) /\ SqlMatches(stored.failure, event)))
  BY NoConflictNoDoubleVerdict DEF AuthoringInvariant, PublishGate
<1>2. QED
  BY <1>1, AuthoringInvariantHolds, PTL

\* What the preview supports the gate lets pass, whatever of the target is not
\* stated: a capability the preview finds Available is Available or not stated
\* in the snapshot.
LEMMA SupportPasses ==
  ASSUME NEW rule, SettledRule(rule), NEW shown, NEW snapshot,
         Supported(rule, shown),
         \/ snapshot = shown /\ StatesAll(shown)
         \/ shown.provider = "figma_prototype" /\ snapshot = Unstated
  PROVE  SqlPublishable(rule, snapshot)
<1>1. CASE snapshot = shown /\ StatesAll(shown)
  BY <1>1, SettledRuleSupported
<1>2. CASE shown.provider = "figma_prototype" /\ snapshot = Unstated
  <2>1. SqlValues(rule) = rule.values /\ ToSet(rule.values) # {}
    BY SettledRuleRead
  <2>2. snapshot.provider = "figma_prototype" /\ SqlMayBe(snapshot.screen)
    BY <1>2 DEF Unstated, NoTarget, SqlMayBe
  <2>3. CASE MappedRule(rule)
    <3>1. rule.type = V1Type /\ \A v \in ToSet(rule.values) : v.form = "node"
      BY <2>3 DEF MappedRule
    <3>2. QED
      BY <2>1, <2>2, <3>1 DEF SqlPublishable
  <2>4. CASE BuiltRule(rule)
    <3>1. rule.version = 2 /\ rule.type # V1Type
      BY <2>4 DEF BuiltRule, V2Types, V1Type
    <3>2. rule.type = "screen"
      BY <1>2, <3>1 DEF Supported, AvailableTypes
    <3>3. QED
      BY <2>1, <2>2, <3>1, <3>2 DEF SqlPublishable
  <2>5. QED
    BY <2>3, <2>4 DEF SettledRule
<1>3. QED
  BY <1>1, <1>2

\* The preview judges an imported target by its snapshot.
LEMMA ImportedTargets ==
  ASSUME target \in Imports \cup Backfills, target.environment = TRUE
  PROVE  /\ PreviewTarget = target.snapshot /\ StatesAll(target.snapshot)
         /\ target.snapshot # NoTarget
<1>1. target \in Imports
  BY DEF Backfills, Backfilled
<1>2. PICK snapshot \in Snapshots : target = Imported(snapshot)
  BY <1>1 DEF Imports
<1>3. target.snapshot = snapshot
  BY <1>2 DEF Imported
<1>4. StatesAll(snapshot)
  BY AuthoringAssumption
<1>5. QED
  BY <1>3, <1>4 DEF PreviewTarget, StatesAll, NoTarget

\* The snapshot a preview judges by is the one the gate reads, or stands for one
\* of MT-03 that states nothing.
LEMMA PreviewTargets ==
  ASSUME target \in Imports \cup Backfills, PreviewTarget # NoTarget
  PROVE  \/ PreviewTarget = target.snapshot /\ StatesAll(target.snapshot)
         \/ /\ PreviewTarget = [Unstated EXCEPT !.screen = "Available"]
            /\ target.snapshot = Unstated
<1>1. CASE target \in Imports
  <2>1. target.environment = TRUE
    BY <1>1 DEF Imports, Imported
  <2>2. QED
    BY <2>1, ImportedTargets
<1>2. CASE target \in Backfills
  <2>1. PICK mapping \in Mappings, startNode \in BOOLEAN : target = Backfilled(mapping, startNode)
    BY <1>2 DEF Backfills
  <2>2. /\ target.environment = FALSE /\ target.startNode = startNode /\ target.mapping = mapping
        /\ target.snapshot = IF mapping = NoTarget THEN Unstated ELSE mapping
    BY <2>1 DEF Backfilled
  <2>3. PreviewTarget = IF mapping = NoTarget THEN [Unstated EXCEPT !.screen = "Available"] ELSE mapping
    BY <2>2 DEF PreviewTarget, LegacyFigmaTarget
  <2>4. mapping # NoTarget => StatesAll(mapping)
    BY AuthoringAssumption
  <2>5. QED
    BY <2>2, <2>3, <2>4
<1>3. QED
  BY <1>1, <1>2

\* A draft the preview shows passes the gate, whatever became of its target and
\* however old it is; and a draft with an imported target that passes is shown,
\* although one side is TypeScript over parsed rules and the other SQL over the
\* stored ones.
THEOREM PreviewIsRight == AuthoringSpec => []PreviewTellsPublishability
<1>1. AuthoringInvariant => PreviewTellsPublishability
  <2> SUFFICES ASSUME AuthoringInvariant
               PROVE  /\ Previewable => PublishGate
                      /\ target.environment => (PublishGate => Previewable)
    BY DEF PreviewTellsPublishability
  <2>1. CASE stored = NoRules
    <3>1. stored.success = NoRule /\ stored.failure = NoRule
      BY <2>1 DEF NoRules
    <3>2. ~HasRule(ParseStored(NoRule))
      BY DEF ParseStored, HasRule, NoRule, V1Type
    <3>3. ~Previewable
      BY <3>1, <3>2 DEF Previewable, ValidStored
    <3>4. SqlValues(NoRule) = <<>>
      BY DEF SqlValues, NoRule, V1Type
    <3>5. SqlConflict(NoRule, NoRule)
      BY <3>4 DEF SqlConflict
    <3>6. ~PublishGate
      BY <3>1, <3>5 DEF PublishGate
    <3>7. QED
      BY <3>3, <3>6
  <2>2. CASE SettledRule(stored.success) /\ SettledRule(stored.failure)
    <3> DEFINE success == stored.success
               failure == stored.failure
    <3>1. ParseStored(success) = success /\ ParseStored(failure) = failure
      BY <2>2, SettledRuleParsed
    <3>2. /\ SqlValues(success) = success.values /\ success.values # <<>> /\ HasRule(success)
          /\ SqlValues(failure) = failure.values /\ failure.values # <<>> /\ HasRule(failure)
      BY <2>2, SettledRuleRead
    <3>3. SqlConflict(success, failure) <=> RulesConflict(success, failure)
      BY <3>2 DEF SqlConflict, RulesConflict
    <3>4. target \in Imports \cup Backfills
      BY DEF AuthoringInvariant
    <3>5. ASSUME Previewable PROVE PublishGate
      <4>1. /\ PreviewTarget # NoTarget /\ ~PreviewTarget.publishBlocked
            /\ Supported(success, PreviewTarget) /\ Supported(failure, PreviewTarget)
            /\ ~RulesConflict(success, failure)
        BY <3>1, <3>5 DEF Previewable, ValidStored
      <4>2. \/ PreviewTarget = target.snapshot /\ StatesAll(target.snapshot)
            \/ /\ PreviewTarget = [Unstated EXCEPT !.screen = "Available"]
               /\ target.snapshot = Unstated
        BY <3>4, <4>1, PreviewTargets
      <4>3. ~target.snapshot.publishBlocked
        BY <4>1, <4>2 DEF Unstated, NoTarget
      <4>4. \/ target.snapshot = PreviewTarget /\ StatesAll(PreviewTarget)
            \/ PreviewTarget.provider = "figma_prototype" /\ target.snapshot = Unstated
        BY <4>2 DEF Unstated, NoTarget
      <4>5. SqlPublishable(success, target.snapshot) /\ SqlPublishable(failure, target.snapshot)
        BY <2>2, <4>1, <4>4, SupportPasses
      <4>6. QED
        BY <3>3, <4>1, <4>3, <4>5 DEF PublishGate
    <3>6. ASSUME target.environment, PublishGate PROVE Previewable
      <4>1. target.environment = TRUE
        BY <3>4, <3>6 DEF Imports, Imported, Backfills, Backfilled
      <4>2. PreviewTarget = target.snapshot /\ StatesAll(target.snapshot) /\ target.snapshot # NoTarget
        BY <3>4, <4>1, ImportedTargets
      <4>3. Supported(success, target.snapshot) /\ Supported(failure, target.snapshot)
        BY <2>2, <3>6, <4>2, SettledRuleSupported DEF PublishGate
      <4>4. QED
        BY <3>1, <3>2, <3>3, <3>6, <4>2, <4>3 DEF PublishGate, Previewable, ValidStored
    <3>7. QED
      BY <3>5, <3>6
  <2>3. QED
    BY <2>1, <2>2 DEF AuthoringInvariant, StoredRules
<1>2. QED
  BY <1>1, AuthoringInvariantHolds, PTL

\* On a web target, what the page reports for a value is what the editor made
\* of the value.
LEMMA ReportedIsNormalized ==
  ASSUME target.snapshot.provider # "figma_prototype",
         NEW type \in V2Types \ {"element"}, NEW v \in Value, Normalized(type, v) # Rejected
  PROVE  Reported(type, v) = Normalized(type, v)
<1>1. v.form \in Forms
  BY DEF Value
<1>2. CASE type = "url"
  <2>1. Normalized(type, v) = IF v.form = "fragment" THEN Written(v, "url") ELSE v
    BY <1>1, <1>2 DEF Normalized, NormalizeUrl
  <2>2. QED
    BY <1>2, <2>1 DEF Reported
<1>3. CASE type = "route"
  <2>1. Normalized(type, v) = v /\ v.form = "path"
    BY <1>3 DEF Normalized, NormalizeRoute
  <2>2. QED
    BY <1>3, <2>1 DEF Reported
<1>4. CASE type \in {"screen", "completion_signal"}
  <2>1. Normalized(type, v) = IF v.form = "padded" THEN Written(v, "word") ELSE v
    BY <1>1, <1>4 DEF Normalized, NormalizeOpaque
  <2>2. QED
    BY <1>4, <2>1 DEF Reported
<1>5. QED
  BY <1>2, <1>3, <1>4 DEF V2Types

\* Every value typed for the success of a published web task decides the task
\* when the page reports it.
THEOREM WebRuleFiresHolds == AuthoringSpec => []WebRuleFires
<1>1. AuthoringInvariant => WebRuleFires
  <2> SUFFICES ASSUME AuthoringInvariant, phase = "published",
                      target.snapshot.provider # "figma_prototype", typed.success.type # "element",
                      NEW v \in ToSet(typed.success.values)
               PROVE  SqlMatches(stored.success, EvidenceOf(stored.success.type, v))
    BY DEF WebRuleFires
  <2> DEFINE rule == stored.success
  <2>1. SqlPublishable(rule, target.snapshot)
    BY DEF AuthoringInvariant, PublishGate
  <2>2. rule # NoRule
    <3>1. SqlValues(NoRule) = <<>>
      BY DEF SqlValues, NoRule, V1Type
    <3>2. ToSet(<<>>) = {}
      BY DEF ToSet
    <3>3. QED
      BY <2>1, <3>1, <3>2 DEF SqlPublishable
  <2>3. rule.type # V1Type
    BY <2>1 DEF SqlPublishable, V1Type
  <2>4. /\ SettledRule(rule)
        /\ rule.type = typed.success.type
        /\ Normalized(rule.type, v) \in ToSet(rule.values) /\ Normalized(rule.type, v) # Rejected
    BY <2>2, <2>3 DEF AuthoringInvariant, StoredRules, NoRules, MappedRule
  <2>5. SqlValues(rule) = rule.values /\ rule.values # <<>> /\ rule.type \in V2Types \ {"element"}
    BY <2>3, <2>4, SettledRuleRead
  <2>6. v \in Value
    <3>1. typed.success.values \in Seq(Value)
      BY TypedFacts DEF AuthoringInvariant
    <3>2. QED
      BY <3>1, ElementOfSeq, LenProperties DEF ToSet
  <2>7. Reported(rule.type, v) = Normalized(rule.type, v)
    BY <2>4, <2>5, <2>6, ReportedIsNormalized
  <2> DEFINE event == EvidenceOf(rule.type, v)
  <2>8. event.name = EventChannel(rule.type) /\ Candidate(rule.type, event) = Reported(rule.type, v)
    <3>1. CASE rule.type = "screen"
      BY <3>1 DEF EvidenceOf, NoEvidence, Candidate
    <3>2. CASE rule.type = "url"
      BY <3>2 DEF EvidenceOf, NoEvidence, Candidate, V1Type
    <3>3. CASE rule.type = "route"
      BY <3>3 DEF EvidenceOf, NoEvidence, Candidate, V1Type
    <3>4. CASE rule.type = "completion_signal"
      BY <3>4 DEF EvidenceOf, NoEvidence, Candidate, V1Type
    <3>5. QED
      BY <2>5, <3>1, <3>2, <3>3, <3>4 DEF V2Types
  <2>9. QED
    BY <2>4, <2>5, <2>7, <2>8 DEF SqlMatches
<1>2. QED
  BY <1>1, AuthoringInvariantHolds, PTL
=============================================================================
