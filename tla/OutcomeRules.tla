---------------------------- MODULE OutcomeRules ----------------------------
(***************************************************************************)
(* The terminal rules of a task, as two programs understand them: the      *)
(* TypeScript of lib/builder/task-outcome-rules.ts, which the editor and   *)
(* the publish preview use, and the SQL of migration MT-08, which the      *)
(* save and publish procedures and the derivation trigger use.             *)
(*                                                                         *)
(* A value is a core (what it names) and a form (how it is written); only  *)
(* the forms the two programs treat differently are told apart.            *)
(***************************************************************************)
EXTENDS Naturals, FiniteSets, Sequences, SequencesExt, Positions

CONSTANT Cores  \* what a value may name: screens, pages, elements, signals

V2Types == {"screen", "url", "route", "element", "completion_signal"}
V1Type == "presented_node"

(***************************************************************************)
(* "node" is 12:3, "hyphen" the same node as 12-3, "fragment" a URL with   *)
(* a hash, "padded" a word with spaces around it, "long" is 513 to 1024    *)
(* characters, "hugeurl" a URL of more than 2048.                          *)
(***************************************************************************)
Forms == {"word", "padded", "blank", "long", "node", "hyphen", "path", "url", "fragment", "hugeurl"}
Value == [core : Cores, form : Forms]
Written(v, form) == [v EXCEPT !.form = form]

\* A rule as stored: its contract version, its type and its values in order.
NoRule == [version |-> 0, type |-> "none", values |-> <<>>]
HasRule(rule) == rule # NoRule

Providers == {"figma_prototype", "first_party_web", "external_web"}

\* "unstated" is a key the snapshot does not have: SQL reads a NULL there.
Capability == {"Available", "Partial", "Unsupported", "unstated"}
Snapshot == [provider : Providers, screen : Capability, instrumentation : Capability,
             pointer : Capability, publishBlocked : BOOLEAN]

-----------------------------------------------------------------------------
(* The TypeScript. *)

Rejected == [core |-> "rejected", form |-> "rejected"]

\* (faulty variant) the fragment is kept: new URL(...) without url.hash = "".
NormalizeUrlKeepsHash(v) == IF v.form \in {"url", "fragment", "hugeurl"} THEN v ELSE Rejected

NormalizeUrl(v) ==
  CASE v.form = "fragment" -> Written(v, "url")
    [] v.form \in {"url", "hugeurl"} -> v
    [] OTHER -> Rejected

NormalizeRoute(v) == IF v.form = "path" THEN v ELSE Rejected

NormalizeOpaque(v) ==
  CASE v.form = "padded" -> Written(v, "word")
    [] v.form \in {"blank", "long", "hugeurl"} -> Rejected
    [] OTHER -> v

Normalized(type, v) ==
  CASE type = "url" -> NormalizeUrl(v)
    [] type = "route" -> NormalizeRoute(v)
    [] OTHER -> NormalizeOpaque(v)

\* Repeats of the list are dropped, the first occurrence kept.
Distinct(values) ==
  KeepAt(values, {i \in DOMAIN values : \A j \in 1 .. (i - 1) : values[j] # values[i]})

\* The rule buildTaskOutcomeRule returns, NoRule where it throws.
BuildRule(type, values) ==
  LET normal == [i \in DOMAIN values |-> Normalized(type, values[i])]
  IN  IF type \in V2Types /\ values # <<>> /\ Rejected \notin ToSet(normal)
      THEN [version |-> 2, type |-> type, values |-> Distinct(normal)]
      ELSE NoRule

\* parseStoredTaskOutcomeRule, NoRule where it returns null.
ParseStored(rule) ==
  IF rule.type = V1Type
  THEN LET trimmed == [i \in DOMAIN rule.values |->
                         IF rule.values[i].form = "padded" THEN Written(rule.values[i], "word")
                         ELSE rule.values[i]]
       IN  IF /\ trimmed # <<>>
              /\ \A v \in ToSet(trimmed) : v.form # "blank"
              /\ IsInjective(trimmed)
           THEN [rule EXCEPT !.values = trimmed] ELSE NoRule
  ELSE IF rule.version = 2 THEN BuildRule(rule.type, rule.values) ELSE NoRule

AvailableTypes(target) ==
  LET measured == target.provider # "figma_prototype" /\ target.instrumentation = "Available"
  IN  (IF target.screen = "Available" THEN {"screen"} ELSE {})
      \cup (IF measured THEN {"url", "route", "completion_signal"} ELSE {})
      \cup (IF measured /\ target.pointer = "Available" THEN {"element"} ELSE {})

Supported(rule, target) ==
  IF rule.type = V1Type
  THEN target.provider = "figma_prototype" /\ target.screen = "Available"
  ELSE rule.type \in AvailableTypes(target)

EventChannel(type) ==
  CASE type = "element" -> "pointer_interaction"
    [] type = "completion_signal" -> "completion_signal"
    [] OTHER -> "screen_view"

ScreenDomain(type) == type \in {"screen", V1Type}

RulesConflict(success, failure) ==
  /\ EventChannel(success.type) = EventChannel(failure.type)
  /\ \/ success.type # failure.type /\ ~(ScreenDomain(success.type) /\ ScreenDomain(failure.type))
     \/ ToSet(success.values) \cap ToSet(failure.values) # {}

\* (faulty variant) support is checked for the success rule only.
ValidStoredSuccessOnly(target, successRule, failureRule) ==
  LET success == ParseStored(successRule)
      failure == ParseStored(failureRule)
  IN  /\ HasRule(success) /\ HasRule(failure)
      /\ Supported(success, target)
      /\ ~RulesConflict(success, failure)

\* validateStoredTaskOutcomeRules(...).ok
ValidStored(target, successRule, failureRule) ==
  LET success == ParseStored(successRule)
      failure == ParseStored(failureRule)
  IN  /\ HasRule(success) /\ HasRule(failure)
      /\ Supported(success, target) /\ Supported(failure, target)
      /\ ~RulesConflict(success, failure)

-----------------------------------------------------------------------------
(* The SQL. *)

\* private.task_rule_values: trimmed values in their order, <<>> for null.
SqlValues(rule) ==
  LET trimmed == [i \in DOMAIN rule.values |->
                    IF rule.values[i].form = "padded" THEN Written(rule.values[i], "word")
                    ELSE rule.values[i]]
  IN  IF /\ rule.type = V1Type \/ (rule.version = 2 /\ rule.type \in V2Types)
         /\ \A v \in ToSet(trimmed) : v.form \notin {"blank", "hugeurl"}
         /\ IsInjective(trimmed)
      THEN trimmed ELSE <<>>

\* `capability = 'Available'` is not FALSE: it is NULL where nothing is stated.
SqlMayBe(capability) == capability \in {"Available", "unstated"}

\* private.task_rule_publishable does not return FALSE.  That is what its callers
\* ask, by `not task_rule_publishable(...)`: where NULL decides, they go on.
SqlPublishable(rule, target) ==
  LET values == ToSet(SqlValues(rule))
      measured == target.provider # "figma_prototype" /\ SqlMayBe(target.instrumentation)
  IN  /\ values # {}
      /\ \/ /\ rule.type = V1Type
            /\ target.provider = "figma_prototype" /\ SqlMayBe(target.screen)
            /\ \A v \in values : v.form = "node"
         \/ /\ rule.version = 2
            /\ \/ rule.type = "screen" /\ SqlMayBe(target.screen)
               \/ rule.type = "url" /\ measured /\ \A v \in values : v.form \in {"url", "fragment"}
               \/ rule.type = "route" /\ measured /\ \A v \in values : v.form = "path"
               \/ rule.type = "element" /\ measured /\ SqlMayBe(target.pointer)
               \/ rule.type = "completion_signal" /\ measured

SqlConflict(success, failure) ==
  \/ SqlValues(success) = <<>> \/ SqlValues(failure) = <<>>
  \/ /\ EventChannel(success.type) = EventChannel(failure.type)
     /\ \/ success.type # failure.type /\ ~(ScreenDomain(success.type) /\ ScreenDomain(failure.type))
        \/ ToSet(SqlValues(success)) \cap ToSet(SqlValues(failure)) # {}

(***************************************************************************)
(* What an accepted raw event says, field by field; Absent where it says   *)
(* nothing.  A screen_view may name its screen, its URL and its route.     *)
(***************************************************************************)
Absent == [core |-> "absent", form |-> "absent"]
RawEvent == [name : {"screen_view", "pointer_interaction", "completion_signal"},
             screen : Value \cup {Absent}, url : Value \cup {Absent}, route : Value \cup {Absent},
             element : Value \cup {Absent}, signal : Value \cup {Absent}]

Candidate(type, event) ==
  CASE type \in {"screen", V1Type} -> event.screen
    [] type = "url" -> event.url
    [] type = "route" -> event.route
    [] type = "element" -> event.element
    [] type = "completion_signal" -> event.signal
    [] OTHER -> Absent

\* (faulty variant) the name of the event is not looked at.
SqlMatchesAnyEvent(rule, event) ==
  /\ SqlValues(rule) # <<>>
  /\ Candidate(rule.type, event) \in ToSet(SqlValues(rule))

SqlMatches(rule, event) ==
  /\ SqlValues(rule) # <<>>
  /\ event.name = EventChannel(rule.type)
  /\ Candidate(rule.type, event) \in ToSet(SqlValues(rule))
=============================================================================
