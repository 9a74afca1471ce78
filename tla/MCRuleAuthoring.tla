--------------------------- MODULE MCRuleAuthoring ---------------------------
(* Instances of RuleAuthoring for TLC. *)
EXTENDS RuleAuthoring

V(core, form) == [core |-> core, form |-> form]

\* Every type with a value in every form, the same name written in two ways,
\* and two names in one rule.
WebLists ==
  { <<V("a", form)>> : form \in Forms \ {"hyphen"} } \cup
  { <<V("b", "word")>>, <<V("b", "hyphen")>>, <<V("b", "url")>>, <<V("b", "path")>>, <<V("a", "word"), V("a", "padded")>>,
    <<V("a", "url"), V("a", "fragment")>>, <<V("a", "node"), V("b", "node")>> }
AllRules == { [type |-> type, values |-> values] : type \in V2Types, values \in WebLists }

Snap(provider, screen, instrumentation, pointer, blocked) ==
  [provider |-> provider, screen |-> screen, instrumentation |-> instrumentation,
   pointer |-> pointer, publishBlocked |-> blocked]

\* A Figma snapshot from before the preflight, which would block it.
Figma == Snap("figma_prototype", "Available", "Partial", "Available", FALSE)
ApprovedSite == Snap("first_party_web", "Available", "Available", "Available", FALSE)
UncheckedSite == Snap("first_party_web", "Partial", "Partial", "Partial", TRUE)
ForeignSite == Snap("external_web", "Unsupported", "Unsupported", "Unsupported", FALSE)
BridgedSite == Snap("external_web", "Available", "Available", "Available", FALSE)

AllSnapshots == {Figma, ApprovedSite, UncheckedSite, ForeignSite, BridgedSite}

\* The mappings of before MT-03, with and without capabilities.
AllMappings == {NoTarget, Figma}
=============================================================================
