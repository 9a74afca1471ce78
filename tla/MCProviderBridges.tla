-------------------------- MODULE MCProviderBridges --------------------------
(* Instances of ProviderBridges for TLC.                                   *)
EXTENDS ProviderBridges

Sent(kind, screen) == [kind |-> kind, screen |-> screen]

FigmaMessages == {Sent("screen", "item"), Sent("screen", "done"), Sent("state", None),
                  Sent("malformed", None)}
WebMessages == {Sent("screen", "item"), Sent("signal", None), Sent("ready", None)}

\* A Figma target over storage that waits and may refuse its evidence; one
\* that asks for a login, over storage that may refuse anything; and a
\* first-party target, its dialog opened, its tasks given up and timing out,
\* over storage that takes everything.
SlowFigma == [provider |-> "figma", messages |-> FigmaMessages, fails |-> {"external"},
              slow |-> TRUE, dialogs |-> FALSE, ends |-> FALSE]
LoginFigma == [provider |-> "figma", messages |-> {Sent("screen", "done"), Sent("login", None)},
               fails |-> {"start", "end", "external", "block"}, slow |-> FALSE, dialogs |-> FALSE, ends |-> TRUE]
Web == [provider |-> "web", messages |-> WebMessages, fails |-> {},
        slow |-> FALSE, dialogs |-> TRUE, ends |-> TRUE]

Targets == {SlowFigma, LoginFigma, Web}
=============================================================================
