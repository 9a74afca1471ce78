--------------------------- MODULE MCVersionEditing --------------------------
(* Instances of VersionEditing for TLC. *)
EXTENDS VersionEditing, TLC

CONSTANTS c1, c2
TwoClients == {c1, c2}
ClientSymmetry == Permutations(TwoClients)

AllOperations == {"create", "edit", "reorder", "rules", "mapping", "target", "preflight"}
\* While there is a third version, a clone of an edited and published second
\* one, only the procedures of one request run.
ThirdIsQuiet == 3 \in Used => \A c \in Clients : client[c] = Idle

DraftOperations == {"rules", "mapping", "target", "preflight"}
=============================================================================
