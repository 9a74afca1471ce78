------------------------------ MODULE MCGuards ------------------------------
(* Instances of TokenGate and ExecutionLease for TLC: the two functions of *)
(* the database that admit one caller of several.  They share no state, so *)
(* each is explored while the other is at rest.                            *)
EXTENDS TokenGate, ExecutionLease, TLC

VARIABLE explored

GuardsInit == Init /\ LeaseInit /\ explored \in {"gate", "lease"}

ExploreGate == explored = "gate" /\ Next /\ UNCHANGED <<leaseVars, explored>>
ExploreLease == explored = "lease" /\ LeaseNext /\ UNCHANGED <<vars, explored>>

GuardsSpec ==
  GuardsInit /\ [][ExploreGate \/ ExploreLease]_<<vars, leaseVars, explored>>

Alike == Permutations(Tokens) \cup Permutations(Slots) \cup Permutations(Workers)
=============================================================================
