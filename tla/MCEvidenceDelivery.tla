------------------------- MODULE MCEvidenceDelivery -------------------------
(* Instances of EvidenceDelivery for TLC. *)
EXTENDS EvidenceDelivery, TLC

\* Tokens are interchangeable, and no property of a safety run names one.
TokenSymmetry == Permutations(Tokens)

=============================================================================
