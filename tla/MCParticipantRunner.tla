------------------------- MODULE MCParticipantRunner -------------------------
(* Instances of ParticipantRunner for TLC. *)
EXTENDS ParticipantRunner, TLC
=============================================================================
