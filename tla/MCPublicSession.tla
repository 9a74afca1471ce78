-------------------------- MODULE MCPublicSession --------------------------
(* Instances of PublicSession for TLC: a link and a task for each version. *)
EXTENDS PublicSession, TLC

CONSTANTS t1, t2, v1, v2, k1, k2, seq

OneLink == t1 :> v1
SameLink == t1 :> v1 @@ t2 :> v1
TwoLinks == t1 :> v1 @@ t2 :> v2

OneTask == k1 :> v1
TwoTasks == k1 :> v1 @@ k2 :> v1
TaskEach == k1 :> v1 @@ k2 :> v2

SeqOnOne == k1 :> {seq}
SeqOnFirst == k1 :> {seq} @@ k2 :> {}

\* Ids are interchangeable.
SymmetricIds == Permutations(Sessions)
=============================================================================
