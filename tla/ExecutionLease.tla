---------------------------- MODULE ExecutionLease ----------------------------
(***************************************************************************)
(* The lease on one major task that scheduled workers claim, refresh and   *)
(* release (internal.auto_major_execution_leases); the leases of other     *)
(* majors are rows of their own.  A worker is an owner in one run, and its *)
(* runs have ids of their own.                                             *)
(*                                                                         *)
(* now() in a function is the start of its transaction: a call that waited *)
(* for the row judges by an earlier time, which here is any since the call *)
(* was sent.  A reply may be lost.                                         *)
(***************************************************************************)
EXTENDS Integers, FiniteSets

CONSTANTS
  Workers,
  Seconds,   \* what every call asks for
  Least,     \* 300 in the code
  Most,      \* 7200 in the code
  LeaseMaxNow     \* bound on time

ASSUME LeaseAssumption ==
  /\ Seconds \in Nat /\ LeaseMaxNow \in Nat
  /\ Least \in Nat \ {0} /\ Most \in Nat /\ Least <= Most
  /\ "none" \notin Workers

(* The length of a lease.                                                  *)
Length == IF Seconds > Most THEN Most ELSE IF Seconds < Least THEN Least ELSE Seconds

VARIABLES
  clock,
  lease,    \* the row; holder "none" when there is none
  calls,    \* calls under way: [by, kind, sent]
  known,    \* until when a worker can tell it holds the lease
  working,  \* workers that were told they own the major
  done      \* workers that released, or found the lease lost

leaseVars == <<clock, lease, calls, known, working, done>>

NoLease == [holder |-> "none", from |-> 0, until |-> 0]
Row(w, at) == [holder |-> w, from |-> at, until |-> at + Length]

LeaseInit ==
  /\ clock = 0 /\ lease = NoLease /\ calls = {}
  /\ known = [w \in Workers |-> 0] /\ working = {} /\ done = {}

Busy(w) == \E c \in calls : c.by = w

Send(w, kind) == calls' = calls \cup {[by |-> w, kind |-> kind, sent |-> clock]}

SendClaim(w) ==
  /\ ~Busy(w) /\ w \notin done
  /\ Send(w, "claim")
  /\ UNCHANGED <<clock, lease, known, working, done>>

SendRefresh(w) ==
  /\ ~Busy(w) /\ w \in working
  /\ Send(w, "refresh")
  /\ UNCHANGED <<clock, lease, known, working, done>>

(* A worker stops its work, then releases.                                 *)
SendRelease(w) ==
  /\ ~Busy(w) /\ w \notin done
  /\ Send(w, "release")
  /\ known' = [known EXCEPT ![w] = 0] /\ working' = working \ {w} /\ done' = done \cup {w}
  /\ UNCHANGED <<clock, lease>>

(* What a worker learns from an answer, if it gets it.                     *)
Learns(c) ==
  /\ known' = [known EXCEPT ![c.by] = c.sent + Length]
  /\ working' = working \cup {c.by}
  /\ UNCHANGED done

Loses(c) ==
  /\ known' = [known EXCEPT ![c.by] = 0]
  /\ working' = working \ {c.by}
  /\ done' = done \cup {c.by}

LearnsNothing == UNCHANGED <<known, working, done>>

MayClaim(w, at) == lease = NoLease \/ lease.until <= at \/ lease.holder = w

RunClaim(c, at) ==
  /\ c.kind = "claim"
  /\ IF MayClaim(c.by, at) THEN lease' = Row(c.by, at) /\ (Learns(c) \/ LearnsNothing)
     ELSE UNCHANGED lease /\ LearnsNothing

(* The end of the old lease counts, not the time (faulty variant).         *)
MayRefreshOld(w, at) == lease.holder = w \/ lease.until <= at

MayRefresh(w, at) == lease.holder = w /\ lease.until > at

(* A refresh moves the end only; the table wants it after the start.       *)
RunRefresh(c, at) ==
  /\ c.kind = "refresh"
  /\ IF MayRefresh(c.by, at) /\ at + Length > lease.from
     THEN lease' = [lease EXCEPT !.until = at + Length] /\ (Learns(c) \/ LearnsNothing)
     ELSE UNCHANGED lease /\ (Loses(c) \/ LearnsNothing)

(* A release of whoever holds the lease (faulty variant).                  *)
MayReleaseAny(w) == lease # NoLease

MayRelease(w) == lease.holder = w

RunRelease(c) ==
  /\ c.kind = "release"
  /\ lease' = (IF MayRelease(c.by) THEN NoLease ELSE lease)
  /\ LearnsNothing

Run ==
  \E c \in calls :
    /\ \/ \E at \in c.sent .. clock : RunClaim(c, at) \/ RunRefresh(c, at)
       \/ RunRelease(c)
    /\ calls' = calls \ {c} /\ UNCHANGED clock

LeaseTick ==
  /\ clock < LeaseMaxNow /\ clock' = clock + 1
  /\ UNCHANGED <<lease, calls, known, working, done>>

LeaseNext ==
  \/ \E w \in Workers : SendClaim(w) \/ SendRefresh(w) \/ SendRelease(w)
  \/ Run \/ LeaseTick

LeaseSpec == LeaseInit /\ [][LeaseNext]_leaseVars
-----------------------------------------------------------------------------
(* With the check of the table that a lease has a length.                  *)
LeaseTypeOK ==
  /\ clock \in Nat
  /\ lease \in [holder : Workers \cup {"none"}, from : Nat, until : Nat]
  /\ lease # NoLease => lease.until > lease.from
  /\ calls \subseteq [by : Workers, kind : {"claim", "refresh", "release"}, sent : Nat]
  /\ known \in [Workers -> Nat] /\ working \in SUBSET Workers /\ done \in SUBSET Workers

(* A worker that counts the length of the lease from when it sent the call *)
(* that was granted is alone: late transactions, lost replies and retries  *)
(* of others do not make two of them sure at a time.                       *)
OneKnows ==
  \A v, w \in Workers : clock < known[v] /\ clock < known[w] => v = w

(* What makes that inductive.                                              *)
LeaseInv ==
  /\ \A w \in Workers : clock < known[w] => lease.holder = w /\ known[w] <= lease.until
  /\ \A c, d \in calls : c.by = d.by => c = d
  /\ \A c \in calls : c.sent <= clock /\ known[c.by] <= c.sent + Length
  /\ \A c \in calls : c.kind = "release" => known[c.by] = 0 /\ c.by \in done
  /\ \A w \in Workers : known[w] <= clock + Length

(* A lease that has not expired is only ended by its holder.               *)
LiveLeaseIsKept ==
  [][lease # NoLease /\ lease.until > clock =>
       \/ lease'.holder = lease.holder
       \/ lease' = NoLease /\ lease.holder \in done]_leaseVars

(* A worker that was granted the major owns it until it releases it or a   *)
(* refresh fails.  Refuted: the lease may expire under it.                 *)
OneWorks == \A v, w \in working : v = w
=============================================================================
