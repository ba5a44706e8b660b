---------------------------- MODULE ProbeQuorum ----------------------------
(***************************************************************************)
(* One shared probe group: validators take seats in it, probe the target   *)
(* worker in bounded attempts, and vote; the group's outcome follows the   *)
(* votes, and is finalized when the time for votes is over by whichever    *)
(* polls of validators notice it.  Every database transaction that reads   *)
(* before it writes is split at the lock it takes between the two.         *)
(***************************************************************************)
EXTENDS Integers, FiniteSets

CONSTANTS
    Validators,     \* registrations
    OperatorOf,     \* the reviewed operator group behind a registration
    Verdicts,
    QuorumMin,      \* quorum_threshold of the group
    QuorumTarget,   \* target_validator_count of the group
    ProbeAttempts,  \* PROBE_MAX_ATTEMPTS
    Finalizers,     \* polls that run _finalize_due_assignments
    NoOutcome

ASSUME QuorumAssumption ==
    /\ DOMAIN OperatorOf = Validators
    /\ QuorumMin \in Nat \ {0} /\ QuorumTarget \in Nat /\ ProbeAttempts \in Nat
    /\ IsFiniteSet(Validators) /\ IsFiniteSet(Verdicts)
    /\ {NoOutcome, "disputed", "insufficient_evidence"} \intersect Verdicts = {}

VARIABLES
    phase,      \* of the group: open, then the grace for votes, then due
    group,      \* its quorum_status and quorum_outcome
    seat,       \* the assignments: probe status, attempts, lease, evidence
    probing,    \* attempts whose worker has not answered, and may never do so
    issuing,    \* validators about to insert their seat
    ballot,     \* the vote a transaction holds the group's row lock for
    votes,      \* the committed authoritative attestations
    closer,     \* what each finalizer has read
    verdicts    \* history: every verdict the group's outcome has shown

quorumVars == <<phase, group, seat, probing, issuing, ballot, votes, closer, verdicts>>

Statuses == {"pending", "accepted", "disputed", "finalized"}
Outcomes == Verdicts \union {NoOutcome, "disputed", "insufficient_evidence"}
NoProbe == [probe |-> "not_started", attempts |-> 0, lapsed |-> FALSE, evidence |-> 0]
Ballots == [validator : Validators, verdict : Verdicts, evidence : 1..ProbeAttempts]
Idle == [step |-> "idle", outcome |-> NoOutcome]

QuorumTypeOK ==
    /\ phase \in {"open", "grace", "due"}
    /\ group \in [status : Statuses, outcome : Outcomes]
    /\ DOMAIN seat \subseteq Validators
    /\ \A v \in DOMAIN seat :
         seat[v] \in [probe : {"not_started", "running", "failed", "completed"}, lapsed : BOOLEAN,
                     attempts : 0..ProbeAttempts, evidence : 0..ProbeAttempts]
    /\ probing \subseteq Validators \X (1..ProbeAttempts)
    /\ issuing \subseteq Validators
    /\ ballot \subseteq Ballots /\ Cardinality(ballot) <= 1
    /\ votes \subseteq Ballots
    /\ closer \in [Finalizers -> [step : {"idle", "listed", "counted"}, outcome : Outcomes]]
    /\ verdicts \subseteq Verdicts

QuorumInit ==
    /\ phase = "open"
    /\ group = [status |-> "pending", outcome |-> NoOutcome]
    /\ seat = [v \in {} |-> NoProbe]
    /\ probing = {} /\ issuing = {} /\ ballot = {} /\ votes = {} /\ verdicts = {}
    /\ closer = [f \in Finalizers |-> Idle]

-----------------------------------------------------------------------------
(* Seats. *)

Seated == DOMAIN seat
LaneFree == issuing = {}

\* _operator_already_assigned
OperatorSeated(v) == \E w \in Seated : OperatorOf[w] = OperatorOf[v]

\* Under the advisory lock of the worker: an open group with a free seat.
DecideSeat(v) ==
    /\ LaneFree
    /\ phase = "open" /\ group.status # "finalized"
    /\ Cardinality(Seated) < QuorumTarget /\ ~OperatorSeated(v)
    /\ issuing' = issuing \union {v}
    /\ UNCHANGED <<phase, group, seat, probing, ballot, votes, closer, verdicts>>

\* The insert and the commit that frees the lock; or the poll fails.
TakeSeat(v) ==
    /\ v \in issuing /\ issuing' = issuing \ {v}
    /\ \/ seat' = [w \in Seated \union {v} |-> IF w = v THEN NoProbe ELSE seat[w]]
       \/ UNCHANGED seat
    /\ UNCHANGED <<phase, group, probing, ballot, votes, closer, verdicts>>

-----------------------------------------------------------------------------
(* Probes. *)

Claimable(v) == \/ seat[v].probe \in {"not_started", "failed"}
                \/ seat[v].probe = "running" /\ seat[v].lapsed

\* _claim_probe_lease: the attempt's number stands for its job id.
ClaimProbe(v) ==
    /\ v \in Seated /\ phase = "open"
    /\ seat[v].attempts < ProbeAttempts /\ Claimable(v)
    /\ seat' = [seat EXCEPT ![v].probe = "running", ![v].lapsed = FALSE,
                            ![v].attempts = @ + 1]
    /\ probing' = probing \union {<<v, seat[v].attempts + 1>>}
    /\ UNCHANGED <<phase, group, issuing, ballot, votes, closer, verdicts>>

LeaseLapses(v) ==
    /\ v \in Seated /\ seat[v].probe = "running" /\ ~seat[v].lapsed
    /\ seat' = [seat EXCEPT ![v].lapsed = TRUE]
    /\ UNCHANGED <<phase, group, probing, issuing, ballot, votes, closer, verdicts>>

\* (mutant) the result of any attempt is written
IsAnyAttempt(v, attempt) == seat[v].attempts >= attempt

\* _mark_probe writes only where the seat still has this attempt's job id.
IsCurrent(v, attempt) == seat[v].attempts = attempt

Answered(v, attempt) == probing' = probing \ {<<v, attempt>>}

MarkCompleted(v, attempt) ==
    /\ <<v, attempt>> \in probing /\ Answered(v, attempt)
    /\ seat' = IF IsCurrent(v, attempt)
               THEN [seat EXCEPT ![v].probe = "completed", ![v].lapsed = FALSE,
                                 ![v].evidence = attempt]
               ELSE seat
    /\ UNCHANGED <<phase, group, issuing, ballot, votes, closer, verdicts>>

MarkFailed(v, attempt) ==
    /\ <<v, attempt>> \in probing /\ Answered(v, attempt)
    /\ seat' = IF IsCurrent(v, attempt)
               THEN [seat EXCEPT ![v].probe = "failed", ![v].lapsed = FALSE] ELSE seat
    /\ UNCHANGED <<phase, group, issuing, ballot, votes, closer, verdicts>>

-----------------------------------------------------------------------------
(* Votes. *)

HasVoted(v) == \E b \in votes : b.validator = v

\* The seat and its stored evidence are verified, the group's row is locked,
\* and the vote may still come.
Attest(v, verdict) ==
    /\ v \in Seated /\ seat[v].probe = "completed"
    /\ ballot = {} /\ group.status # "finalized" /\ phase # "due"
    /\ ~HasVoted(v)
    /\ ballot' = {[validator |-> v, verdict |-> verdict, evidence |-> seat[v].evidence]}
    /\ UNCHANGED <<phase, group, seat, probing, issuing, votes, closer, verdicts>>

CountOf(cast, verdict) == Cardinality({b \in cast : b.verdict = verdict})
Given(cast) == {b.verdict : b \in cast}
Winners(cast) == {v \in Verdicts : CountOf(cast, v) >= QuorumMin}
Sole(set) == CHOOSE v \in set : set = {v}

\* _update_quorum_in_session
Tally(cast) ==
    LET split == Cardinality(Given(cast)) > 1
        won   == Cardinality(Winners(cast)) = 1 IN
    [status  |-> IF split THEN "disputed" ELSE IF won THEN "accepted" ELSE "pending",
     outcome |-> IF won THEN Sole(Winners(cast)) ELSE IF split THEN "disputed" ELSE NoOutcome]

Shows(outcome) == verdicts' = verdicts \union ({outcome} \intersect Verdicts)

CommitVote ==
    /\ ballot # {} /\ ballot' = {}
    /\ votes' = votes \union ballot
    /\ group' = Tally(votes')
    /\ Shows(group'.outcome)
    /\ UNCHANGED <<phase, seat, probing, issuing, closer>>

\* The second look at the deadline refuses it, or the process dies.
VoteFails ==
    /\ ballot # {} /\ ballot' = {}
    /\ UNCHANGED <<phase, group, seat, probing, issuing, votes, closer, verdicts>>

-----------------------------------------------------------------------------
(* Finalization: list, count and write are three statements, and only the   *)
(* last one takes the group's row lock.                                     *)

ListDue(f) ==
    /\ closer[f].step = "idle" /\ phase = "due" /\ group.status # "finalized"
    /\ closer' = [closer EXCEPT ![f].step = "listed"]
    /\ UNCHANGED <<phase, group, seat, probing, issuing, ballot, votes, verdicts>>

FinalOutcome(cast) ==
    IF Cardinality(Winners(cast)) = 1 THEN Sole(Winners(cast))
    ELSE IF Cardinality(Given(cast)) > 1 THEN "disputed" ELSE "insufficient_evidence"

CountDue(f) ==
    /\ closer[f].step = "listed"
    /\ closer' = [closer EXCEPT ![f] = [step |-> "counted", outcome |-> FinalOutcome(votes)]]
    /\ UNCHANGED <<phase, group, seat, probing, issuing, ballot, votes, verdicts>>

WriteFinal(f) ==
    /\ closer[f].step = "counted" /\ ballot = {}
    /\ group' = [status |-> "finalized", outcome |-> closer[f].outcome]
    /\ Shows(closer[f].outcome)
    /\ closer' = [closer EXCEPT ![f] = Idle]
    /\ UNCHANGED <<phase, seat, probing, issuing, ballot, votes>>

\* The poll is rolled back.
PollDies(f) ==
    /\ closer[f].step # "idle"
    /\ closer' = [closer EXCEPT ![f] = Idle]
    /\ UNCHANGED <<phase, group, seat, probing, issuing, ballot, votes, verdicts>>

TimePasses ==
    /\ \/ phase = "open" /\ phase' = "grace"
       \/ phase = "grace" /\ phase' = "due"
    /\ UNCHANGED <<group, seat, probing, issuing, ballot, votes, closer, verdicts>>

QuorumNext ==
    \/ \E v \in Validators :
         \/ DecideSeat(v) \/ TakeSeat(v) \/ ClaimProbe(v) \/ LeaseLapses(v)
         \/ \E attempt \in 1..ProbeAttempts :
              MarkCompleted(v, attempt) \/ MarkFailed(v, attempt)
         \/ \E verdict \in Verdicts : Attest(v, verdict)
    \/ CommitVote \/ VoteFails \/ TimePasses
    \/ \E f \in Finalizers : ListDue(f) \/ CountDue(f) \/ WriteFinal(f) \/ PollDies(f)

QuorumSpec == QuorumInit /\ [][QuorumNext]_quorumVars

-----------------------------------------------------------------------------
(***************************************************************************)
(* A verdict the group shows has the votes of a quorum of operators behind *)
(* it, each of a seat that still shows the evidence it voted on, whatever  *)
(* concurrent polls seat and late attempts and finalizers write; the group *)
(* has no more seats than its target and never shows two verdicts          *)
(* (validators.py, issue_assignments, record_attestation, _mark_probe and  *)
(* _finalize_due_assignments).                                             *)
(***************************************************************************)
VerdictBacked ==
    /\ Cardinality(verdicts) <= 1
    /\ Cardinality(Seated) <= QuorumTarget
    /\ group.outcome \in Verdicts =>
         Cardinality({OperatorOf[v] : v \in {w \in Seated : \E b \in votes :
             /\ b.validator = w /\ b.verdict = group.outcome
             /\ seat[w].probe = "completed" /\ seat[w].evidence = b.evidence}}) >= QuorumMin
=============================================================================
