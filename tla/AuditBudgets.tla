---------------------------- MODULE AuditBudgets ----------------------------
(***************************************************************************)
(* Budgets of compensated audits.  An audit reserves units against four    *)
(* hourly counters at once and is closed by the worker's terminal, by a    *)
(* release or by the sweeper of expired holds; a job is an audit or        *)
(* ordinary demand, never both.  Transactions that touch one job are       *)
(* serialized by its advisory lock, those that touch one counter by its    *)
(* row, so each is a step; the sweeper lists first and works later, and a  *)
(* duplicate terminal is classified after its own transaction was undone.  *)
(***************************************************************************)
EXTENDS Integers, FiniteSets, FiniteSetsExt

CONSTANTS
    AuditJobs,      \* job ids
    AuditWorker,    \* the worker and the validator of an audit
    AuditValidator,
    AuditUnits,     \* what an audit may reserve
    HourlyCaps,     \* configured limits, which may change between reservations
    LastHour        \* bound of this model: the hour in which it ends

ASSUME AuditAssumption ==
    /\ DOMAIN AuditWorker = AuditJobs /\ DOMAIN AuditValidator = AuditJobs
    /\ IsFiniteSet(AuditJobs) /\ AuditUnits \subseteq Nat \ {0}
    /\ HourlyCaps \subseteq Nat \ {0} /\ HourlyCaps # {} /\ LastHour \in Nat
    /\ IsFiniteSet(AuditUnits) /\ IsFiniteSet(HourlyCaps)

VARIABLES
    hour,
    audit,      \* validator_audit_jobs: status, bucket, reserved and actual units
    counter,    \* the rows of validator_audit_budget_counters, by bucket and scope
    demand,     \* jobs with an ordinary reservation
    terminal,   \* the grid_ledger row of a job: what it paid
    doubled,    \* duplicate terminals, undone, not yet classified
    expired,    \* audits whose time is over
    listed      \* audits the sweeper has listed

auditVars == <<hour, audit, counter, demand, terminal, doubled, expired, listed>>

Hours == 0..LastHour
ScopeNames == {"global", "worker", "validator", "pair"}

\* _counter_specs: the four counters of a job.
Counters(j) == {<<"global", "all">>, <<"worker", AuditWorker[j]>>,
                <<"validator", AuditValidator[j]>>,
                <<"pair", <<AuditWorker[j], AuditValidator[j]>> >>}
CountersIn(h, j) == {<<h, scope>> : scope \in Counters(j)}

NoAudit == [status |-> "none", hour |-> 0, units |-> 0, actual |-> 0]
TopUnits == Max(AuditUnits \union HourlyCaps)

AuditTypeOK ==
    /\ hour \in Hours
    /\ audit \in [AuditJobs -> [status : {"none", "held", "settled", "released", "manual_review"},
                                hour : Hours, units : AuditUnits \union {0}, actual : 0..TopUnits]]
    /\ DOMAIN counter \subseteq UNION {CountersIn(h, j) : h \in Hours, j \in AuditJobs}
    /\ \A k \in DOMAIN counter :
         counter[k] \in [cap : HourlyCaps, reserved : 0..TopUnits, spent : 0..TopUnits]
    /\ demand \subseteq AuditJobs /\ expired \subseteq AuditJobs
    /\ terminal \in [AuditJobs -> {"none", "unreserved", "demand", "audit"}]
    /\ doubled \subseteq AuditJobs /\ listed \subseteq AuditJobs

AuditInit ==
    /\ hour = 0 /\ audit = [j \in AuditJobs |-> NoAudit]
    /\ counter = [k \in {} |-> 0]
    /\ terminal = [j \in AuditJobs |-> "none"]
    /\ demand = {} /\ doubled = {} /\ expired = {} /\ listed = {}

-----------------------------------------------------------------------------
\* The first reservation of an hour writes the configured cap for the hour.
Opened(k, cap) == IF k \in DOMAIN counter THEN counter[k]
                  ELSE [cap |-> cap, reserved |-> 0, spent |-> 0]

\* reserve_audit: all four counters or none.
ReserveAudit(j, units, cap) ==
    /\ audit[j].status = "none" /\ j \notin demand
    /\ \A k \in CountersIn(hour, j) :
         Opened(k, cap).reserved + Opened(k, cap).spent + units <= Opened(k, cap).cap
    /\ counter' = [k \in DOMAIN counter \union CountersIn(hour, j) |->
         IF k \in CountersIn(hour, j) THEN [Opened(k, cap) EXCEPT !.reserved = @ + units]
         ELSE counter[k]]
    /\ audit' = [audit EXCEPT ![j] = [status |-> "held", hour |-> hour, units |-> units, actual |-> 0]]
    /\ UNCHANGED <<hour, demand, terminal, doubled, expired, listed>>

\* assert_no_audit_in_session, and the demand hold.
ReserveDemand(j) ==
    /\ audit[j].status = "none" /\ j \notin demand
    /\ demand' = demand \union {j}
    /\ UNCHANGED <<hour, audit, counter, terminal, doubled, expired, listed>>

\* The hold leaves the counters of the hour it was made in.
Returned(j, actual) == counter' =
    [k \in DOMAIN counter |->
       IF k \in CountersIn(audit[j].hour, j)
       THEN [cap |-> counter[k].cap, reserved |-> counter[k].reserved - audit[j].units,
             spent |-> counter[k].spent + actual]
       ELSE counter[k]]

Close(j, status) == audit' = [audit EXCEPT ![j].status = status]

\* record_and_settle with a new ledger row: work above the hold, and work on
\* a closed audit, are undone.
AuditTerminal(j, actual) ==
    /\ terminal[j] = "none" /\ audit[j].status = "held" /\ actual <= audit[j].units
    /\ terminal' = [terminal EXCEPT ![j] = "audit"]
    /\ audit' = [audit EXCEPT ![j].status = "settled", ![j].actual = actual]
    /\ Returned(j, actual)
    /\ UNCHANGED <<hour, demand, doubled, expired, listed>>

OtherTerminal(j) ==
    /\ terminal[j] = "none" /\ audit[j].status = "none"
    /\ terminal' = [terminal EXCEPT ![j] = IF j \in demand THEN "demand" ELSE "unreserved"]
    /\ UNCHANGED <<hour, audit, counter, demand, doubled, expired, listed>>

\* A second terminal of the job: its insert fails and is rolled back.
DuplicateTerminal(j) ==
    /\ terminal[j] # "none" /\ j \notin doubled
    /\ doubled' = doubled \union {j}
    /\ UNCHANGED <<hour, audit, counter, demand, terminal, expired, listed>>

\* reconcile_duplicate_terminal: a paid job with an open hold is for review.
ReconcileDuplicate(j) ==
    /\ j \in doubled /\ doubled' = doubled \ {j}
    /\ IF audit[j].status = "held" THEN Close(j, "manual_review") ELSE audit' = audit
    /\ UNCHANGED <<hour, counter, demand, terminal, expired, listed>>

\* release_job, for a job that is an audit.
ReleaseAudit(j) ==
    /\ audit[j].status = "held"
    /\ Close(j, "released") /\ Returned(j, 0)
    /\ UNCHANGED <<hour, demand, terminal, doubled, expired, listed>>

AuditExpires(j) ==
    /\ audit[j].status = "held" /\ j \notin expired
    /\ expired' = expired \union {j}
    /\ UNCHANGED <<hour, audit, counter, demand, terminal, doubled, listed>>

\* sweep_expired_audits lists, then takes the listed jobs one by one.
ListExpired ==
    /\ listed = {} /\ listed' = {j \in expired : audit[j].status = "held"} /\ listed' # {}
    /\ UNCHANGED <<hour, audit, counter, demand, terminal, doubled, expired>>

\* (mutant) what was listed is still held
AsListed(j) == TRUE

StillHeld(j) == audit[j].status = "held"

SweepAudit(j) ==
    /\ j \in listed /\ listed' = listed \ {j}
    /\ IF ~StillHeld(j) THEN UNCHANGED <<audit, counter>>
       ELSE IF terminal[j] # "none" THEN Close(j, "manual_review") /\ counter' = counter
       ELSE Close(j, "released") /\ Returned(j, 0)
    /\ UNCHANGED <<hour, demand, terminal, doubled, expired>>

SweepStops ==
    /\ listed # {} /\ listed' = {}
    /\ UNCHANGED <<hour, audit, counter, demand, terminal, doubled, expired>>

NextHour ==
    /\ hour < LastHour /\ hour' = hour + 1
    /\ UNCHANGED <<audit, counter, demand, terminal, doubled, expired, listed>>

AuditNext ==
    \/ ListExpired \/ SweepStops \/ NextHour
    \/ \E j \in AuditJobs :
         \/ \E units \in AuditUnits, cap \in HourlyCaps : ReserveAudit(j, units, cap)
         \/ \E actual \in 1..TopUnits : AuditTerminal(j, actual)
         \/ ReserveDemand(j) \/ OtherTerminal(j) \/ DuplicateTerminal(j)
         \/ ReconcileDuplicate(j) \/ ReleaseAudit(j) \/ AuditExpires(j) \/ SweepAudit(j)

AuditSpec == AuditInit /\ [][AuditNext]_auditVars

-----------------------------------------------------------------------------
UnitsIn(k, statuses) ==
    MapThenSumSet(LAMBDA j : audit[j].units,
        {j \in AuditJobs : audit[j].status \in statuses /\ k \in CountersIn(audit[j].hour, j)})
SpentIn(k) ==
    MapThenSumSet(LAMBDA j : audit[j].actual,
        {j \in AuditJobs : audit[j].actual > 0 /\ k \in CountersIn(audit[j].hour, j)})

(***************************************************************************)
(* Every counter is exactly what its audits hold and have spent, within    *)
(* the cap of its hour, whoever closes an audit first and however late the *)
(* hour; a worker is paid as an audit exactly when the audit was settled;  *)
(* and no job is both demand and audit ("released at most once, and payout *)
(* and budget movement share one transaction", validator_audit_budgets.py).*)
(***************************************************************************)
AuditsAccounted ==
    /\ \A k \in DOMAIN counter :
         /\ counter[k].reserved = UnitsIn(k, {"held", "manual_review"})
         /\ counter[k].spent = SpentIn(k)
         /\ counter[k].reserved + counter[k].spent <= counter[k].cap
    /\ \A j \in AuditJobs :
         /\ audit[j].status # "none" => CountersIn(audit[j].hour, j) \subseteq DOMAIN counter
         /\ terminal[j] = "audit" <=> audit[j].status = "settled"
         /\ j \in demand => audit[j].status = "none"
=============================================================================
