----------------------------- MODULE Campaigns -----------------------------
(***************************************************************************)
(* Validator reward campaigns: budgets frozen before the work starts, and  *)
(* divided once by the reviewed work when it is over.  A supplement spends *)
(* what its parent can never reach; campaigns overlap in time and members, *)
(* so one report may be eligible in several.  A maintainer previews each   *)
(* change and applies it later, under one advisory lock, only if it still  *)
(* comes out the same.                                                     *)
(***************************************************************************)
EXTENDS Integers, Sequences, FiniteSets, FiniteSetsExt, SequencesExt

CONSTANTS
    Contracts,      \* terms a maintainer may propose
    ProbeGroups,    \* groups a report may belong to
    DailyUnits,     \* payable units of an operator and day
    MaxReports,     \* bounds of this model: reports received,
    MaxChanges,     \*                       members that change,
    LastMoment,     \*                       and the time at which it ends
    NoParent

Members == UNION {c.members : c \in Contracts}

ASSUME CampaignAssumption ==
    /\ \A c \in Contracts :
         /\ {c.from, c.to, c.budget, c.cap} \subseteq Nat /\ IsFiniteSet(c.members)
         /\ c.members # {} /\ c.from <= c.to /\ c.id # NoParent
    /\ IsFiniteSet(Contracts)
    /\ DailyUnits \in Nat \ {0} /\ MaxReports \in Nat /\ MaxChanges \in Nat /\ LastMoment \in Nat

VARIABLES
    moment,
    campaign,   \* the committed contracts: "open", or the final allocation
    report,     \* authoritative reports in the order they were received
    work,       \* validator_compensation_work: what each allocation has claimed
    shown,      \* previews a maintainer may still approve
    changed     \* members whose identity or review is no longer the frozen one

campaignVars == <<moment, campaign, report, work, shown, changed>>

Moments == 0..LastMoment
Open == [status |-> "open", paid |-> [o \in {} |-> 0]]
Created == DOMAIN campaign

CampaignTypeOK ==
    /\ moment \in Moments
    /\ Created \subseteq Contracts
    /\ \A c \in Created :
         /\ campaign[c].status \in {"open", "finalized"}
         /\ DOMAIN campaign[c].paid \subseteq c.members
         /\ \A o \in DOMAIN campaign[c].paid : campaign[c].paid[o] \in 0..c.cap
    /\ report \in Seq([operator : Members, group : ProbeGroups, at : Moments])
    /\ work \subseteq [of : Created, no : 1..MaxReports]
    /\ \A s \in shown : s.of \in Created /\ s.claims \subseteq 1..MaxReports
    /\ changed \subseteq Members

CampaignInit ==
    /\ moment = 0 /\ campaign = [c \in {} |-> Open]
    /\ report = <<>> /\ work = {} /\ shown = {} /\ changed = {}

-----------------------------------------------------------------------------
\* What the members of a campaign can draw at most.
Maximum(c) == Min({c.budget, Cardinality(c.members) * c.cap})

Siblings(c) == {s \in Created \ {c} : s.parent = c.parent}

\* (mutant) each supplement is compared with the parent alone
ReservedAlone(c) == 0

\* Sibling budgets at full face value.
Reserved(c) == MapThenSumSet(LAMBDA s : s.budget, Siblings(c))

\* _supplement_parent, asked again when the supplement is finalized.
WithinParent(c) == \E p \in Created :
    /\ p.id = c.parent /\ p.parent = NoParent
    /\ c.to = p.to /\ c.from >= p.from /\ c.cap <= p.cap
    /\ c.members \intersect (p.members \union UNION {s.members : s \in Siblings(c)}) = {}
    /\ Maximum(p) + Reserved(c) + c.budget <= p.budget

\* create_campaign: before the work starts, at most a day ahead, for reviewed
\* members; a supplement needs an open parent.
CreateCampaign(c) ==
    /\ \A d \in Created : d.id # c.id
    /\ moment < c.from /\ c.from <= moment + 1
    /\ c.members \intersect changed = {}
    /\ c.parent # NoParent =>
         WithinParent(c) /\ \E p \in Created : p.id = c.parent /\ campaign[p] = Open
    /\ campaign' = [d \in Created \union {c} |-> IF d = c THEN Open ELSE campaign[d]]
    /\ UNCHANGED <<moment, report, work, shown, changed>>

-----------------------------------------------------------------------------
Claimed == {w.no : w \in work}
Paired(n) == <<report[n].operator, report[n].group>>

Eligible(c, n) ==
    /\ report[n].operator \in c.members /\ report[n].at \in c.from..c.to
    /\ n \notin Claimed
    /\ \A k \in Claimed : Paired(k) # Paired(n)

\* The reports a campaign would claim, in the order they came: one for each
\* operator and probe group, DailyUnits for each operator and day.
Included(c) == FoldLeft(
    LAMBDA kept, n :
        IF /\ Eligible(c, n)
           /\ \A k \in kept : Paired(k) # Paired(n)
           /\ Cardinality({k \in kept : report[k].operator = report[n].operator
                                        /\ report[k].at = report[n].at}) < DailyUnits
        THEN kept \union {n} ELSE kept,
    {}, [n \in 1..Len(report) |-> n])

UnitsOf(claims, o) == Cardinality({n \in claims : report[n].operator = o})

\* preview_allocation: whole units of the budget, up to the operator's cap.
Allocation(c, claims) ==
    [o \in {report[n].operator : n \in claims} |->
        Min({c.cap, (c.budget * UnitsOf(claims, o)) \div Cardinality(claims)})]

Finalizable(c) ==
    /\ c \in Created /\ campaign[c] = Open
    /\ moment > c.to
    /\ c.parent # NoParent => WithinParent(c)
    /\ c.members \intersect changed = {}

\* finalize_campaign without apply shows the allocation and its digest.
Preview(c) ==
    /\ Finalizable(c)
    /\ shown' = shown \union {[of |-> c, claims |-> Included(c)]}
    /\ UNCHANGED <<moment, campaign, report, work, changed>>

\* finalize_campaign with apply: allocations, claims and status together.
FinalizeCampaign(c) ==
    /\ Finalizable(c)
    /\ [of |-> c, claims |-> Included(c)] \in shown
    /\ campaign' = [campaign EXCEPT ![c] =
         [status |-> "finalized", paid |-> Allocation(c, Included(c))]]
    /\ work' = work \union {[of |-> c, no |-> n] : n \in Included(c)}
    /\ UNCHANGED <<moment, report, shown, changed>>

-----------------------------------------------------------------------------
(* The rest of the system. *)

\* A report outside every window is payable work of none.
ReportArrives(o, group) ==
    /\ Len(report) < MaxReports
    /\ \E c \in Created : o \in c.members /\ moment \in c.from..c.to
    /\ report' = Append(report, [operator |-> o, group |-> group, at |-> moment])
    /\ UNCHANGED <<moment, campaign, work, shown, changed>>

MemberChanges(o) ==
    /\ Cardinality(changed) < MaxChanges /\ changed' = changed \union {o}
    /\ UNCHANGED <<moment, campaign, report, work, shown>>

TimeGoesOn ==
    /\ moment < LastMoment /\ moment' = moment + 1
    /\ UNCHANGED <<campaign, report, work, shown, changed>>

CampaignNext ==
    \/ TimeGoesOn
    \/ \E c \in Contracts : CreateCampaign(c) \/ Preview(c) \/ FinalizeCampaign(c)
    \/ \E o \in Members : MemberChanges(o) \/ \E group \in ProbeGroups : ReportArrives(o, group)

CampaignSpec == CampaignInit /\ [][CampaignNext]_campaignVars

-----------------------------------------------------------------------------
PaidBy(c) == MapThenSumSet(LAMBDA o : campaign[c].paid[o], DOMAIN campaign[c].paid)

(***************************************************************************)
(* A campaign and its supplements together never allocate more than its    *)
(* budget, whichever is finalized first and whatever each of them earned   *)
(* ("Reserve only the parent's mathematically unreachable budget",         *)
(* _supplement_parent); and of all campaigns only one claims a report, and *)
(* only one report of an operator in a probe group is ever claimed         *)
(* ("globally unique work claims", validator_compensation.py:7).           *)
(***************************************************************************)
BudgetHolds ==
    /\ \A p \in Created : p.parent = NoParent =>
         PaidBy(p) + MapThenSumSet(PaidBy, {s \in Created : s.parent = p.id}) <= p.budget
    /\ \A v, w \in work : v # w => v.no # w.no /\ Paired(v.no) # Paired(w.no)
=============================================================================
