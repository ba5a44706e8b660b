------------------------------ MODULE MCBooks ------------------------------
(***************************************************************************)
(* One instance for the components that keep accounts of their own and     *)
(* share no state: a behaviour studies one of them, the others rest.       *)
(***************************************************************************)
EXTENDS Payouts, Enrollment, RewardConsent, NodeLink, AuditBudgets,
        RewardPayment, Campaigns, ReferencePool, TokenStream, ProbeQuorum,
        FreeCredits, ServiceLimits, InflightSlots, X402, Deposits, TLC

CONSTANTS a1, a2, b1, b2, r1, r2, q1, q2

VARIABLE study

Parts == <<freeVars, limitVars, slotVars, payoutVars, x402Vars, depositVars, quorumVars,
           streamVars, identityVars, pairingVars, consentVars, rewardVars, auditVars,
           campaignVars, poolVars, enrollVars>>

OneBuyer   == [permit \in Permits |-> r1]
OwnWallets == a1 :> r1 @@ a2 :> r1 @@ r1 :> r2
Operators  == a1 :> r1 @@ a2 :> r2 @@ q1 :> "both" @@ q2 :> "both"
OneWorker  == [job \in AuditJobs |-> r1]
TwoValidators == q1 :> r1 @@ q2 :> r2
ThreeOwners   == <<r1, r2, q1>>

\* A pilot that can reach half its budget, two supplements that want the other
\* half, and a second pilot at the same time.
Term(id, parent, members, budget, from) ==
    [id |-> id, parent |-> parent, members |-> members, budget |-> budget, cap |-> 2,
     from |-> from, to |-> 2]
Pilots == {Term("pilot", NoParent, {r1}, 4, 1), Term("first", "pilot", {r2}, 2, 2),
           Term("second", "pilot", {q1}, 2, 2), Term("next", NoParent, {r1, r2}, 3, 2)}

\* The consents rest on Association alone: every pairing it may use is taken as agreed.
PairingsAgreed ==
    /\ slot = NoSlot /\ asking = [h \in Humans |-> 0] /\ withdrawn = {}
    /\ approvals = [id : PairingIds, operator : Humans]
    /\ proofs = [id : PairingIds, operator : Humans, key : Keys, by : Keys]

BooksInit ==
    /\ study \in {"free", "limit", "slot", "payout", "x402", "deposit", "quorum", "stream",
                  "link", "consent", "reward", "audit", "campaign", "pool",
                  "enroll"}
    /\ FreeInit /\ LimitInit /\ SlotInit /\ PayoutInit /\ X402Init /\ DepositInit
    /\ QuorumInit /\ StreamInit
    /\ AssociationInit /\ ConsentInit /\ RewardInit /\ AuditInit /\ CampaignInit
    /\ PoolInit /\ EnrollInit
    /\ IF study = "consent" THEN PairingsAgreed ELSE PairingInit
    /\ study # "payout" => wallet = [p \in Payees |-> FALSE]

BooksNext ==
    /\ study' = study
    /\ IF study = "free" THEN FreeNext ELSE UNCHANGED freeVars
    /\ IF study = "limit" THEN LimitNext ELSE UNCHANGED limitVars
    /\ IF study = "slot" THEN SlotNext ELSE UNCHANGED slotVars
    /\ IF study = "payout" THEN PayoutNext ELSE UNCHANGED payoutVars
    /\ IF study = "x402" THEN X402Next ELSE UNCHANGED x402Vars
    /\ IF study = "deposit" THEN DepositNext ELSE UNCHANGED depositVars
    /\ IF study = "quorum" THEN QuorumNext ELSE UNCHANGED quorumVars
    /\ IF study = "stream" THEN StreamNext ELSE UNCHANGED streamVars
    /\ CASE study = "link"    -> LinkNext /\ UNCHANGED consentVars
         [] study = "consent" -> ConsentNext /\ UNCHANGED pairingVars
         [] OTHER             -> UNCHANGED <<identityVars, pairingVars, consentVars>>
    /\ IF study = "reward" THEN RewardNext ELSE UNCHANGED rewardVars
    /\ IF study = "audit" THEN AuditNext ELSE UNCHANGED auditVars
    /\ IF study = "campaign" THEN CampaignNext ELSE UNCHANGED campaignVars
    /\ IF study = "pool" THEN PoolNext ELSE UNCHANGED poolVars
    /\ IF study = "enroll" THEN EnrollNext ELSE UNCHANGED enrollVars

BooksSpec == BooksInit /\ [][BooksNext]_<<study, Parts>>

(***************************************************************************)
(* Every component's state stays what its source's columns, keys and       *)
(* status values allow.                                                    *)
(***************************************************************************)
StudyTypeOK ==
    /\ study = "free" => FreeTypeOK
    /\ study = "limit" => LimitTypeOK
    /\ study = "slot" => SlotTypeOK
    /\ study = "payout" => PayoutTypeOK
    /\ study = "x402" => X402TypeOK
    /\ study = "deposit" => DepositTypeOK
    /\ study = "quorum" => QuorumTypeOK
    /\ study = "stream" => StreamTypeOK
    /\ study = "link" => PairingTypeOK
    /\ study = "consent" => AssociationTypeOK /\ ConsentTypeOK
    /\ study = "reward" => RewardTypeOK
    /\ study = "audit" => AuditTypeOK
    /\ study = "campaign" => CampaignTypeOK
    /\ study = "pool" => PoolTypeOK
    /\ study = "enroll" => EnrollTypeOK

\* What tells two states apart: the component under study, as the others rest
\* in their initial state.
Studied ==
    <<study,
      CASE study = "free"     -> freeVars
        [] study = "limit"    -> limitVars
        [] study = "slot"     -> slotVars
        [] study = "payout"   -> payoutVars
        [] study = "x402"     -> x402Vars
        [] study = "deposit"  -> depositVars
        [] study = "quorum"   -> quorumVars
        [] study = "stream"   -> streamVars
        [] study = "link"     -> <<identityVars, pairingVars>>
        [] study = "consent"  -> <<identityVars, consentVars>>
        [] study = "reward"   -> rewardVars
        [] study = "audit"    -> auditVars
        [] study = "campaign" -> campaignVars
        [] study = "pool"     -> poolVars
        [] study = "enroll"   -> enrollVars>>

\* a: payees, purchases, transfers, humans, probe groups, enrollments, and
\* validators of operators of their own;
\* b: senders, receipts, claims, terminals, finalizers, carriers, reward runs, polls and requests.
Alike == Permutations({a1, a2}) \union Permutations({b1, b2})
=============================================================================
