----------------------------- MODULE Promotions -----------------------------
(***************************************************************************)
(* The promotional pocket (grid_api/services/promotions.py): grants of one *)
(* budgeted campaign and the spends drawn from them.  A spend is keyed by  *)
(* the job id; it is taken and given back in transactions of its own,      *)
(* before and after the transaction that holds the purchased credit.       *)
(*                                                                         *)
(* One campaign is modelled.  An account has at most one grant of it       *)
(* (UNIQUE(account_id, campaign_id)), so a spend draws on one grant.  A    *)
(* grant is named by the account it was first issued to.                   *)
(***************************************************************************)
EXTENDS Billing

CONSTANTS
    GrantMicro,     \* promo_campaigns.grant_micro
    BudgetMicro,    \* promo_campaigns.budget_micro
    NoGrant         \* the allocation of a spend that found no grant

ASSUME NoGrantAssumption  == NoGrant \notin Accounts
ASSUME CampaignAssumption == GrantMicro \in Nat /\ BudgetMicro \in Nat

VARIABLES
    grants,         \* grid_promo_grants
    grantedMicro,   \* promo_campaigns.granted_micro
    spends          \* grid_promo_spends, keyed by ref = job id

promoVars == <<grants, grantedMicro, spends>>

Grants == [status : {"none", "active", "merged"}, owner : Accounts,
           amount : Nat, remaining : Int, expired : BOOLEAN]
Spends == [status : {"none", "held", "settled"}, owner : Accounts,
           grant : Accounts \cup {NoGrant}, amount : Int, kept : Int]

PromoTypeOK ==
    /\ grants \in [Accounts -> Grants]
    /\ grantedMicro \in Nat
    /\ spends \in [Jobs -> Spends]

Owned(a)  == {g \in Accounts : grants[g].owner = a /\ grants[g].status = "active"}
Usable(a) == {g \in Owned(a) : ~grants[g].expired /\ grants[g].remaining > 0}

\* grant_once: the campaign row is locked, so budget and uniqueness are one step.
GrantOnce(a) ==
    /\ grants[a].status = "none" /\ Owned(a) = {}
    /\ GrantMicro > 0
    /\ grantedMicro + GrantMicro <= BudgetMicro
    /\ grants' = [grants EXCEPT ![a] =
            [@ EXCEPT !.status = "active", !.amount = GrantMicro, !.remaining = GrantMicro]]
    /\ grantedMicro' = grantedMicro + GrantMicro
    /\ UNCHANGED spends

\* The wall clock passes promo_grants.expires.
GrantExpires(g) ==
    /\ grants[g].status = "active" /\ ~grants[g].expired
    /\ grants' = [grants EXCEPT ![g].expired = TRUE]
    /\ UNCHANGED <<grantedMicro, spends>>

(***************************************************************************)
(* consume: idempotent on the ref.  A spend row that exists already, in    *)
(* whatever status, answers its amount_micro and takes nothing.            *)
(***************************************************************************)
Takes(a, want) ==
    IF Usable(a) = {} THEN [grant |-> NoGrant, amount |-> 0]
    ELSE LET g == CHOOSE x \in Usable(a) : TRUE
         IN  [grant |-> g,
              amount |-> Lesser(want, grants[g].remaining)]

Consumed(j, a, want) ==
    IF spends[j].status # "none" THEN spends[j].amount ELSE Takes(a, want).amount

Consume(j, a, want) ==
    LET take == Takes(a, want) IN
    /\ IF spends[j].status # "none"
       THEN UNCHANGED <<grants, spends>>
       ELSE /\ grants' = IF take.grant = NoGrant THEN grants
                         ELSE [grants EXCEPT ![take.grant].remaining = @ - take.amount]
            /\ spends' = [spends EXCEPT ![j] =
                    [status |-> "held", owner |-> a, grant |-> take.grant,
                     amount |-> take.amount, kept |-> take.amount]]
    /\ UNCHANGED grantedMicro

(***************************************************************************)
(* release: keep part of the spend, restore the rest to the same grant     *)
(* unless that grant has expired or was collapsed by a merge.  A spend     *)
(* that already keeps no more than asked is only marked settled.           *)
(***************************************************************************)
Restorable(g) == grants[g].status = "active" /\ ~grants[g].expired

\* (mutant) a repeated release is not recognized
ReleaseSpendTwice(j, a, keep) ==
    LET spend == spends[j] IN
    /\ spends' = [spends EXCEPT ![j].status = "settled", ![j].kept = keep]
    /\ grants' = IF spend.grant # NoGrant /\ Restorable(spend.grant)
                 THEN [grants EXCEPT ![spend.grant].remaining = @ + (spend.amount - keep)]
                 ELSE grants
    /\ UNCHANGED grantedMicro

ReleaseSpend(j, a, keep) ==
    LET spend  == spends[j]
        target == Lesser(keep, spend.amount)
    IN
    /\ IF spend.status = "none" \/ spend.owner # a
       THEN UNCHANGED <<grants, spends>>
       ELSE IF target >= spend.kept
       THEN /\ spends' = [spends EXCEPT ![j].status = "settled"]
            /\ UNCHANGED grants
       ELSE /\ spends' = [spends EXCEPT ![j].status = "settled", ![j].kept = target]
            /\ grants' = IF spend.grant # NoGrant /\ Restorable(spend.grant)
                         THEN [grants EXCEPT ![spend.grant].remaining =
                                   @ + (spend.amount - target)]
                         ELSE grants
    /\ UNCHANGED grantedMicro

(***************************************************************************)
(* The grant part of merge_accounts.  Two grants of the campaign collapse  *)
(* into the destination's, at the larger entitlement; a lone source grant  *)
(* changes owner.                                                          *)
(***************************************************************************)
Collapsed(dest, src, g) ==
    IF Owned(dest) # {} /\ g \in Owned(src)
    THEN [grants[g] EXCEPT !.status = "merged", !.remaining = 0]
    ELSE IF Owned(src) # {} /\ g \in Owned(dest)
    THEN LET s == CHOOSE x \in Owned(src) : TRUE
         IN  [grants[g] EXCEPT !.amount    = Greater(@, grants[s].amount),
                               !.remaining = Greater(@, grants[s].remaining)]
    ELSE IF g \in Owned(src) THEN [grants[g] EXCEPT !.owner = dest]
    ELSE grants[g]

MergeGrants(dest, src) ==
    /\ grants' = [g \in Accounts |-> Collapsed(dest, src, g)]
    /\ UNCHANGED <<grantedMicro, spends>>
=============================================================================
