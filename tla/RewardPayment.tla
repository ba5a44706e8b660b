--------------------------- MODULE RewardPayment ---------------------------
(***************************************************************************)
(* The transfer of one bound validator reward.  Operators may run          *)
(* send_payment at the same time and repeat it after any failure: the      *)
(* first commits a nonce and the signed transaction, the others resume it, *)
(* broadcasting the same bytes until a finalized receipt decides.  The     *)
(* treasury account also pays the workers, whose sender assigns nonces     *)
(* under the same advisory lock, and the chain may drop blocks that are    *)
(* not final.                                                              *)
(***************************************************************************)
EXTENDS Integers, Sequences, FiniteSets, FiniteSetsExt

CONSTANTS
    Runs,           \* calls of send_payment
    MaxHeight       \* bound of this model: transactions the treasury gets mined

ASSUME RewardAssumption == MaxHeight \in Nat

VARIABLES
    reward,         \* the row of validator_compensation_payments: status and nonce
    best,           \* history: the furthest status it has had
    pool,           \* nonces at which the network has the reward's transaction
    blocks,         \* the treasury's mined transactions, by nonce
    final,          \* how many of them are final
    rail,           \* the worker sender: its lock, its choice, its recorded nonces
    run             \* what each call does

rewardVars == <<reward, best, pool, blocks, final, rail, run>>

NoNonce == -1
TreasuryNonces == NoNonce..(MaxHeight + 1)
Resting == [at |-> "off", pending |-> 0, seen |-> "none", verdict |-> "none"]
RewardStatuses == {"none", "pending", "manual_review", "sent"}

RewardTypeOK ==
    /\ reward \in [status : RewardStatuses, nonce : TreasuryNonces]
    /\ best \in RewardStatuses /\ pool \subseteq TreasuryNonces
    /\ blocks \in Seq([reward : BOOLEAN, ok : BOOLEAN])
    /\ final \in 0..Len(blocks) /\ Len(blocks) <= MaxHeight
    /\ rail \in [at : {"free", "locked", "chosen"}, pick : TreasuryNonces,
                 nonces : SUBSET TreasuryNonces]
    /\ run \in [Runs -> [at : {"off", "planned", "priced", "bound", "clear", "submitted",
                               "decided"},
                         pending : 0..MaxHeight, seen : RewardStatuses,
                         verdict : RewardStatuses]]

RewardInit ==
    /\ reward = [status |-> "none", nonce |-> NoNonce] /\ best = "none"
    /\ pool = {} /\ blocks = <<>> /\ final = 0
    /\ rail = [at |-> "free", pick |-> NoNonce, nonces |-> {}]
    /\ run = [x \in Runs |-> Resting]

-----------------------------------------------------------------------------
(* The chain: external. *)

MineTreasury ==
    /\ Len(blocks) < MaxHeight
    /\ \E block \in [reward : BOOLEAN, ok : BOOLEAN] :
         /\ IF block.reward THEN Len(blocks) \in pool ELSE block.ok
         /\ blocks' = Append(blocks, block)
    /\ UNCHANGED <<reward, best, pool, final, rail, run>>

Finalize ==
    /\ final < Len(blocks) /\ final' = final + 1
    /\ UNCHANGED <<reward, best, pool, blocks, rail, run>>

Reorganize ==
    /\ final < Len(blocks) /\ blocks' = SubSeq(blocks, 1, Len(blocks) - 1)
    /\ UNCHANGED <<reward, best, pool, final, rail, run>>

-----------------------------------------------------------------------------
\* _max_assigned_nonce: over the rows of every rail.
NextNonce(pending) == Max({pending, reward.nonce + 1} \union {n + 1 : n \in rail.nonces})

(* The worker sender (Payouts), as far as it shares lock and nonces. *)

RailLocks ==
    /\ rail.at = "free" /\ rail' = [rail EXCEPT !.at = "locked"]
    /\ UNCHANGED <<reward, best, pool, blocks, final, run>>

RailChooses ==
    /\ rail.at = "locked"
    /\ \E pending \in 0..Len(blocks) :
         /\ NextNonce(pending) < MaxHeight
         /\ rail' = [rail EXCEPT !.at = "chosen", !.pick = NextNonce(pending)]
    /\ UNCHANGED <<reward, best, pool, blocks, final, run>>

\* Its nonce is recorded, or it dies before.
RailEnds ==
    /\ rail.at # "free"
    /\ \E recorded \in BOOLEAN :
         /\ recorded => rail.at = "chosen"
         /\ rail' = [at |-> "free", pick |-> NoNonce,
                     nonces |-> IF recorded THEN rail.nonces \union {rail.pick} ELSE rail.nonces]
    /\ UNCHANGED <<reward, best, pool, blocks, final, run>>

-----------------------------------------------------------------------------
(* send_payment *)

Enters(x, at) == run' = [run EXCEPT ![x].at = at]
HasRow(x, status) == run' = [run EXCEPT ![x].at = "bound", ![x].seen = status]
Decides(x, verdict) == run' = [run EXCEPT ![x].at = "decided", ![x].verdict = verdict]

\* preview_payment, and the row read again: resume it, or plan a new one.
StartSend(x) ==
    /\ run[x].at = "off"
    /\ IF reward.status = "none" THEN Enters(x, "planned") ELSE HasRow(x, reward.status)
    /\ UNCHANGED <<reward, best, pool, blocks, final, rail>>

\* Screened and affordable; the pending count is read before any lock.
ReadPending(x) ==
    /\ run[x].at = "planned"
    /\ \E pending \in 0..Len(blocks) :
         run' = [run EXCEPT ![x].at = "priced", ![x].pending = pending]
    /\ UNCHANGED <<reward, best, pool, blocks, final, rail>>

\* _bind, under the payout lock: another call may have been first.
BindReward(x) ==
    /\ run[x].at = "priced" /\ rail.at = "free"
    /\ IF reward.status = "none"
       THEN /\ reward' = [status |-> "pending", nonce |-> NextNonce(run[x].pending)]
            /\ best' = "pending"
            /\ HasRow(x, "pending")
       ELSE /\ HasRow(x, reward.status)
            /\ UNCHANGED <<reward, best>>
    /\ UNCHANGED <<pool, blocks, final, rail>>

\* _receipt: what the chain says of the one transaction.
Receipt == LET n == reward.nonce IN
    IF n >= Len(blocks) THEN "not_mined"
    ELSE IF ~blocks[n + 1].reward THEN "manual_review"
    ELSE IF n >= final THEN "pending"
    ELSE IF blocks[n + 1].ok THEN "sent" ELSE "manual_review"

\* Only an unmined transaction of a pending row goes on to be broadcast.
ReadReceipt(x) ==
    /\ run[x].at = "bound"
    /\ IF Receipt = "not_mined" /\ run[x].seen = "pending" THEN Enters(x, "clear")
       ELSE Decides(x, IF Receipt = "not_mined" THEN "pending" ELSE Receipt)
    /\ UNCHANGED <<reward, best, pool, blocks, final, rail>>

\* The screening holds the payment, or the node answers with another hash.
HoldForReview(x) ==
    /\ run[x].at = "clear" /\ Decides(x, "manual_review")
    /\ UNCHANGED <<reward, best, pool, blocks, final, rail>>

\* The recorded bytes, whether or not the network gets them.
BroadcastReward(x) ==
    /\ run[x].at = "clear"
    /\ pool' \in {pool, pool \union {reward.nonce}}
    /\ Enters(x, "submitted") \/ Decides(x, "pending")
    /\ UNCHANGED <<reward, best, blocks, final, rail>>

ReadReceiptAgain(x) ==
    /\ run[x].at = "submitted"
    /\ Decides(x, IF Receipt = "not_mined" THEN "pending" ELSE Receipt)
    /\ UNCHANGED <<reward, best, pool, blocks, final, rail>>

\* An unreachable chain decides nothing.
ReceiptUnavailable(x) ==
    /\ run[x].at \in {"bound", "submitted"} /\ Decides(x, "pending")
    /\ UNCHANGED <<reward, best, pool, blocks, final, rail>>

\* (mutant) the last to look decides
AllowedAlways(status) == TRUE

\* _status: a hold yields to proof alone, and a proof to nothing.
Allowed(status) == reward.status \in IF status = "sent" THEN {"pending", "manual_review"}
                                                        ELSE {"pending"}

WriteStatus(x) ==
    LET status == run[x].verdict IN
    /\ run[x].at = "decided"
    /\ reward' = IF Allowed(status) THEN [reward EXCEPT !.status = status] ELSE reward
    /\ best' = IF best = "sent" \/ status = "pending" THEN best
               ELSE IF status = "sent" THEN "sent" ELSE "manual_review"
    /\ run' = [run EXCEPT ![x] = Resting]
    /\ UNCHANGED <<pool, blocks, final, rail>>

\* Screening or preflight refuse, or the process dies.
SendStops(x) ==
    /\ run[x].at # "off" /\ run' = [run EXCEPT ![x] = Resting]
    /\ UNCHANGED <<reward, best, pool, blocks, final, rail>>

RewardNext ==
    \/ MineTreasury \/ Finalize \/ Reorganize \/ RailLocks \/ RailChooses \/ RailEnds
    \/ \E x \in Runs :
         \/ StartSend(x) \/ ReadPending(x) \/ BindReward(x) \/ ReadReceipt(x)
         \/ HoldForReview(x) \/ BroadcastReward(x) \/ ReadReceiptAgain(x)
         \/ ReceiptUnavailable(x) \/ WriteStatus(x) \/ SendStops(x)

RewardSpec == RewardInit /\ [][RewardNext]_rewardVars

-----------------------------------------------------------------------------
(***************************************************************************)
(* A reward is one transaction at one nonce that no worker payout has, and *)
(* nothing else of it ever reaches the network; "sent" means that it is    *)
(* final and succeeded; and no late observer takes back a proof or clears  *)
(* a hold without one ("Concurrent observers cannot downgrade a finalized  *)
(* payment or clear a manual hold", _status).                              *)
(***************************************************************************)
RewardPaidOnce ==
    /\ pool \subseteq {reward.nonce} /\ reward.nonce \notin rail.nonces
    /\ \A n \in 1..Len(blocks) : blocks[n].reward => reward.nonce = n - 1
    /\ reward.status = "sent" =>
         reward.nonce < final /\ blocks[reward.nonce + 1] = [reward |-> TRUE, ok |-> TRUE]
    /\ reward.status = best
=============================================================================
