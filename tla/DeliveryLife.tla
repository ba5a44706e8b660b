----------------------------- MODULE DeliveryLife -----------------------------
(***************************************************************************)
(* What the job queue promises of one job, with nothing of streams and     *)
(* workers: from its submission the job has a delivery until it has none   *)
(* any more, for good; and only a bounded number of deliveries is ever     *)
(* made besides those that recover a job from a worker that went silent.   *)
(***************************************************************************)
EXTENDS Integers

CONSTANTS Jobs, Budget

VARIABLES
    phase,  \* "unsent", "live" or "gone"
    made,   \* deliveries made of each job
    saved   \* those of them that recovered it

deliveryVars == <<phase, made, saved>>

DeliveryInit ==
    /\ phase = [j \in Jobs |-> "unsent"]
    /\ made  = [j \in Jobs |-> 0]
    /\ saved = [j \in Jobs |-> 0]

SubmitOnce(j) ==
    /\ phase[j] = "unsent"
    /\ phase' = [phase EXCEPT ![j] = "live"]
    /\ made' = [made EXCEPT ![j] = @ + 1]
    /\ UNCHANGED saved

RetryWithin(j) ==
    /\ phase[j] = "live" /\ made[j] - saved[j] < Budget
    /\ made' = [made EXCEPT ![j] = @ + 1]
    /\ UNCHANGED <<phase, saved>>

Save(j) ==
    /\ phase[j] = "live"
    /\ made' = [made EXCEPT ![j] = @ + 1]
    /\ saved' = [saved EXCEPT ![j] = @ + 1]
    /\ UNCHANGED phase

EndDelivery(j) ==
    /\ phase[j] = "live"
    /\ phase' = [phase EXCEPT ![j] = "gone"]
    /\ UNCHANGED <<made, saved>>

DeliveryNext == \E j \in Jobs :
    SubmitOnce(j) \/ RetryWithin(j) \/ Save(j) \/ EndDelivery(j)

DeliverySpec == DeliveryInit /\ [][DeliveryNext]_deliveryVars
=============================================================================
