------------------------------ MODULE JobMoney ------------------------------
(***************************************************************************)
(* What the reservation lifecycle promises of one job's purchased credit,  *)
(* with nothing of how it is done: money is held, and then either the      *)
(* customer is charged and the worker paid in one step, or the hold is     *)
(* refunded in full and the worker never paid.  Work dispatched without a  *)
(* hold (dry run, free models) is recorded for the worker and costs        *)
(* nothing.  Both outcomes are final.                                      *)
(***************************************************************************)
EXTENDS Integers

CONSTANT Jobs

VARIABLES
    phase,      \* "open" before a hold, then "held", then how it ended
    worker,     \* is the worker's payout recorded
    cost        \* what the job has taken from its account

moneyVars == <<phase, worker, cost>>

\* A hold can predate the atomic terminal: its worker may be recorded already.
MoneyInit ==
    /\ phase \in [Jobs -> {"open", "held"}]
    /\ worker \in [Jobs -> BOOLEAN]
    /\ cost \in [Jobs -> Int]
    /\ \A j \in Jobs : phase[j] = "open" => cost[j] = 0 /\ ~worker[j]

\* Only job j changes; its cost is any amount the step's condition allows.
Becomes(j, p, w) ==
    /\ phase'  = [phase EXCEPT ![j] = p]
    /\ worker' = [worker EXCEPT ![j] = w]
    /\ cost'   = [cost EXCEPT ![j] = cost'[j]]

HoldMoney(j) ==
    /\ phase[j] = "open" /\ ~worker[j]
    /\ Becomes(j, "held", FALSE) /\ cost'[j] \in Nat

RecordUnheld(j) ==
    /\ phase[j] = "open" /\ ~worker[j]
    /\ Becomes(j, "open", TRUE) /\ cost'[j] = 0

ChargeMoney(j) ==
    /\ phase[j] = "held"
    /\ Becomes(j, "charged", TRUE) /\ cost'[j] \in Nat

RefundMoney(j) ==
    /\ phase[j] = "held" /\ ~worker[j]
    /\ Becomes(j, "refunded", FALSE) /\ cost'[j] = 0

MoneyNext == \E j \in Jobs :
    HoldMoney(j) \/ RecordUnheld(j) \/ ChargeMoney(j) \/ RefundMoney(j)

MoneySpec == MoneyInit /\ [][MoneyNext]_moneyVars
=============================================================================
