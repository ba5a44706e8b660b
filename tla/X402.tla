-------------------------------- MODULE X402 --------------------------------
(***************************************************************************)
(* Payments of accountless requests: the buyer signs a permit up to a      *)
(* ceiling, the request runs, and a facilitator collects the exact charge  *)
(* on chain.  Its answer may be lost, late or wrong; a payment counts only *)
(* once a prover (the monitor, or an operator) has found the transfer on   *)
(* chain.  Every database transaction, every call to the facilitator and   *)
(* every look at the chain is a step of its own.                           *)
(***************************************************************************)
EXTENDS Integers, FiniteSets

CONSTANTS
    Purchases,      \* the requests
    Permits,        \* signed authorizations
    BuyerOf,        \* the account that signed a permit
    Receipts,       \* transaction hashes
    Charges,        \* what a request may cost, within every permit's ceiling
    Provers,        \* the monitors, one per API process, and the operators
    Monitors,       \* those that only prove what a facilitator reported
    NoPermit, NoReceipt, NoPurchase

ASSUME X402Assumption ==
    /\ BuyerOf \in [Permits -> Permits] /\ Monitors \subseteq Provers
    /\ Charges \subseteq Nat \ {0}
    /\ NoPermit \notin Permits /\ NoReceipt \notin Receipts /\ NoPurchase \notin Purchases

VARIABLES
    payment,    \* grid_x402_payments: status, permit, attempted amount, transaction
    bill,       \* the reservation: status and terminal charge
    asked,      \* what the request's settlement does
    handed,     \* has the facilitator been told to collect
    onchain,    \* the confirmed transfer of a transaction: buyer, permit, amount
    prover      \* what each prover does

x402Vars == <<payment, bill, asked, handed, onchain, prover>>

NoPayment == [status |-> "none", permit |-> NoPermit, micro |-> 0, receipt |-> NoReceipt]
NoTransfer == [buyer |-> NoPermit, permit |-> NoPermit, micro |-> 0]
AtRest == [busy |-> FALSE, job |-> NoPurchase, receipt |-> NoReceipt]

X402TypeOK ==
    /\ payment \in [Purchases ->
         [status : {"none", "verified", "settling", "reported", "manual_review", "settled"},
          permit : Permits \union {NoPermit}, micro : Charges \union {0},
          receipt : Receipts \union {NoReceipt}]]
    /\ bill \in [Purchases -> [status : {"none", "held", "settled", "refunded"},
                               micro : Charges \union {0}]]
    /\ asked \in [Purchases -> {"no", "asking", "over"}]
    /\ handed \in [Purchases -> BOOLEAN]
    /\ onchain \in [Receipts -> [buyer : Permits \union {NoPermit},
                                 permit : Permits \union {NoPermit},
                                 micro : Charges \union {0}]]
    /\ prover \in [Provers -> [busy : BOOLEAN, job : Purchases \union {NoPurchase},
                               receipt : Receipts \union {NoReceipt}]]

X402Init ==
    /\ payment = [j \in Purchases |-> NoPayment]
    /\ bill    = [j \in Purchases |-> [status |-> "none", micro |-> 0]]
    /\ asked   = [j \in Purchases |-> "no"]
    /\ handed  = [j \in Purchases |-> FALSE]
    /\ onchain = [h \in Receipts |-> NoTransfer]
    /\ prover  = [p \in Provers |-> AtRest]

-----------------------------------------------------------------------------
(* The request. *)

\* Hold and payment row in one transaction; a permit is taken once.
OpenPurchase(j, permit) ==
    /\ payment[j].status = "none"
    /\ \A k \in Purchases : payment[k].permit # permit
    /\ payment' = [payment EXCEPT ![j].status = "verified", ![j].permit = permit]
    /\ bill' = [bill EXCEPT ![j].status = "held"]
    /\ UNCHANGED <<asked, handed, onchain, prover>>

\* The worker's terminal, a release, or a sweep of the hold.
CloseBill(j) ==
    /\ bill[j].status = "held"
    /\ \/ \E micro \in Charges : bill' = [bill EXCEPT ![j] = [status |-> "settled", micro |-> micro]]
       \/ bill' = [bill EXCEPT ![j].status = "refunded"]
    /\ UNCHANGED <<payment, asked, handed, onchain, prover>>

\* _before_settle: the charge of a settled bill is made durable first.
BeforeSettle(j) ==
    /\ asked[j] = "no" /\ bill[j].status = "settled"
    /\ payment[j].status = "verified"
    /\ payment' = [payment EXCEPT ![j].status = "settling", ![j].micro = bill[j].micro]
    /\ asked' = [asked EXCEPT ![j] = "asking"]
    /\ UNCHANGED <<bill, handed, onchain, prover>>

AskFacilitator(j) ==
    /\ asked[j] = "asking" /\ ~handed[j]
    /\ handed' = [handed EXCEPT ![j] = TRUE]
    /\ UNCHANGED <<payment, bill, asked, onchain, prover>>

\* _after_settle: the transaction the facilitator reports, a guess until it is
\* proven; a hash another payment has breaks the transaction.
Reported(j, h) ==
    /\ payment[j].status = "settling"
    /\ \A k \in Purchases \ {j} : payment[k].receipt # h

AfterSettle(j, h) ==
    /\ asked[j] = "asking" /\ handed[j]
    /\ payment' = IF Reported(j, h)
                  THEN [payment EXCEPT ![j].status = "reported", ![j].receipt = h]
                  ELSE payment
    /\ asked' = [asked EXCEPT ![j] = "over"]
    /\ UNCHANGED <<bill, handed, onchain, prover>>

\* _on_settle_failure: a failure, a timeout or a broken answer.
SettleFailed(j) ==
    /\ asked[j] = "asking"
    /\ payment' = IF payment[j].status = "settling"
                  THEN [payment EXCEPT ![j].status = "manual_review"] ELSE payment
    /\ asked' = [asked EXCEPT ![j] = "over"]
    /\ UNCHANGED <<bill, handed, onchain, prover>>

\* The process dies, or its hook cannot write.
RequestDies(j) ==
    /\ asked[j] = "asking"
    /\ asked' = [asked EXCEPT ![j] = "over"]
    /\ UNCHANGED <<payment, bill, handed, onchain, prover>>

-----------------------------------------------------------------------------
(* The chain: external. *)

\* The facilitator collects what it was told, whether or not anybody still
\* waits for it; a permit is spent once.
Collect(j, h) ==
    /\ handed[j] /\ onchain[h] = NoTransfer
    /\ \A k \in Receipts : onchain[k].permit # payment[j].permit
    /\ onchain' = [onchain EXCEPT ![h] = [buyer |-> BuyerOf[payment[j].permit],
                      permit |-> payment[j].permit, micro |-> payment[j].micro]]
    /\ UNCHANGED <<payment, bill, asked, handed, prover>>

\* A buyer sends money of its own accord.
SendDirectly(buyer, h, micro) ==
    /\ onchain[h] = NoTransfer
    /\ onchain' = [onchain EXCEPT ![h] = [buyer |-> buyer, permit |-> NoPermit, micro |-> micro]]
    /\ UNCHANGED <<payment, bill, asked, handed, prover>>

-----------------------------------------------------------------------------
(* The provers. *)

\* First transaction of reconcile_transaction, on a report or by hand.
Look(p, j, h) ==
    /\ ~prover[p].busy
    /\ payment[j].status \notin {"none", "settled"}
    /\ payment[j].micro # 0 /\ bill[j].micro = payment[j].micro
    /\ p \in Monitors => payment[j].status = "reported" /\ payment[j].receipt = h
    /\ prover' = [prover EXCEPT ![p] = [busy |-> TRUE, job |-> j, receipt |-> h]]
    /\ UNCHANGED <<payment, bill, asked, handed, onchain>>

\* The confirmed transfer has this buyer and exactly this amount.
Proven(j, h) ==
    /\ onchain[h].buyer = BuyerOf[payment[j].permit]
    /\ onchain[h].micro = payment[j].micro

\* (mutant) the transaction may be another payment's
UnprovenAnyhow(j, h) == payment[j].status # "settled"

\* Second transaction: still open, and no other payment has the transaction.
Unproven(j, h) ==
    /\ payment[j].status # "settled"
    /\ \A k \in Purchases \ {j} : payment[k].receipt # h

Stops(p) == prover' = [prover EXCEPT ![p] = AtRest]

Prove(p) ==
    LET j == prover[p].job
        h == prover[p].receipt IN
    /\ prover[p].busy /\ Proven(j, h)
    /\ payment' = IF Unproven(j, h)
                  THEN [payment EXCEPT ![j].status = "settled", ![j].receipt = h] ELSE payment
    /\ Stops(p)
    /\ UNCHANGED <<bill, asked, handed, onchain>>

\* A confirmed transaction that is not this transfer, or outside its window.
\* The monitor hands a payment that is still reported to the operator.
Refute(p) ==
    LET j == prover[p].job IN
    /\ prover[p].busy /\ onchain[prover[p].receipt] # NoTransfer
    /\ payment' = IF p \in Monitors /\ payment[j].status = "reported"
                  THEN [payment EXCEPT ![j].status = "manual_review"] ELSE payment
    /\ Stops(p)
    /\ UNCHANGED <<bill, asked, handed, onchain>>

\* Not confirmed yet, or the node does not answer.
NoProofYet(p) ==
    /\ prover[p].busy /\ Stops(p)
    /\ UNCHANGED <<payment, bill, asked, handed, onchain>>

\* flag_stale_settlements.
FlagStale(j) ==
    /\ payment[j].status \in {"settling", "reported"}
    /\ payment' = [payment EXCEPT ![j].status = "manual_review"]
    /\ UNCHANGED <<bill, asked, handed, onchain, prover>>

X402Next ==
    \/ \E j \in Purchases :
         \/ CloseBill(j) \/ BeforeSettle(j) \/ AskFacilitator(j) \/ SettleFailed(j)
         \/ RequestDies(j) \/ FlagStale(j)
         \/ \E permit \in Permits : OpenPurchase(j, permit)
         \/ \E h \in Receipts :
              \/ AfterSettle(j, h) \/ Collect(j, h)
              \/ \E p \in Provers : Look(p, j, h)
    \/ \E p \in Provers : Prove(p) \/ Refute(p) \/ NoProofYet(p)
    \/ \E permit \in Permits, h \in Receipts, micro \in Charges :
         SendDirectly(BuyerOf[permit], h, micro)

X402Spec == X402Init /\ [][X402Next]_x402Vars

-----------------------------------------------------------------------------
(***************************************************************************)
(* The books and the chain agree.  A settled payment has a transfer of its *)
(* own, from its buyer and of exactly its charge, even when reports are    *)
(* wrong, when two payments of a buyer cost the same, and when a monitor   *)
(* and an operator prove at once.  And whatever a facilitator collected,   *)
(* also after its answer was lost, belongs to a payment that recorded the  *)
(* amount of a settled bill before it asked (x402_payments.py, "before the *)
(* facilitator can touch chain").                                          *)
(***************************************************************************)
BooksMatchChain ==
    /\ \A j \in Purchases : payment[j].status = "settled" =>
         /\ bill[j] = [status |-> "settled", micro |-> payment[j].micro]
         /\ payment[j].receipt # NoReceipt
         /\ Proven(j, payment[j].receipt)
         /\ \A k \in Purchases \ {j} : payment[k].receipt # payment[j].receipt
    /\ \A h \in Receipts : onchain[h].permit # NoPermit =>
         \E j \in Purchases :
            /\ payment[j].permit = onchain[h].permit
            /\ payment[j].status \in {"settling", "reported", "manual_review", "settled"}
            /\ bill[j] = [status |-> "settled", micro |-> onchain[h].micro]
=============================================================================
