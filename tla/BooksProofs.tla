---------------------------- MODULE BooksProofs ----------------------------
(***************************************************************************)
(* Proofs about the components of MCBooks that agree on something with     *)
(* others: what x402 payments collect is accounted for; the pairing        *)
(* protocol keeps an association mutual and does to it only what           *)
(* Association allows; rewards have the consent of both wallets; witnesses *)
(* are independent; verdicts have a quorum; success is announced after     *)
(* settlement; and a rig has one key.                                      *)
(***************************************************************************)
EXTENDS NodeLink, RewardConsent, X402, ReferencePool, ProbeQuorum, TokenStream, Enrollment,
        SequenceTheorems, SetProofs

-----------------------------------------------------------------------------
(* x402 payments. *)

USE X402Assumption

Durable == {"settling", "reported", "manual_review", "settled"}

PaymentRows == [status : {"none", "verified", "settling", "reported", "manual_review", "settled"},
                permit : Permits \union {NoPermit}, micro : Charges \union {0},
                receipt : Receipts \union {NoReceipt}]

(***************************************************************************)
(* The inductive invariant.  A payment past its verification is backed by  *)
(* a settled bill, and only such a payment is asked for, handed over,      *)
(* collected or looked at; a proven transaction belongs to one payment.    *)
(***************************************************************************)
RequestOK(j) ==
    /\ payment[j].status = "none" => payment[j] = NoPayment /\ bill[j].status = "none"
    /\ payment[j].status # "none" => payment[j].permit \in Permits
    /\ payment[j].status = "verified" => payment[j].micro = 0
    /\ payment[j].status \in Durable =>
         /\ payment[j].micro \in Charges
         /\ bill[j] = [status |-> "settled", micro |-> payment[j].micro]
    /\ bill[j].status = "settled" => bill[j].micro \in Charges
    /\ handed[j] \/ asked[j] = "asking" => payment[j].status \in Durable

ProverOK(p) == prover[p].busy =>
    /\ prover[p].job \in Purchases /\ prover[p].receipt \in Receipts
    /\ payment[prover[p].job].status \in Durable

ProofOK(j) == payment[j].status = "settled" =>
    /\ payment[j].receipt \in Receipts /\ Proven(j, payment[j].receipt)
    /\ \A k \in Purchases \ {j} : payment[k].receipt # payment[j].receipt

CollectedOK(h) == onchain[h].permit # NoPermit =>
    \E j \in Purchases :
        /\ payment[j].permit = onchain[h].permit /\ payment[j].status \in Durable
        /\ payment[j].micro = onchain[h].micro

PaymentInv ==
    /\ X402TypeOK
    /\ \A j \in Purchases : RequestOK(j) /\ ProofOK(j)
    /\ \A p \in Provers : ProverOK(p)
    /\ \A h \in Receipts : CollectedOK(h)

\* Nothing is asked for or collected at the start.
LEMMA PaymentInit == X402Init => PaymentInv
BY DEF X402Init, PaymentInv, X402TypeOK, RequestOK, ProverOK, ProofOK, CollectedOK,
       NoPayment, NoTransfer, AtRest, Durable

\* Payments have the type X402TypeOK gives them.
LEMMA PaymentRowsTyped == PaymentInv => payment \in [Purchases -> PaymentRows]
BY DEF PaymentInv, X402TypeOK, PaymentRows

-----------------------------------------------------------------------------
(* What a step has to respect. *)

\* A durable payment stays durable, with its permit and its charge.
DurableKept == \A k \in Purchases : payment[k].status \in Durable =>
    /\ payment'[k].status \in Durable /\ payment'[k].permit = payment[k].permit
    /\ payment'[k].micro = payment[k].micro

OthersKept(j) == \A k \in Purchases : k # j => payment'[k] = payment[k]

\* So what was collected stays accounted for.
LEMMA CollectedKept ==
    ASSUME PaymentInv, UNCHANGED onchain, DurableKept
    PROVE  \A h \in Receipts : CollectedOK(h)'
<1> SUFFICES ASSUME NEW h \in Receipts PROVE CollectedOK(h)'
  OBVIOUS
<1>1. CollectedOK(h) /\ onchain'[h] = onchain[h]
  BY DEF PaymentInv
<1> QED
  BY <1>1 DEF CollectedOK, DurableKept

\* A prover goes on looking at what it looked at, or stops.
LEMMA ProversKept ==
    ASSUME PaymentInv, DurableKept,
           \A p \in Provers : prover'[p] = prover[p] \/ ~prover'[p].busy
    PROVE  \A p \in Provers : ProverOK(p)'
<1> SUFFICES ASSUME NEW p \in Provers PROVE ProverOK(p)'
  OBVIOUS
<1>1. ProverOK(p)
  BY DEF PaymentInv
<1> QED
  BY <1>1 DEF ProverOK, DurableKept

\* Transactions that were proven stay so, when payment j keeps its own or
\* takes one nobody has.
LEMMA ProofsKept ==
    ASSUME PaymentInv, NEW j \in Purchases, OthersKept(j), UNCHANGED onchain,
           payment'[j].permit = payment[j].permit, payment'[j].micro = payment[j].micro,
           \/ /\ payment'[j].receipt = payment[j].receipt
              /\ payment'[j].status = "settled" => payment[j].status = "settled"
           \/ /\ payment'[j].receipt \in Receipts
              /\ \A k \in Purchases \ {j} : payment[k].receipt # payment'[j].receipt
              /\ payment'[j].status = "settled" => Proven(j, payment'[j].receipt)
    PROVE  \A k \in Purchases : ProofOK(k)'
<1>1. \A k \in Purchases : ProofOK(k)
  BY DEF PaymentInv
<1>2. ProofOK(j)'
  BY <1>1 DEF ProofOK, Proven, OthersKept
<1>3. ASSUME NEW k \in Purchases, k # j PROVE ProofOK(k)'
  BY <1>1, <1>3 DEF ProofOK, Proven, OthersKept
<1> QED
  BY <1>2, <1>3

\* A durable payment moves on.
LEMMA PaymentMoves ==
    ASSUME PaymentInv, X402TypeOK', NEW j \in Purchases, OthersKept(j),
           UNCHANGED <<bill, handed, onchain>>,
           \A k \in Purchases : asked'[k] = "asking" => asked[k] = "asking",
           \A p \in Provers : prover'[p] = prover[p] \/ ~prover'[p].busy,
           payment[j].status \in Durable, payment'[j].status \in Durable,
           payment'[j].permit = payment[j].permit, payment'[j].micro = payment[j].micro,
           \/ /\ payment'[j].receipt = payment[j].receipt
              /\ payment'[j].status = "settled" => payment[j].status = "settled"
           \/ /\ payment'[j].receipt \in Receipts
              /\ \A k \in Purchases \ {j} : payment[k].receipt # payment'[j].receipt
              /\ payment'[j].status = "settled" => Proven(j, payment'[j].receipt)
    PROVE  PaymentInv'
<1>1. DurableKept
  BY DEF DurableKept, OthersKept
<1>2. \A k \in Purchases : RequestOK(k)'
  <2> SUFFICES ASSUME NEW k \in Purchases PROVE RequestOK(k)'
    OBVIOUS
  <2>1. RequestOK(k)
    BY DEF PaymentInv
  <2>2. CASE k = j
    BY <2>1, <2>2 DEF RequestOK, Durable
  <2>3. CASE k # j
    BY <2>1, <2>3 DEF RequestOK, OthersKept
  <2> QED
    BY <2>2, <2>3
<1> QED
  BY <1>1, <1>2, CollectedKept, ProversKept, ProofsKept DEF PaymentInv

\* No payment moves.
LEMMA PaymentsRest ==
    ASSUME PaymentInv, X402TypeOK', UNCHANGED <<payment, onchain>>,
           \A j \in Purchases : RequestOK(j)',
           \A p \in Provers : prover'[p] = prover[p] \/ ~prover'[p].busy
    PROVE  PaymentInv'
<1>1. DurableKept
  BY DEF DurableKept
<1>2. \A j \in Purchases : ProofOK(j)'
  BY DEF PaymentInv, ProofOK, Proven
<1> QED
  BY <1>1, <1>2, CollectedKept, ProversKept DEF PaymentInv

\* One payment takes a status, and perhaps a transaction.
LEMMA PaymentTyped ==
    ASSUME PaymentInv, NEW j \in Purchases, NEW receipt \in Receipts \union {NoReceipt},
           NEW status \in Durable
    PROVE  /\ [payment EXCEPT ![j].status = status] \in [Purchases -> PaymentRows]
           /\ [payment EXCEPT ![j].status = status, ![j].receipt = receipt]
                \in [Purchases -> PaymentRows]
<1>1. payment \in [Purchases -> PaymentRows]
  BY PaymentRowsTyped
<1>2. payment[j] \in PaymentRows
  BY <1>1
<1>3. [payment[j] EXCEPT !.status = status] \in PaymentRows
  BY <1>2 DEF PaymentRows, Durable
<1>4. [payment[j] EXCEPT !.status = status, !.receipt = receipt] \in PaymentRows
  BY <1>2 DEF PaymentRows, Durable
<1>5. [payment EXCEPT ![j] = [payment[j] EXCEPT !.status = status]] \in [Purchases -> PaymentRows]
  BY <1>1, <1>3
<1>6. [payment EXCEPT ![j] = [payment[j] EXCEPT !.status = status, !.receipt = receipt]]
        \in [Purchases -> PaymentRows]
  BY <1>1, <1>4
<1> QED
  BY <1>5, <1>6, <1>1

\* What such a change does to the row.
LEMMA PaymentTakes ==
    ASSUME PaymentInv, NEW j \in Purchases, NEW receipt \in Receipts \union {NoReceipt},
           NEW status \in Durable,
           \/ payment' = [payment EXCEPT ![j].status = status]
           \/ payment' = [payment EXCEPT ![j].status = status, ![j].receipt = receipt]
    PROVE  /\ payment' \in [Purchases -> PaymentRows] /\ OthersKept(j)
           /\ payment'[j].status = status
           /\ payment'[j].permit = payment[j].permit /\ payment'[j].micro = payment[j].micro
           /\ \/ payment'[j].receipt = payment[j].receipt
                 /\ payment' = [payment EXCEPT ![j].status = status]
              \/ payment'[j].receipt = receipt
                 /\ payment' = [payment EXCEPT ![j].status = status, ![j].receipt = receipt]
<1>1. payment \in [Purchases -> PaymentRows] /\ payment[j] \in PaymentRows
  BY PaymentRowsTyped
<1>2. CASE payment' = [payment EXCEPT ![j].status = status]
  <2>1. payment' = [payment EXCEPT ![j] = [payment[j] EXCEPT !.status = status]]
    BY <1>1, <1>2
  <2>2. payment'[j] = [payment[j] EXCEPT !.status = status] /\ OthersKept(j)
    BY <1>1, <2>1 DEF OthersKept
  <2>3. payment' \in [Purchases -> PaymentRows]
    BY <1>2, PaymentTyped
  <2>4. /\ payment'[j].status = status /\ payment'[j].receipt = payment[j].receipt
        /\ payment'[j].permit = payment[j].permit /\ payment'[j].micro = payment[j].micro
    BY <1>1, <2>2 DEF PaymentRows
  <2> QED
    BY <1>2, <2>2, <2>3, <2>4
<1>3. CASE payment' = [payment EXCEPT ![j].status = status, ![j].receipt = receipt]
  <2>1. payment' = [payment EXCEPT ![j] = [payment[j] EXCEPT !.status = status,
                                                             !.receipt = receipt]]
    BY <1>1, <1>3
  <2>2. /\ payment'[j] = [payment[j] EXCEPT !.status = status, !.receipt = receipt]
        /\ OthersKept(j)
    BY <1>1, <2>1 DEF OthersKept
  <2>3. payment' \in [Purchases -> PaymentRows]
    BY <1>3, PaymentTyped
  <2>4. /\ payment'[j].status = status /\ payment'[j].receipt = receipt
        /\ payment'[j].permit = payment[j].permit /\ payment'[j].micro = payment[j].micro
    BY <1>1, <2>2 DEF PaymentRows
  <2> QED
    BY <1>3, <2>2, <2>3, <2>4
<1> QED
  BY <1>2, <1>3

-----------------------------------------------------------------------------
(* The actions. *)

\* What a request does keeps the invariant.
LEMMA RequestSafe ==
    ASSUME PaymentInv, NEW j \in Purchases,
           \/ CloseBill(j) \/ BeforeSettle(j) \/ AskFacilitator(j) \/ SettleFailed(j)
           \/ RequestDies(j) \/ FlagStale(j)
           \/ (\E permit \in Permits : OpenPurchase(j, permit))
           \/ (\E h \in Receipts : AfterSettle(j, h))
    PROVE  PaymentInv'
<1>0. /\ payment \in [Purchases -> PaymentRows] /\ payment[j] \in PaymentRows
      /\ bill \in [Purchases -> [status : {"none", "held", "settled", "refunded"},
                                 micro : Charges \union {0}]]
      /\ asked \in [Purchases -> {"no", "asking", "over"}] /\ handed \in [Purchases -> BOOLEAN]
      /\ (\A k \in Purchases : RequestOK(k)) /\ X402TypeOK
  BY PaymentRowsTyped DEF PaymentInv, X402TypeOK
<1>1. ASSUME NEW permit \in Permits, OpenPurchase(j, permit) PROVE PaymentInv'
  <2>1. /\ payment[j] = NoPayment /\ bill[j].status = "none" /\ ~handed[j] /\ asked[j] # "asking"
    BY <1>0, <1>1 DEF OpenPurchase, RequestOK, NoPayment, Durable
  <2>2. /\ OthersKept(j) /\ payment' \in [Purchases -> PaymentRows]
        /\ payment'[j].status = "verified" /\ payment'[j].permit = permit
        /\ payment'[j].micro = 0 /\ payment'[j].receipt = NoReceipt
    <3>1. payment' = [payment EXCEPT ![j] = [payment[j] EXCEPT !.status = "verified",
                                                               !.permit = permit]]
      BY <1>0, <1>1 DEF OpenPurchase
    <3>2. /\ OthersKept(j)
          /\ payment'[j] = [payment[j] EXCEPT !.status = "verified", !.permit = permit]
      BY <1>0, <3>1 DEF OthersKept
    <3>3. payment[j].micro = 0 /\ payment[j].receipt = NoReceipt
      BY <2>1 DEF NoPayment
    <3>4. [payment[j] EXCEPT !.status = "verified", !.permit = permit] \in PaymentRows
      BY <1>0 DEF PaymentRows
    <3>5. payment' \in [Purchases -> PaymentRows]
      BY <1>0, <3>1, <3>4
    <3>6. /\ payment'[j].status = "verified" /\ payment'[j].permit = permit
          /\ payment'[j].micro = 0 /\ payment'[j].receipt = NoReceipt
      BY <1>0, <3>2, <3>3 DEF PaymentRows
    <3> QED
      BY <3>2, <3>5, <3>6
  <2>3. /\ bill'[j].status = "held" /\ (\A k \in Purchases : k # j => bill'[k] = bill[k])
        /\ UNCHANGED <<asked, handed, onchain, prover>>
    BY <1>0, <1>1 DEF OpenPurchase
  <2>4. X402TypeOK'
    <3>1. bill' = [bill EXCEPT ![j] = [bill[j] EXCEPT !.status = "held"]]
      BY <1>0, <1>1 DEF OpenPurchase
    <3>2. [bill[j] EXCEPT !.status = "held"]
            \in [status : {"none", "held", "settled", "refunded"}, micro : Charges \union {0}]
      BY <1>0
    <3>3. bill' \in [Purchases -> [status : {"none", "held", "settled", "refunded"},
                                   micro : Charges \union {0}]]
      BY <1>0, <3>1, <3>2
    <3> QED
      BY <1>0, <2>2, <2>3, <3>3 DEF X402TypeOK, PaymentRows
  <2>5. DurableKept
    BY <2>1, <2>2 DEF DurableKept, OthersKept, NoPayment, Durable
  <2>6. \A k \in Purchases : RequestOK(k)'
    <3>1. RequestOK(j)'
      BY <2>1, <2>2, <2>3 DEF RequestOK, Durable
    <3>2. ASSUME NEW k \in Purchases, k # j PROVE RequestOK(k)'
      BY <1>0, <2>2, <2>3, <3>2 DEF RequestOK, OthersKept
    <3> QED
      BY <3>1, <3>2
  <2>7. \A k \in Purchases : ProofOK(k)'
    <3>1. ProofOK(j)'
      BY <2>2 DEF ProofOK
    <3>2. ASSUME NEW k \in Purchases, k # j PROVE ProofOK(k)'
      <4>1. ProofOK(k) /\ payment'[k] = payment[k] /\ NoReceipt \notin Receipts
        BY <2>2, <3>2 DEF PaymentInv, OthersKept
      <4> QED
        BY <2>2, <2>3, <4>1 DEF ProofOK, Proven, OthersKept
    <3> QED
      BY <3>1, <3>2
  <2> QED
    BY <2>3, <2>4, <2>5, <2>6, <2>7, CollectedKept, ProversKept DEF PaymentInv
<1>2. CASE CloseBill(j)
  <2>1. /\ bill[j].status = "held" /\ UNCHANGED <<payment, asked, handed, onchain, prover>>
        /\ \A k \in Purchases : k # j => bill'[k] = bill[k]
        /\ \/ bill'[j].status = "refunded"
           \/ bill'[j].status = "settled" /\ bill'[j].micro \in Charges
    BY <1>0, <1>2 DEF CloseBill
  <2>2. X402TypeOK'
    <3>1. bill' \in [Purchases -> [status : {"none", "held", "settled", "refunded"},
                                   micro : Charges \union {0}]]
      <4>1. ASSUME NEW micro \in Charges,
                   bill' = [bill EXCEPT ![j] = [status |-> "settled", micro |-> micro]]
            PROVE  bill' \in [Purchases -> [status : {"none", "held", "settled", "refunded"},
                                            micro : Charges \union {0}]]
        BY <1>0, <4>1
      <4>2. ASSUME bill' = [bill EXCEPT ![j].status = "refunded"]
            PROVE  bill' \in [Purchases -> [status : {"none", "held", "settled", "refunded"},
                                            micro : Charges \union {0}]]
        <5>1. bill' = [bill EXCEPT ![j] = [bill[j] EXCEPT !.status = "refunded"]]
          BY <1>0, <4>2
        <5>2. [bill[j] EXCEPT !.status = "refunded"]
                \in [status : {"none", "held", "settled", "refunded"}, micro : Charges \union {0}]
          BY <1>0
        <5> QED
          BY <1>0, <5>1, <5>2
      <4> QED
        BY <1>2, <4>1, <4>2 DEF CloseBill
    <3> QED
      BY <1>0, <2>1, <3>1 DEF X402TypeOK
  <2>3. \A k \in Purchases : RequestOK(k)'
    <3>1. RequestOK(j)'
      BY <1>0, <2>1 DEF RequestOK
    <3>2. ASSUME NEW k \in Purchases, k # j PROVE RequestOK(k)'
      BY <1>0, <2>1, <3>2 DEF RequestOK
    <3> QED
      BY <3>1, <3>2
  <2> QED
    BY <2>1, <2>2, <2>3, PaymentsRest
<1>3. CASE BeforeSettle(j)
  <2>1. /\ payment[j].status = "verified" /\ bill[j].status = "settled" /\ bill[j].micro \in Charges
        /\ UNCHANGED <<bill, handed, onchain, prover>> /\ payment[j].permit \in Permits
        /\ asked' = [asked EXCEPT ![j] = "asking"]
    BY <1>0, <1>3 DEF BeforeSettle, RequestOK
  <2>2. /\ OthersKept(j) /\ payment' \in [Purchases -> PaymentRows]
        /\ payment'[j].status = "settling" /\ payment'[j].micro = bill[j].micro
        /\ payment'[j].permit = payment[j].permit /\ payment'[j].receipt = payment[j].receipt
    <3>1. payment' = [payment EXCEPT ![j] = [payment[j] EXCEPT !.status = "settling",
                                                               !.micro = bill[j].micro]]
      BY <1>0, <1>3 DEF BeforeSettle
    <3>2. [payment[j] EXCEPT !.status = "settling", !.micro = bill[j].micro] \in PaymentRows
      BY <1>0, <2>1 DEF PaymentRows
    <3> QED
      BY <1>0, <3>1, <3>2 DEF OthersKept, PaymentRows
  <2>3. X402TypeOK'
    BY <1>0, <2>1, <2>2 DEF X402TypeOK, PaymentRows
  <2>4. DurableKept
    BY <2>1, <2>2 DEF DurableKept, OthersKept, Durable
  <2>5. \A k \in Purchases : RequestOK(k)'
    <3>1. RequestOK(j)'
      BY <1>0, <2>1, <2>2 DEF RequestOK, Durable
    <3>2. ASSUME NEW k \in Purchases, k # j PROVE RequestOK(k)'
      BY <1>0, <2>1, <2>2, <3>2 DEF RequestOK, OthersKept
    <3> QED
      BY <3>1, <3>2
  <2>6. \A k \in Purchases : ProofOK(k)'
    <3>1. ProofOK(j)'
      BY <2>2 DEF ProofOK
    <3>2. ASSUME NEW k \in Purchases, k # j PROVE ProofOK(k)'
      <4>1. ProofOK(k)
        BY DEF PaymentInv
      <4> QED
        BY <2>1, <2>2, <3>2, <4>1 DEF ProofOK, Proven, OthersKept
    <3> QED
      BY <3>1, <3>2
  <2> QED
    BY <2>1, <2>3, <2>4, <2>5, <2>6, CollectedKept, ProversKept DEF PaymentInv
<1>4. CASE AskFacilitator(j)
  <2>1. X402TypeOK'
    BY <1>0, <1>4 DEF AskFacilitator, X402TypeOK
  <2>2. \A k \in Purchases : RequestOK(k)'
    BY <1>0, <1>4 DEF AskFacilitator, RequestOK
  <2> QED
    BY <1>4, <2>1, <2>2, PaymentsRest DEF AskFacilitator
<1>5. ASSUME NEW h \in Receipts, AfterSettle(j, h) PROVE PaymentInv'
  <2>1. /\ UNCHANGED <<bill, handed, onchain, prover>> /\ asked' = [asked EXCEPT ![j] = "over"]
        /\ \A k \in Purchases : asked'[k] = "asking" => asked[k] = "asking"
    BY <1>0, <1>5 DEF AfterSettle
  <2>2. CASE Reported(j, h)
    <3>1. payment' = [payment EXCEPT ![j].status = "reported", ![j].receipt = h]
      BY <1>5, <2>2 DEF AfterSettle
    <3>2. /\ payment' \in [Purchases -> PaymentRows] /\ OthersKept(j)
          /\ payment'[j].status = "reported"
          /\ payment'[j].permit = payment[j].permit /\ payment'[j].micro = payment[j].micro
          /\ payment'[j].receipt = payment[j].receipt \/ payment'[j].receipt = h
      BY <3>1, PaymentTakes DEF Durable
    <3>3. X402TypeOK'
      BY <1>0, <2>1, <3>2 DEF X402TypeOK, PaymentRows
    <3> QED
      BY <2>1, <2>2, <3>2, <3>3, PaymentMoves DEF Reported, Durable
  <2>3. CASE ~Reported(j, h)
    <3>1. payment' = payment
      BY <1>5, <2>3 DEF AfterSettle
    <3>2. X402TypeOK'
      BY <1>0, <2>1, <3>1 DEF X402TypeOK
    <3>3. \A k \in Purchases : RequestOK(k)'
      BY <1>0, <2>1, <3>1 DEF RequestOK
    <3> QED
      BY <2>1, <3>1, <3>2, <3>3, PaymentsRest
  <2> QED
    BY <2>2, <2>3
<1>6. CASE SettleFailed(j)
  <2>1. /\ UNCHANGED <<bill, handed, onchain, prover>> /\ asked' = [asked EXCEPT ![j] = "over"]
        /\ \A k \in Purchases : asked'[k] = "asking" => asked[k] = "asking"
    BY <1>0, <1>6 DEF SettleFailed
  <2>2. CASE payment[j].status = "settling"
    <3>1. payment' = [payment EXCEPT ![j].status = "manual_review"]
      BY <1>6, <2>2 DEF SettleFailed
    <3>2. /\ payment' \in [Purchases -> PaymentRows] /\ OthersKept(j)
          /\ payment'[j].status = "manual_review"
          /\ payment'[j].permit = payment[j].permit /\ payment'[j].micro = payment[j].micro
          /\ payment'[j].receipt = payment[j].receipt \/ payment'[j].receipt = NoReceipt
      BY <3>1, PaymentTakes DEF Durable
    <3>3. X402TypeOK' /\ payment'[j].receipt = payment[j].receipt
      BY <1>0, <2>1, <3>1, <3>2 DEF X402TypeOK, PaymentRows
    <3> QED
      BY <2>1, <2>2, <3>2, <3>3, PaymentMoves DEF Durable
  <2>3. CASE payment[j].status # "settling"
    <3>1. payment' = payment
      BY <1>6, <2>3 DEF SettleFailed
    <3>2. X402TypeOK'
      BY <1>0, <2>1, <3>1 DEF X402TypeOK
    <3>3. \A k \in Purchases : RequestOK(k)'
      BY <1>0, <2>1, <3>1 DEF RequestOK
    <3> QED
      BY <2>1, <3>1, <3>2, <3>3, PaymentsRest
  <2> QED
    BY <2>2, <2>3
<1>7. CASE RequestDies(j)
  <2>1. X402TypeOK'
    BY <1>0, <1>7 DEF RequestDies, X402TypeOK
  <2>2. \A k \in Purchases : RequestOK(k)'
    BY <1>0, <1>7 DEF RequestDies, RequestOK
  <2> QED
    BY <1>7, <2>1, <2>2, PaymentsRest DEF RequestDies
<1>8. CASE FlagStale(j)
  <2>1. /\ UNCHANGED <<bill, asked, handed, onchain, prover>> /\ payment[j].status \in Durable
        /\ payment[j].status # "settled"
        /\ payment' = [payment EXCEPT ![j].status = "manual_review"]
    BY <1>8 DEF FlagStale, Durable
  <2>2. /\ payment' \in [Purchases -> PaymentRows] /\ OthersKept(j)
        /\ payment'[j].status = "manual_review"
        /\ payment'[j].permit = payment[j].permit /\ payment'[j].micro = payment[j].micro
    BY <2>1, PaymentTakes DEF Durable
  <2>3. X402TypeOK' /\ payment'[j].receipt = payment[j].receipt
    BY <1>0, <2>1, <2>2 DEF X402TypeOK, PaymentRows
  <2> QED
    BY <2>1, <2>2, <2>3, PaymentMoves DEF Durable
<1> QED
  BY <1>1, <1>2, <1>3, <1>4, <1>5, <1>6, <1>7, <1>8

\* A collection is of a durable payment, with its permit and charge.
LEMMA CollectSafe ==
    ASSUME PaymentInv, NEW j \in Purchases, NEW h \in Receipts, Collect(j, h)
    PROVE  PaymentInv'
<1>1. /\ UNCHANGED <<payment, bill, asked, handed, prover>> /\ onchain[h] = NoTransfer
      /\ onchain \in [Receipts -> [buyer : Permits \union {NoPermit},
                                   permit : Permits \union {NoPermit}, micro : Charges \union {0}]]
      /\ payment[j].status \in Durable /\ payment[j].permit \in Permits
      /\ payment[j].micro \in Charges
  BY DEF Collect, PaymentInv, X402TypeOK, RequestOK, Durable
<1>2. onchain' = [onchain EXCEPT ![h] = [buyer |-> BuyerOf[payment[j].permit],
                      permit |-> payment[j].permit, micro |-> payment[j].micro]]
  BY DEF Collect
<1>3. X402TypeOK'
  BY <1>1, <1>2 DEF PaymentInv, X402TypeOK
<1>4. \A k \in Purchases : RequestOK(k)'
  BY <1>1 DEF PaymentInv, RequestOK
<1>5. \A p \in Provers : ProverOK(p)'
  BY <1>1 DEF PaymentInv, ProverOK
<1>6. ASSUME NEW k \in Purchases PROVE ProofOK(k)'
  <2>1. ProofOK(k) /\ RequestOK(k)
    BY DEF PaymentInv
  <2>2. CASE payment[k].status = "settled"
    <3>1. payment[k].micro \in Charges /\ payment[k].receipt # h
      BY <1>1, <2>1, <2>2 DEF ProofOK, RequestOK, Durable, Proven, NoTransfer
    <3>2. onchain'[payment[k].receipt] = onchain[payment[k].receipt]
      BY <1>1, <1>2, <2>1, <2>2, <3>1 DEF ProofOK
    <3> QED
      BY <1>1, <2>1, <3>2 DEF ProofOK, Proven
  <2>3. CASE payment[k].status # "settled"
    BY <1>1, <2>3 DEF ProofOK
  <2> QED
    BY <2>2, <2>3
<1>7. ASSUME NEW k \in Receipts PROVE CollectedOK(k)'
  <2>1. CASE k = h
    BY <1>1, <1>2, <2>1 DEF CollectedOK
  <2>2. CASE k # h
    <3>1. onchain'[k] = onchain[k] /\ CollectedOK(k)
      BY <1>1, <1>2, <2>2 DEF PaymentInv
    <3> QED
      BY <1>1, <3>1 DEF CollectedOK
  <2> QED
    BY <2>1, <2>2
<1> QED
  BY <1>3, <1>4, <1>5, <1>6, <1>7 DEF PaymentInv

\* Money sent directly spends no permit, and no proven transaction changes.
LEMMA DirectSafe ==
    ASSUME PaymentInv, NEW permit \in Permits, NEW h \in Receipts, NEW micro \in Charges,
           SendDirectly(BuyerOf[permit], h, micro)
    PROVE  PaymentInv'
<1>1. /\ UNCHANGED <<payment, bill, asked, handed, prover>> /\ onchain[h] = NoTransfer
      /\ onchain \in [Receipts -> [buyer : Permits \union {NoPermit},
                                   permit : Permits \union {NoPermit}, micro : Charges \union {0}]]
      /\ onchain' = [onchain EXCEPT ![h] = [buyer |-> BuyerOf[permit], permit |-> NoPermit,
                                            micro |-> micro]]
  BY DEF SendDirectly, PaymentInv, X402TypeOK
<1>2. X402TypeOK'
  BY <1>1 DEF PaymentInv, X402TypeOK
<1>3. \A k \in Purchases : RequestOK(k)'
  BY <1>1 DEF PaymentInv, RequestOK
<1>4. \A p \in Provers : ProverOK(p)'
  BY <1>1 DEF PaymentInv, ProverOK
<1>5. ASSUME NEW k \in Purchases PROVE ProofOK(k)'
  <2>1. ProofOK(k) /\ RequestOK(k)
    BY DEF PaymentInv
  <2>2. CASE payment[k].status = "settled"
    <3>1. payment[k].micro \in Charges /\ payment[k].receipt # h
      BY <1>1, <2>1, <2>2 DEF ProofOK, RequestOK, Durable, Proven, NoTransfer
    <3>2. onchain'[payment[k].receipt] = onchain[payment[k].receipt]
      BY <1>1, <2>1, <2>2, <3>1 DEF ProofOK
    <3> QED
      BY <1>1, <2>1, <3>2 DEF ProofOK, Proven
  <2>3. CASE payment[k].status # "settled"
    BY <1>1, <2>3 DEF ProofOK
  <2> QED
    BY <2>2, <2>3
<1>6. ASSUME NEW k \in Receipts PROVE CollectedOK(k)'
  <2>1. CASE k = h
    BY <1>1, <2>1 DEF CollectedOK
  <2>2. CASE k # h
    <3>1. onchain'[k] = onchain[k] /\ CollectedOK(k)
      BY <1>1, <2>2 DEF PaymentInv
    <3> QED
      BY <1>1, <3>1 DEF CollectedOK
  <2> QED
    BY <2>1, <2>2
<1> QED
  BY <1>2, <1>3, <1>4, <1>5, <1>6 DEF PaymentInv

\* A prover settles a payment only with a transaction nobody else has.
LEMMA ProverSafe ==
    ASSUME PaymentInv, NEW p \in Provers,
           \/ Prove(p) \/ Refute(p) \/ NoProofYet(p)
           \/ (\E j \in Purchases, h \in Receipts : Look(p, j, h))
    PROVE  PaymentInv'
<1>0. /\ payment \in [Purchases -> PaymentRows] /\ X402TypeOK /\ ProverOK(p)
      /\ \A k \in Purchases : RequestOK(k)
  BY PaymentRowsTyped DEF PaymentInv
<1>1. ASSUME Stops(p) PROVE /\ \A q \in Provers : prover'[q] = prover[q] \/ ~prover'[q].busy
                            /\ prover' \in [Provers -> [busy : BOOLEAN,
                                              job : Purchases \union {NoPurchase},
                                              receipt : Receipts \union {NoReceipt}]]
  BY <1>0, <1>1 DEF Stops, AtRest, X402TypeOK
<1>2. ASSUME NEW j \in Purchases, NEW h \in Receipts, Look(p, j, h) PROVE PaymentInv'
  <2>1. /\ UNCHANGED <<payment, bill, asked, handed, onchain>>
        /\ prover' = [prover EXCEPT ![p] = [busy |-> TRUE, job |-> j, receipt |-> h]]
        /\ payment[j].status \in Durable
    BY <1>0, <1>2 DEF Look, RequestOK, PaymentRows, Durable
  <2>2. X402TypeOK'
    BY <1>0, <2>1 DEF X402TypeOK
  <2>3. \A k \in Purchases : RequestOK(k)' /\ ProofOK(k)'
    BY <2>1 DEF PaymentInv, RequestOK, ProofOK, Proven
  <2>4. \A k \in Receipts : CollectedOK(k)'
    BY <2>1 DEF PaymentInv, CollectedOK
  <2>5. \A q \in Provers : ProverOK(q)'
    BY <1>0, <2>1 DEF PaymentInv, ProverOK, X402TypeOK
  <2> QED
    BY <2>2, <2>3, <2>4, <2>5 DEF PaymentInv
<1>3. CASE NoProofYet(p)
  <2>1. X402TypeOK' /\ \A k \in Purchases : RequestOK(k)'
    BY <1>0, <1>1, <1>3 DEF NoProofYet, X402TypeOK, RequestOK
  <2> QED
    BY <1>1, <1>3, <2>1, PaymentsRest DEF NoProofYet
<1>4. CASE Prove(p)
  <2> PICK j \in Purchases, h \in Receipts : j = prover[p].job /\ h = prover[p].receipt
    BY <1>0, <1>4 DEF Prove, ProverOK
  <2>1. /\ UNCHANGED <<bill, asked, handed, onchain>> /\ Stops(p) /\ Proven(j, h)
        /\ payment[j].status \in Durable
        /\ payment' = IF Unproven(j, h)
                      THEN [payment EXCEPT ![j].status = "settled", ![j].receipt = h] ELSE payment
    BY <1>0, <1>4 DEF Prove, ProverOK
  <2>2. CASE Unproven(j, h)
    <3>1. payment' = [payment EXCEPT ![j].status = "settled", ![j].receipt = h]
      BY <2>1, <2>2
    <3>2. /\ payment' \in [Purchases -> PaymentRows] /\ OthersKept(j)
          /\ payment'[j].status = "settled"
          /\ payment'[j].permit = payment[j].permit /\ payment'[j].micro = payment[j].micro
      BY <3>1, PaymentTakes, ZenonT(60) DEF Durable
    <3>3. X402TypeOK' /\ payment'[j].receipt = h
      <4>1. X402TypeOK'
        BY <1>0, <1>1, <2>1, <3>2 DEF X402TypeOK, PaymentRows
      <4>2. payment'[j].receipt = h
        BY <1>0, <3>1 DEF PaymentRows
      <4> QED
        BY <4>1, <4>2
    <3>4. \A k \in Purchases \ {j} : payment[k].receipt # h
      BY <2>2 DEF Unproven
    <3> QED
      BY <1>1, <2>1, <3>2, <3>3, <3>4, PaymentMoves, ZenonT(60) DEF Durable
  <2>3. CASE ~Unproven(j, h)
    <3>1. payment' = payment
      BY <2>1, <2>3
    <3>2. X402TypeOK'
      BY <1>0, <1>1, <2>1, <3>1 DEF X402TypeOK
    <3>4. \A k \in Purchases : RequestOK(k)'
      BY <1>0, <1>1, <2>1, <3>1 DEF RequestOK
    <3> QED
      BY <1>1, <2>1, <3>1, <3>2, <3>4, PaymentsRest
  <2> QED
    BY <2>2, <2>3
<1>5. CASE Refute(p)
  <2> PICK j \in Purchases : j = prover[p].job
    BY <1>0, <1>5 DEF Refute, ProverOK
  <2>1. /\ UNCHANGED <<bill, asked, handed, onchain>> /\ Stops(p)
        /\ \/ payment' = payment
           \/ /\ payment[j].status = "reported"
              /\ payment' = [payment EXCEPT ![j].status = "manual_review"]
    BY <1>5 DEF Refute
  <2>2. CASE payment' = payment
    <3>1. X402TypeOK' /\ \A k \in Purchases : RequestOK(k)'
      BY <1>0, <1>1, <2>1, <2>2 DEF X402TypeOK, RequestOK
    <3> QED
      BY <1>1, <2>1, <2>2, <3>1, PaymentsRest
  <2>3. CASE /\ payment[j].status = "reported"
             /\ payment' = [payment EXCEPT ![j].status = "manual_review"]
    <3>1. /\ payment' \in [Purchases -> PaymentRows] /\ OthersKept(j)
          /\ payment'[j].status = "manual_review"
          /\ payment'[j].permit = payment[j].permit /\ payment'[j].micro = payment[j].micro
      BY <2>3, PaymentTakes DEF Durable
    <3>2. X402TypeOK' /\ payment'[j].receipt = payment[j].receipt
      BY <1>0, <1>1, <2>1, <2>3, <3>1 DEF X402TypeOK, PaymentRows
    <3> QED
      BY <1>1, <2>1, <2>3, <3>1, <3>2, PaymentMoves DEF Durable
  <2> QED
    BY <2>1, <2>2, <2>3
<1> QED
  BY <1>2, <1>3, <1>4, <1>5

\* Every step of the request, the chain and the provers keeps PaymentInv.
LEMMA PaymentStep == PaymentInv /\ [X402Next]_x402Vars => PaymentInv'
<1> SUFFICES ASSUME PaymentInv, [X402Next]_x402Vars PROVE PaymentInv'
  OBVIOUS
<1>1. CASE UNCHANGED x402Vars
  BY <1>1 DEF x402Vars, PaymentInv, X402TypeOK, RequestOK, ProverOK, ProofOK, CollectedOK, Proven
<1>2. CASE X402Next
  BY <1>2, RequestSafe, CollectSafe, DirectSafe, ProverSafe DEF X402Next
<1> QED
  BY <1>1, <1>2

\* Backed payments and proven transactions are what the books must match.
LEMMA BackedIsMatched == PaymentInv => BooksMatchChain
<1> SUFFICES ASSUME PaymentInv PROVE BooksMatchChain
  OBVIOUS
<1>1. ASSUME NEW j \in Purchases, payment[j].status = "settled"
      PROVE  /\ bill[j] = [status |-> "settled", micro |-> payment[j].micro]
             /\ payment[j].receipt # NoReceipt /\ Proven(j, payment[j].receipt)
             /\ \A k \in Purchases \ {j} : payment[k].receipt # payment[j].receipt
  BY <1>1 DEF PaymentInv, RequestOK, ProofOK, Durable
<1>2. ASSUME NEW h \in Receipts, onchain[h].permit # NoPermit
      PROVE  \E j \in Purchases :
               /\ payment[j].permit = onchain[h].permit
               /\ payment[j].status \in {"settling", "reported", "manual_review", "settled"}
               /\ bill[j] = [status |-> "settled", micro |-> onchain[h].micro]
  BY <1>2 DEF PaymentInv, RequestOK, CollectedOK, Durable
<1> QED
  BY <1>1, <1>2 DEF BooksMatchChain

(***************************************************************************)
(* PaymentInv is inductive: for any number of purchases and provers, and   *)
(* whatever the facilitator and the chain do.                              *)
(***************************************************************************)
THEOREM PaymentInductive == X402Spec => []PaymentInv
BY PaymentInit, PaymentStep, PTL DEF X402Spec

(***************************************************************************)
(* Every settled payment has a transfer of its own of exactly its charge,  *)
(* and everything a facilitator collected belongs to a settled bill.       *)
(***************************************************************************)
THEOREM BooksAlwaysMatch == X402Spec => []BooksMatchChain
BY PaymentInductive, BackedIsMatched, PTL

-----------------------------------------------------------------------------
(* The association of a node and a human. *)

HIDE X402Assumption
USE LinkAssumption

(***************************************************************************)
(* The inductive invariant.  Pairing numbers only grow, so an open pairing *)
(* is newer than the association and than everything withdrawn; and an     *)
(* approved one is in the history of approvals.                            *)
(***************************************************************************)
PairingInv ==
    /\ slot.status # "none" => slot.id \in PairingIds
    /\ link.id <= slot.id
    /\ \A id \in withdrawn : id <= slot.id
    /\ slot.status \in {"pending", "approved"} =>
         link.id < slot.id /\ slot.id \notin withdrawn
    /\ slot.status = "approved" =>
         slot.operator \in Humans /\ [id |-> slot.id, operator |-> slot.operator] \in approvals

LinkInv == PairingTypeOK /\ PairingInv /\ LinkIsMutual

\* Nothing is paired at the start.
LEMMA LinkInit == AssociationInit /\ PairingInit => LinkInv
BY DEF AssociationInit, PairingInit, LinkInv, PairingTypeOK, AssociationTypeOK, PairingInv,
       LinkIsMutual, NoLink, NoSlot, PairingIds

\* Every step of the protocol keeps LinkInv.
LEMMA LinkStep == LinkInv /\ [LinkNext]_<<identityVars, pairingVars>> => LinkInv'
<1> USE DEF LinkInv, PairingTypeOK, AssociationTypeOK, PairingInv, LinkIsMutual, PairingIds
<1> SUFFICES ASSUME LinkInv, [LinkNext]_<<identityVars, pairingVars>> PROVE LinkInv'
  OBVIOUS
<1>1. CASE CreatePairing
  <2>1. /\ slot'.id = slot.id + 1 /\ slot'.status = "pending" /\ slot'.operator = NoHuman
        /\ slot'.id \in PairingIds
    BY <1>1 DEF CreatePairing, NoSlot
  <2>2. PairingTypeOK'
    BY <1>1, <2>1 DEF CreatePairing, NoSlot, identityVars
  <2>3. link'.id <= slot.id /\ slot.id < slot'.id
    BY <1>1, <2>1 DEF CreatePairing, identityVars
  <2>4. \A id \in withdrawn' : id < slot'.id
    BY <1>1, <2>1 DEF CreatePairing
  <2>5. PairingInv'
    BY <2>1, <2>2, <2>3, <2>4
  <2> QED
    BY <1>1, <2>2, <2>5 DEF CreatePairing, identityVars
<1>2. CASE SignPairing
  BY <1>2 DEF SignPairing, identityVars, Valid
<1>3. CASE ConfirmPairing
  BY <1>3 DEF ConfirmPairing, Associate, Valid
<1>4. CASE CancelPairing
  BY <1>4 DEF CancelPairing, identityVars
<1>5. CASE PairingExpires
  BY <1>5 DEF PairingExpires, identityVars
<1>6. CASE RemoveLink
  BY <1>6, ZenonT(60) DEF RemoveLink, Unlink, UnlinkFromNode, Dissociate
<1>7. ASSUME NEW h \in Humans, AskApproval(h) PROVE LinkInv'
  BY <1>7 DEF AskApproval, identityVars
<1>8. ASSUME NEW h \in Humans, Approve(h) PROVE LinkInv'
  <2>1. CASE UNCHANGED <<slot, approvals>>
    BY <1>8, <2>1 DEF Approve, identityVars
  <2>2. CASE /\ slot.status = "pending"
             /\ slot' = [slot EXCEPT !.operator = h, !.status = "approved"]
             /\ approvals' = approvals \union {[id |-> slot.id, operator |-> h]}
    <3>1. slot'.id = slot.id /\ slot'.operator = h /\ slot'.status = "approved"
      BY <2>2
    <3>2. PairingTypeOK'
      <4>1. slot.id \in PairingIds
        BY <2>2
      <4>2. approvals' \subseteq [id : PairingIds, operator : Humans]
        BY <2>2, <4>1
      <4>3. slot' \in [id : PairingIds \union {0}, key : Keys, operator : Humans \union {NoHuman},
                       status : {"none", "pending", "approved", "linked", "cancelled"},
                       late : BOOLEAN]
        BY <2>2
      <4>4. asking' \in [Humans -> PairingIds \union {0}]
        BY <1>8 DEF Approve
      <4> QED
        BY <1>8, <4>2, <4>3, <4>4 DEF Approve, identityVars
    <3>3. PairingInv'
      BY <1>8, <2>2, <3>1 DEF Approve, identityVars
    <3> QED
      BY <1>8, <2>2, <3>2, <3>3 DEF Approve, identityVars
  <2> QED
    BY <1>8, <2>1, <2>2 DEF Approve
<1>9. CASE (\E k \in Keys : Rotate(k)) /\ UNCHANGED pairingVars
  BY <1>9 DEF Rotate, pairingVars
<1>10. CASE (\E x \in Humans \union {NodeAccount} : RetireAccount(x)) /\ UNCHANGED pairingVars
  BY <1>10 DEF RetireAccount, pairingVars
<1>11. CASE UNCHANGED <<identityVars, pairingVars>>
  BY <1>11 DEF identityVars, pairingVars
<1> QED
  BY <1>1, <1>2, <1>3, <1>4, <1>5, <1>6, <1>7, <1>8, <1>9, <1>10, <1>11 DEF LinkNext

\* A step of the protocol is a step of the association, or leaves it alone.
LEMMA LinkRefines ==
    LinkInv /\ [LinkNext]_<<identityVars, pairingVars>> => [AssociationNext]_identityVars
<1> USE DEF LinkInv, PairingTypeOK, AssociationTypeOK, PairingInv, LinkIsMutual, PairingIds
<1> SUFFICES ASSUME LinkInv, [LinkNext]_<<identityVars, pairingVars>>
             PROVE [AssociationNext]_identityVars
  OBVIOUS
<1>1. CASE ConfirmPairing
  <2>1. slot.id \in PairingIds /\ slot.operator \in Humans /\ slot.id > link.id
    BY <1>1 DEF ConfirmPairing
  <2> QED
    BY <1>1, <2>1 DEF ConfirmPairing, AssociationNext
<1>2. CASE RemoveLink
  BY <1>2 DEF RemoveLink, AssociationNext
<1>3. CASE CreatePairing \/ SignPairing \/ CancelPairing \/ PairingExpires
  BY <1>3 DEF CreatePairing, SignPairing, CancelPairing, PairingExpires
<1>4. ASSUME NEW h \in Humans, AskApproval(h) \/ Approve(h) PROVE UNCHANGED identityVars
  BY <1>4 DEF AskApproval, Approve
<1>5. CASE (\E k \in Keys : Rotate(k)) /\ UNCHANGED pairingVars
  BY <1>5 DEF AssociationNext
<1>6. CASE (\E x \in Humans \union {NodeAccount} : RetireAccount(x)) /\ UNCHANGED pairingVars
  BY <1>6 DEF AssociationNext
<1>7. CASE UNCHANGED <<identityVars, pairingVars>>
  BY <1>7 DEF identityVars
<1> QED
  BY <1>1, <1>2, <1>3, <1>4, <1>5, <1>6, <1>7 DEF LinkNext

(***************************************************************************)
(* LinkInv is inductive: whatever the node, the human and both accounts    *)
(* do, in any order, with any number of pairings.                          *)
(***************************************************************************)
THEOREM LinkInductive == LinkSpec => []LinkInv
<1>1. AssociationInit /\ PairingInit => LinkInv
  BY LinkInit
<1>2. LinkInv /\ [LinkNext]_<<identityVars, pairingVars>> => LinkInv'
  BY LinkStep
<1> QED
  BY <1>1, <1>2, PTL DEF LinkSpec

(***************************************************************************)
(* An association in force was approved by its human and signed by its     *)
(* node, and neither has withdrawn.                                        *)
(***************************************************************************)
THEOREM AssociationsAreMutual == LinkSpec => []LinkIsMutual
<1>1. LinkInv => LinkIsMutual
  BY DEF LinkInv
<1> QED
  BY <1>1, LinkInductive, PTL

(***************************************************************************)
(* The pairing protocol implements Association: what RewardConsent assumes *)
(* of the association is what validator_pairing.py does to it.             *)
(***************************************************************************)
THEOREM LinkImplements == LinkSpec => ImplementsAssociation
<1>1. LinkInv /\ [LinkNext]_<<identityVars, pairingVars>> => [AssociationNext]_identityVars
  BY LinkRefines
<1> QED
  BY <1>1, LinkInductive, PTL DEF LinkSpec, ImplementsAssociation

-----------------------------------------------------------------------------
(* Validator reward consent. *)

USE ConsentAssumption

\* The columns of the request's row.
HasColumns ==
    request = [id |-> request.id, pairing |-> request.pairing, operator |-> request.operator,
               status |-> request.status, consent |-> request.consent,
               wallet |-> request.wallet, node |-> request.node]

\* A consent that no cancellation can reach any more.
Lasts(consent) ==
    /\ consent.request \in 1..request.id /\ consent.request \notin dropped
    /\ consent.request = request.id => request.status = "review_required"

(***************************************************************************)
(* The inductive invariant. A signature in verification is over a consent  *)
(* that was there; an exported or bound consent is of a request no         *)
(* cancellation can reach any more.                                        *)
(***************************************************************************)
ConsentInv ==
    /\ HasColumns /\ request.id \in Nat
    /\ dropped \subseteq 1..request.id
    /\ request.id \in dropped => request.status = "cancelled"
    /\ request.id = 0 => request.status = "none"
    /\ request.consent = NoConsent \/ request.consent.request = request.id
    /\ request.status \in {"awaiting_node", "review_required"} =>
         request.wallet = request.consent /\ request.consent # NoConsent
    /\ request.status = "review_required" => request.node = request.consent
    /\ \A s \in DOMAIN reading : reading[s].consent # NoConsent
    /\ \A d \in dossier : Lasts(d.consent)
    /\ recipient = NoConsent \/ Lasts(recipient)

LEMMA ConsentStarts == ConsentInit => ConsentInv
BY DEF ConsentInit, ConsentInv, HasColumns, NoRequest, NoConsent

\* Nothing but the row's status and its consents changes.
LEMMA SameDossiers ==
    ASSUME ConsentInv, UNCHANGED <<dossier, recipient, dropped>>, request'.id = request.id,
           request.status = "review_required" => request'.status = "review_required"
    PROVE  /\ \A d \in dossier' : Lasts(d.consent)'
           /\ (recipient = NoConsent \/ Lasts(recipient))'
<1>1. \A c : Lasts(c) => Lasts(c)'
  BY DEF Lasts
<1>2. dossier' = dossier /\ recipient' = recipient
  OBVIOUS
<1>3. (recipient = NoConsent \/ Lasts(recipient))'
  <2>1. CASE recipient = NoConsent
    BY <1>2, <2>1 DEF NoConsent
  <2>2. CASE Lasts(recipient)
    <3>1. PICK r : r = recipient
      OBVIOUS
    <3> QED
      BY <1>1, <1>2, <2>2, <3>1 DEF Lasts
  <2> QED
    BY <2>1, <2>2 DEF ConsentInv
<1> QED
  BY <1>1, <1>2, <1>3 DEF ConsentInv, Lasts

LEMMA StartRequestStep == ASSUME ConsentInv, StartRequest PROVE ConsentInv'
<1>1. /\ request'.id = request.id + 1 /\ request'.status = "awaiting_wallet" /\ request'.consent = NoConsent
      /\ HasColumns' /\ UNCHANGED <<reading, dossier, recipient, dropped>>
  BY DEF StartRequest, HasColumns
<1>2. \A c : Lasts(c) => Lasts(c)'
  BY <1>1 DEF Lasts, ConsentInv
<1>3. (\A d \in dossier : Lasts(d.consent)') /\ recipient = NoConsent
  BY <1>2 DEF ConsentInv, StartRequest
<1> QED
  BY <1>1, <1>3 DEF ConsentInv, NoConsent, Lasts

LEMMA PrepareStep == ASSUME ConsentInv, NEW to \in Destinations, Prepare(to) PROVE ConsentInv'
<1>1. /\ request.status = "awaiting_wallet" /\ request' = [request EXCEPT !.consent =
                     [to |-> to, request |-> request.id, no |-> @.no + 1]]
      /\ UNCHANGED <<reading, dossier, recipient, dropped>>
  BY DEF Prepare
<1>2. /\ request'.id = request.id /\ request'.status = request.status
      /\ request'.consent.request = request.id /\ HasColumns'
  BY <1>1 DEF HasColumns, ConsentInv
<1> QED
  BY <1>1, <1>2, SameDossiers DEF ConsentInv

LEMMA RecordApprovalStep == ASSUME ConsentInv, NEW s \in Sides, RecordApproval(s) PROVE ConsentInv'
<1>0. (\A t \in DOMAIN reading' : reading'[t].consent # NoConsent) /\ reading[s].consent # NoConsent
  BY DEF RecordApproval, ConsentInv
<1>1. UNCHANGED <<dossier, recipient, dropped>>
  BY DEF RecordApproval
<1>2. CASE request' = request
  <2>1. HasColumns' /\ request'.id = request.id /\ request'.status = request.status
    BY <1>2 DEF ConsentInv, HasColumns
  <2> QED
    BY <1>0, <1>1, <1>2, <2>1, SameDossiers DEF ConsentInv
<1>3. CASE /\ Unmoved(s) /\ request.status = "awaiting_wallet"
           /\ request' = [request EXCEPT !.status = "awaiting_node", !.wallet = reading[s].consent]
  <2>1. /\ request'.id = request.id /\ request'.status = "awaiting_node"
        /\ request'.consent = request.consent /\ request'.wallet = request.consent /\ HasColumns'
    BY <1>3 DEF ConsentInv, HasColumns, Unmoved
  <2>2. /\ \A d \in dossier' : Lasts(d.consent)'
        /\ (recipient = NoConsent \/ Lasts(recipient))'
    BY <1>1, <1>3, <2>1, SameDossiers
  <2>3. request.consent # NoConsent /\ request.id \notin dropped
    BY <1>0, <1>3 DEF ConsentInv, Unmoved
  <2> QED
    BY <1>0, <1>1, <1>3, <2>1, <2>2, <2>3 DEF ConsentInv
<1>4. CASE /\ Unmoved(s) /\ request.status = "awaiting_node"
           /\ request' = [request EXCEPT !.status = "review_required", !.node = reading[s].consent]
  <2>1. /\ request'.id = request.id /\ request'.status = "review_required"
        /\ request'.consent = request.consent /\ request'.node = request.consent
        /\ request'.wallet = request.wallet /\ HasColumns'
    BY <1>4 DEF ConsentInv, HasColumns, Unmoved
  <2>2. /\ \A d \in dossier' : Lasts(d.consent)'
        /\ (recipient = NoConsent \/ Lasts(recipient))'
    BY <1>1, <1>4, <2>1, SameDossiers
  <2>3. request.wallet = request.consent /\ request.consent # NoConsent /\ request.id \notin dropped
    BY <1>4 DEF ConsentInv
  <2> QED
    BY <1>0, <1>1, <1>4, <2>1, <2>2, <2>3 DEF ConsentInv
<1> QED
  BY <1>2, <1>3, <1>4 DEF RecordApproval

LEMMA CancelRequestStep == ASSUME ConsentInv, CancelRequest PROVE ConsentInv'
<1>1. /\ request.id # 0 /\ request.status \in {"awaiting_wallet", "awaiting_node"}
      /\ request' = [request EXCEPT !.status = "cancelled"]
      /\ dropped' = dropped \union {request.id} /\ UNCHANGED <<reading, dossier, recipient>>
  BY DEF CancelRequest, Stands
<1>2. /\ request'.id = request.id /\ request'.status = "cancelled" /\ request'.consent = request.consent
      /\ HasColumns'
  BY <1>1 DEF HasColumns, ConsentInv
<1>3. \A c : Lasts(c) => Lasts(c)'
  BY <1>1, <1>2 DEF Lasts
<1>4. (\A d \in dossier : Lasts(d.consent)') /\ recipient = NoConsent
  BY <1>3 DEF ConsentInv, CancelRequest, Stands
<1> QED
  BY <1>1, <1>2, <1>4 DEF ConsentInv, NoConsent, Lasts

LEMMA ExportForReviewStep == ASSUME ConsentInv, ExportForReview PROVE ConsentInv'
<1>1. /\ request.status = "review_required" /\ UNCHANGED <<reading, request, recipient, dropped>>
      /\ \A d \in dossier' : d \in dossier \/ d.consent = request.consent
  BY DEF ExportForReview
<1>2. Lasts(request.consent)
  BY <1>1 DEF ConsentInv, Lasts
<1>3. \A d \in dossier' : Lasts(d.consent)'
  BY <1>1, <1>2 DEF ConsentInv, Lasts
<1> QED
  BY <1>1, <1>3 DEF ConsentInv, HasColumns, Lasts

LEMMA BindRecipientStep == ASSUME ConsentInv, NEW d \in dossier, BindRecipient(d) PROVE ConsentInv'
<1>1. recipient' = d.consent /\ UNCHANGED <<reading, request, dossier, dropped>> /\ Lasts(d.consent)
  BY DEF BindRecipient, ConsentInv
<1> QED
  BY <1>1 DEF ConsentInv, HasColumns, Lasts

\* The row and what is exported are left alone.
LEMMA ConsentRests ==
    ASSUME ConsentInv, UNCHANGED <<request, dossier, recipient, dropped>>,
           \A s \in DOMAIN reading' : reading'[s].consent # NoConsent
    PROVE  ConsentInv'
BY DEF ConsentInv, HasColumns, Lasts, NoConsent

LEMMA ConsentKept == ASSUME ConsentInv, [ConsentNext]_<<identityVars, consentVars>> PROVE ConsentInv'
<1>1. ASSUME ConsentStep PROVE ConsentInv'
  <2>1. ASSUME NEW s \in Sides, ReadConsent(s) PROVE ConsentInv'
    <3>1. \A t \in DOMAIN reading' : reading'[t].consent # NoConsent
      BY <2>1 DEF ReadConsent, ConsentInv
    <3> QED
      BY <2>1, <3>1, ConsentRests DEF ReadConsent
  <2>2. CASE RequestExpires
    BY <2>2, ConsentRests DEF RequestExpires, ConsentInv
  <2> QED
    BY <1>1, <2>1, <2>2, StartRequestStep, PrepareStep, RecordApprovalStep, CancelRequestStep,
       ExportForReviewStep, BindRecipientStep DEF ConsentStep
<1>2. ASSUME UNCHANGED consentVars PROVE ConsentInv'
  BY <1>2, ConsentRests DEF consentVars, ConsentInv
<1> QED
  BY <1>1, <1>2 DEF ConsentNext

(***************************************************************************)
(* A reward has the destination both wallets signed for, and no recipient  *)
(* comes of a cancelled request: for any destinations, however many        *)
(* requests replace each other.                                            *)
(***************************************************************************)
THEOREM ConsentsAreMutual == ConsentSpec => []ConsentIsMutual
<1>1. ConsentInv => ConsentIsMutual
  BY DEF ConsentInv, ConsentIsMutual, Lasts, NoConsent
<1> QED
  BY <1>1, ConsentStarts, ConsentKept, PTL DEF ConsentSpec

HIDE ConsentAssumption
HIDE LinkAssumption

-----------------------------------------------------------------------------
(* Bonded references and control reviews. *)

USE PoolAssumption

References == [status : {"active", "paused", "revoked"}, owner : Owners, bonded : BOOLEAN, block : Nat]

\* The columns of a poll.
PollRow(row) ==
    /\ row = [target |-> row.target, shared |-> row.shared, locked |-> row.locked, list |-> row.list,
              picked |-> row.picked, groups |-> row.groups]
    /\ row.shared \subseteq Nodes /\ row.locked \subseteq Nodes

\* A witness of a target beside its other witnesses.
Fits(n, t, by) ==
    /\ reference[n].status = "active" /\ reference[n].bonded
    /\ Identity(n).owner # control[t].owner /\ Identity(n).group # control[t].group
    /\ Independent(Identity(n), by \ {n})

GroupFits(t, by) == control[t].status = "verified" /\ \A n \in by : Fits(n, t, by)

PollOK(row) ==
    /\ PollRow(row) /\ row.picked \subseteq row.locked
    /\ IsFiniteSet(row.picked) /\ Cardinality(row.picked) <= 2
    /\ row.target = 0 => row.picked = {}
    /\ row.target # 0 => row.target \in row.shared /\ GroupFits(row.target, row.picked)
    /\ \A g \in row.groups : /\ g.target \in row.shared /\ g.by \subseteq row.locked
                             /\ Cardinality(g.by) = 2 /\ GroupFits(g.target, g.by)

BondOK(n) == /\ reference[n].block \in 0..Len(bonds)
             /\ reference[n].bonded =>
                  reference[n].block # 0 /\ reference[n].owner \in bonds[reference[n].block]

(***************************************************************************)
(* The inductive invariant. What a poll has picked fits its target by the  *)
(* reviews and references in force, and it holds the locks that keep them  *)
(* so; a bonded reference is of the owner the chain had bonded at its      *)
(* block.                                                                  *)
(***************************************************************************)
PoolInv ==
    /\ owner \in [Nodes -> Owners] /\ reference \in [Nodes -> References] /\ DOMAIN control = Nodes
    /\ bonds \in Seq(SUBSET Owners) /\ Len(bonds) > 0
    /\ sync.anchor \in 1..Len(bonds)
    /\ sync = [busy |-> sync.busy, wallets |-> sync.wallets, anchor |-> sync.anchor]
    /\ \A n \in Nodes : BondOK(n)
    /\ DOMAIN poll = Polls /\ poll = [p \in Polls |-> poll[p]] /\ \A p \in Polls : PollOK(poll[p])

-----------------------------------------------------------------------------
LEMMA NewPollOK == PollOK(NewPoll)
BY FS_EmptySet DEF NewPoll, PollOK, PollRow

LEMMA PoolStarts == PoolInit => PoolInv
<1> SUFFICES ASSUME PoolInit PROVE PoolInv
  OBVIOUS
<1>1. /\ owner \in [Nodes -> Owners] /\ DOMAIN control = Nodes
      /\ bonds = <<{owner[n] : n \in Nodes}>>
      /\ sync.anchor = 1 /\ sync = [busy |-> sync.busy, wallets |-> sync.wallets, anchor |-> sync.anchor]
  BY DEF PoolInit
<1>2. bonds \in Seq(SUBSET Owners) /\ Len(bonds) = 1 /\ bonds[1] = {owner[n] : n \in Nodes}
  <2>1. {owner[n] : n \in Nodes} \in SUBSET Owners
    BY <1>1
  <2> QED
    BY <1>1, <2>1
<1>3. \A n \in Nodes : /\ reference[n] = [status |-> "active", owner |-> owner[n], bonded |-> TRUE, block |-> 1]
                       /\ owner[n] \in Owners /\ owner[n] \in bonds[1]
  BY <1>1, <1>2 DEF PoolInit
<1>4. reference \in [Nodes -> References]
  BY <1>1, <1>3 DEF PoolInit, References
<1>5. \A n \in Nodes : BondOK(n)
  <2>1. ASSUME NEW n \in Nodes PROVE reference[n].block = 1 /\ reference[n].owner \in bonds[1]
    <3>1. reference[n].owner = owner[n] /\ reference[n].block = 1
      BY DEF PoolInit
    <3> QED
      BY <1>3, <3>1
  <2> QED
    BY <1>2, <2>1 DEF BondOK
<1>6. poll = [p \in Polls |-> NewPoll]
  BY DEF PoolInit
<1>7. DOMAIN poll = Polls /\ poll = [p \in Polls |-> poll[p]] /\ \A p \in Polls : PollOK(poll[p])
  BY <1>6, NewPollOK
<1> QED
  BY <1>1, <1>2, <1>4, <1>5, <1>7 DEF PoolInv

-----------------------------------------------------------------------------
(* What polls do. *)

\* A poll writes its own row and nothing else.
LEMMA PollMoves ==
    ASSUME PoolInv, UNCHANGED <<owner, control, reference, bonds, sync>>,
           NEW p \in Polls, NEW row, poll' = [poll EXCEPT ![p] = row], PollOK(row)
    PROVE  PoolInv'
<1>1. \A q \in Polls : poll'[q] = IF q = p THEN row ELSE poll[q]
  BY DEF PoolInv
<1>2. \A any : PollOK(any) => PollOK(any)'
  BY DEF PollOK, PollRow, GroupFits, Fits, Independent, Identity
<1>3. \A q \in Polls : PollOK(poll[q])'
  <2> TAKE q \in Polls
  <2>1. PICK mine : mine = poll'[q]
    OBVIOUS
  <2>2. PollOK(mine)'
    BY <1>1, <1>2, <2>1 DEF PoolInv
  <2> QED
    BY <2>1, <2>2 DEF PollOK, PollRow
<1>4. \A n \in Nodes : BondOK(n)'
  BY DEF PoolInv, BondOK
<1>5. DOMAIN poll' = Polls /\ poll' = [q \in Polls |-> poll'[q]]
  BY DEF PoolInv
<1> QED
  BY <1>3, <1>4, <1>5 DEF PoolInv

LEMMA OpenGroupStep == ASSUME PoolInv, NEW p \in Polls, NEW n \in Nodes, OpenGroup(p, n) PROVE PoolInv'
<1>1. poll[p].target = 0 /\ PollOK(poll[p]) /\ poll[p].picked = {}
  BY DEF OpenGroup, IsNext, PoolInv, PollOK
<1>2. PICK row : /\ poll' = [poll EXCEPT ![p] = row]
                 /\ row = [(IF Reviewed(n) THEN WithList(p, n) ELSE poll[p])
                              EXCEPT !.shared = @ \union {n}]
  BY DEF OpenGroup
<1>3. PollRow(poll[p])
  BY <1>1 DEF PollOK
<1>4. CASE Reviewed(n)
  <2>1. PICK list : list = [m \in {k \in Nodes : Suitable(k, n)} |-> Identity(m)]
    OBVIOUS
  <2>2. WithList(p, n) = [target |-> n, shared |-> poll[p].shared, locked |-> poll[p].locked,
                          list |-> list, picked |-> poll[p].picked, groups |-> poll[p].groups]
    <3>1. WithList(p, n) = [poll[p] EXCEPT !.target = n, !.list = list]
      BY <2>1 DEF WithList
    <3>2. PICK old : old = poll[p] /\ PollRow(old)
      BY <1>3
    <3> QED
      BY <3>1, <3>2 DEF PollRow
  <2>3. row = [target |-> n, shared |-> poll[p].shared \union {n}, locked |-> poll[p].locked,
               list |-> list, picked |-> poll[p].picked, groups |-> poll[p].groups]
    <3>1. PICK old : old = WithList(p, n)
      OBVIOUS
    <3>2. row = [old EXCEPT !.shared = @ \union {n}]
      BY <1>2, <1>4, <3>1
    <3> QED
      BY <2>2, <3>1, <3>2
  <2>4. GroupFits(n, {})
    BY <1>4 DEF GroupFits, Reviewed
  <2>5. PollOK(row)
    BY <1>1, <1>3, <2>3, <2>4 DEF PollOK, PollRow
  <2> QED
    BY <1>2, <2>5, PollMoves DEF OpenGroup
<1>5. CASE ~Reviewed(n)
  <2>1. row = [target |-> 0, shared |-> poll[p].shared \union {n}, locked |-> poll[p].locked,
               list |-> poll[p].list, picked |-> poll[p].picked, groups |-> poll[p].groups]
    BY <1>1, <1>2, <1>3, <1>5 DEF PollRow
  <2>2. PollOK(row)
    BY <1>1, <1>3, <2>1 DEF PollOK, PollRow
  <2> QED
    BY <1>2, <2>2, PollMoves DEF OpenGroup
<1> QED
  BY <1>4, <1>5

\* One more witness beside those that fit.
LEMMA FitsBeside ==
    ASSUME NEW t, NEW by, GroupFits(t, by), NEW n, n \notin by, Suitable(n, t), Independent(Identity(n), by)
    PROVE  GroupFits(t, by \union {n})
<1>1. Fits(n, t, by \union {n})
  <2>1. (by \union {n}) \ {n} = by
    OBVIOUS
  <2> QED
    BY <2>1 DEF Fits, Suitable, Identity
<1>2. ASSUME NEW m \in by PROVE Fits(m, t, by \union {n})
  <2>1. Fits(m, t, by)
    BY <1>2 DEF GroupFits
  <2>2. Identity(m).owner # Identity(n).owner /\ Identity(m).group # Identity(n).group
    BY <1>2 DEF Independent
  <2> QED
    BY <2>1, <2>2 DEF Fits, Independent
<1> QED
  BY <1>1, <1>2 DEF GroupFits

LEMMA TryWitnessStep == ASSUME PoolInv, NEW p \in Polls, NEW n \in Nodes, TryWitness(p, n) PROVE PoolInv'
<1>0. PICK t : t = poll[p].target
  OBVIOUS
<1>1. /\ t # 0 /\ Witnesses(p) > 0 /\ PollOK(poll[p]) /\ PollRow(poll[p])
      /\ UNCHANGED <<owner, control, reference, bonds, sync>>
  BY <1>0 DEF TryWitness, PoolInv, PollOK
<1>2. PICK takes \in {{}, {n}} : takes = IF Lockable(p, n) /\ Suitable(n, t) THEN {n} ELSE {}
  OBVIOUS
<1>3. PICK good : good = {m \in takes : StillGood(p, m)}
  OBVIOUS
<1>4. PICK list : list = [m \in DOMAIN poll[p].list \ {n} |-> poll[p].list[m]]
  OBVIOUS
<1> DEFINE row == [target |-> t, shared |-> poll[p].shared, locked |-> poll[p].locked \union takes,
                   list |-> list, picked |-> poll[p].picked \union good, groups |-> poll[p].groups]
<1>5. poll' = [poll EXCEPT ![p] = row]
  <2>1. poll' = [poll EXCEPT ![p].list = list, ![p].locked = @ \union takes, ![p].picked = @ \union good]
    BY <1>0, <1>2, <1>3, <1>4 DEF TryWitness
  <2>2. poll'[p] = row
    BY <1>0, <1>1, <2>1 DEF PoolInv, PollRow
  <2>3. \A q \in Polls \ {p} : poll'[q] = poll[q]
    BY <2>1 DEF PoolInv
  <2>4. poll' = [q \in Polls |-> poll'[q]]
    BY <2>1 DEF PoolInv
  <2> HIDE DEF row
  <2> QED
    BY <2>2, <2>3, <2>4 DEF PoolInv
<1>6. PollOK(row)
  <2>1. CASE good = {}
    BY <1>1, <1>0, <2>1 DEF PollOK, PollRow
  <2>2. CASE good # {}
    <3>1. good = {n} /\ takes = {n} /\ Suitable(n, t) /\ Independent(Identity(n), poll[p].picked)
      BY <1>0, <1>2, <1>3, <2>2 DEF StillGood
    <3>2. GroupFits(t, poll[p].picked) /\ t \in poll[p].shared
      BY <1>0, <1>1 DEF PollOK
    <3>3. n \notin poll[p].picked
      BY <3>1 DEF Independent
    <3>4. GroupFits(t, poll[p].picked \union {n})
      BY <3>1, <3>2, <3>3, FitsBeside
    <3>5. /\ IsFiniteSet(poll[p].picked \union {n})
          /\ Cardinality(poll[p].picked \union {n}) = Cardinality(poll[p].picked) + 1
      BY <1>1, <3>3, FS_AddElement DEF PollOK
    <3>6. Cardinality(poll[p].picked) \in Nat /\ Cardinality(poll[p].picked) < 2
      BY <1>1, FS_CardinalityType DEF Witnesses, PollOK
    <3> QED
      BY <1>0, <1>1, <3>1, <3>2, <3>4, <3>5, <3>6 DEF PollOK, PollRow
  <2> QED
    BY <2>1, <2>2
<1> HIDE DEF row
<1> QED
  BY <1>1, <1>5, <1>6, PollMoves

LEMMA EndChoiceStep == ASSUME PoolInv, NEW p \in Polls, EndChoice(p) PROVE PoolInv'
<1>0. PICK t : t = poll[p].target
  OBVIOUS
<1>1. /\ t # 0 /\ PollOK(poll[p]) /\ PollRow(poll[p])
      /\ UNCHANGED <<owner, control, reference, bonds, sync>>
  BY <1>0 DEF EndChoice, PoolInv, PollOK
<1>2. PICK groups : groups = IF Witnesses(p) = 0
                             THEN poll[p].groups \union {[target |-> t, by |-> poll[p].picked]} ELSE poll[p].groups
  OBVIOUS
<1> DEFINE row == [target |-> 0, shared |-> poll[p].shared, locked |-> poll[p].locked,
                   list |-> NoList, picked |-> {}, groups |-> groups]
<1>3. poll' = [poll EXCEPT ![p] = row]
  <2>1. poll' = [poll EXCEPT ![p].target = 0, ![p].list = NoList, ![p].picked = {}, ![p].groups = groups]
    BY <1>0, <1>2 DEF EndChoice
  <2>2. poll'[p] = row
    BY <1>0, <1>1, <2>1 DEF PoolInv, PollRow
  <2>3. \A q \in Polls \ {p} : poll'[q] = poll[q]
    BY <2>1 DEF PoolInv
  <2>4. poll' = [q \in Polls |-> poll'[q]]
    BY <2>1 DEF PoolInv
  <2> HIDE DEF row
  <2> QED
    BY <2>2, <2>3, <2>4 DEF PoolInv
<1>4. \A g \in groups : /\ g.target \in poll[p].shared /\ g.by \subseteq poll[p].locked
                        /\ Cardinality(g.by) = 2 /\ GroupFits(g.target, g.by)
  <2>1. CASE Witnesses(p) = 0
    <3>1. /\ t \in poll[p].shared /\ poll[p].picked \subseteq poll[p].locked
          /\ GroupFits(t, poll[p].picked)
      BY <1>0, <1>1 DEF PollOK
    <3>2. Cardinality(poll[p].picked) = 2
      BY <1>1, <2>1, FS_CardinalityType DEF Witnesses, PollOK
    <3> QED
      BY <1>1, <1>2, <2>1, <3>1, <3>2 DEF PollOK
  <2>2. CASE Witnesses(p) # 0
    BY <1>1, <1>2, <2>2 DEF PollOK
  <2> QED
    BY <2>1, <2>2
<1>5. PollOK(row)
  BY <1>1, <1>4, FS_EmptySet DEF PollOK, PollRow
<1> HIDE DEF row
<1> QED
  BY <1>1, <1>3, <1>5, PollMoves

LEMMA PollEnds == ASSUME PoolInv, NEW p \in Polls, CommitPoll(p) \/ PollAborts(p) PROVE PoolInv'
<1>1. PICK row : row = NewPoll
  OBVIOUS
<1>2. poll' = [poll EXCEPT ![p] = row] /\ PollOK(row)
  BY <1>1, NewPollOK DEF CommitPoll, PollAborts
<1> QED
  BY <1>2, PollMoves DEF CommitPoll, PollAborts

-----------------------------------------------------------------------------
(* What workers, maintainers and the chain do. *)

\* What changes is neither a lock's row nor a bond.
LEMMA RowsMove ==
    ASSUME PoolInv, UNCHANGED <<poll, bonds>>,
           owner' \in [Nodes -> Owners], reference' \in [Nodes -> References], DOMAIN control' = Nodes,
           sync'.anchor \in 1..Len(bonds),
           sync' = [busy |-> sync'.busy, wallets |-> sync'.wallets, anchor |-> sync'.anchor],
           \A p \in Polls : \A n \in poll[p].locked \union poll[p].shared : control'[n] = control[n],
           \A p \in Polls : \A n \in poll[p].locked : reference[n].bonded => reference'[n] = reference[n],
           \A n \in Nodes : BondOK(n)'
    PROVE  PoolInv'
<1>1. ASSUME NEW p \in Polls PROVE PollOK(poll[p])'
  <2>1. PICK row : row = poll[p] /\ row = poll'[p]
    OBVIOUS
  <2>2. ASSUME NEW t \in row.shared, NEW by, by \subseteq row.locked, GroupFits(t, by)
        PROVE  GroupFits(t, by)'
    <3>1. control'[t] = control[t]
      BY <2>1, <2>2
    <3>2. \A n \in by : reference'[n] = reference[n] /\ control'[n] = control[n]
      BY <2>1, <2>2, ZenonT(60) DEF GroupFits, Fits
    <3>3. \A n \in by : Identity(n)' = Identity(n)
      BY <3>2 DEF Identity
    <3>4. ASSUME NEW n \in by PROVE Fits(n, t, by)'
      <4>1. Fits(n, t, by)
        BY <2>2 DEF GroupFits
      <4>2. \A m \in by \ {n} : Identity(m).owner # Identity(n).owner /\ Identity(m).group # Identity(n).group
        BY <4>1 DEF Fits, Independent
      <4>3. Independent(Identity(n), by \ {n})'
        BY <3>3, <4>2 DEF Independent
      <4> QED
        BY <3>1, <3>2, <3>3, <4>1, <4>3 DEF Fits
    <3> QED
      BY <2>2, <3>1, <3>4 DEF GroupFits
  <2>3. PollOK(row)
    BY <2>1 DEF PoolInv
  <2>4. PollOK(row)'
    BY <2>2, <2>3 DEF PollOK, PollRow
  <2> QED
    BY <2>1, <2>4 DEF PollOK, PollRow
<1>2. poll' = poll /\ bonds' = bonds
  OBVIOUS
<1> QED
  BY <1>1, <1>2 DEF PoolInv

LEMMA BondsKept ==
    ASSUME PoolInv, UNCHANGED bonds,
           \A n \in Nodes : \/ reference'[n] = reference[n]
                            \/ reference'[n].block \in 0..Len(bonds) /\ reference'[n].bonded = FALSE
                            \/ /\ reference'[n].bonded = reference[n].bonded
                               /\ reference'[n].block = reference[n].block
                               /\ reference'[n].owner = reference[n].owner
    PROVE  \A n \in Nodes : BondOK(n)'
BY DEF PoolInv, BondOK

LEMMA ReconnectStep == ASSUME PoolInv, NEW n \in Nodes, Reconnect(n) PROVE PoolInv'
<1>1. owner' \in [Nodes -> Owners] /\ UNCHANGED <<control, reference, bonds, sync, poll>>
  BY DEF Reconnect, PoolInv
<1>2. \A m \in Nodes : BondOK(m)'
  BY <1>1, BondsKept
<1> QED
  BY <1>1, <1>2, RowsMove DEF PoolInv

LEMMA ReviewControlStep == ASSUME PoolInv, NEW n \in Nodes, ReviewControl(n) PROVE PoolInv'
<1>1. /\ DOMAIN control' = Nodes /\ \A m \in Nodes \ {n} : control'[m] = control[m]
      /\ UNCHANGED <<owner, reference, bonds, sync, poll>>
  BY DEF ReviewControl, PoolInv
<1>2. \A p \in Polls : n \notin poll[p].locked \union poll[p].shared
  BY DEF ReviewControl, ReviewUnlocked
<1>3. \A p \in Polls : poll[p].locked \union poll[p].shared \subseteq Nodes
  BY DEF PoolInv, PollOK, PollRow
<1>4. \A m \in Nodes : BondOK(m)'
  BY <1>1, BondsKept
<1> QED
  BY <1>1, <1>2, <1>3, <1>4, RowsMove DEF PoolInv

\* A maintainer writes one reference that no poll has locked.
LEMMA ReferenceMoves ==
    ASSUME PoolInv, UNCHANGED <<owner, control, bonds, sync, poll>>, NEW n \in Nodes, ReferenceUnlocked(n),
           NEW new \in References, reference' = [reference EXCEPT ![n] = new],
           \/ new.block = 0 /\ new.bonded = FALSE
           \/ /\ new.bonded = reference[n].bonded /\ new.block = reference[n].block
              /\ new.owner = reference[n].owner
    PROVE  PoolInv'
<1>1. /\ reference' \in [Nodes -> References] /\ reference'[n] = new
      /\ \A m \in Nodes \ {n} : reference'[m] = reference[m]
  BY DEF PoolInv
<1>2. \A p \in Polls : poll[p].locked \subseteq Nodes \ {n}
  BY DEF PoolInv, PollOK, PollRow, ReferenceUnlocked
<1>3. Len(bonds) \in Nat
  BY DEF PoolInv
<1>4. \A m \in Nodes : BondOK(m)'
  <2>1. ASSUME NEW m \in Nodes
        PROVE  \/ reference'[m] = reference[m]
               \/ reference'[m].block \in 0..Len(bonds) /\ reference'[m].bonded = FALSE
               \/ /\ reference'[m].bonded = reference[m].bonded
                  /\ reference'[m].block = reference[m].block
                  /\ reference'[m].owner = reference[m].owner
    BY <1>1, <1>3
  <2> QED
    BY <2>1, BondsKept
<1> QED
  BY <1>1, <1>2, <1>4, RowsMove DEF PoolInv

LEMMA ReviewReferenceStep == ASSUME PoolInv, NEW n \in Nodes, ReviewReference(n) PROVE PoolInv'
<1>1. PICK new : new = Refreshed(n)
  OBVIOUS
<1>2. /\ reference' = [reference EXCEPT ![n] = new] /\ ReferenceUnlocked(n)
      /\ UNCHANGED <<owner, control, bonds, sync, poll>>
  BY <1>1 DEF ReviewReference
<1>3. reference[n] \in References /\ owner[n] \in Owners
  BY DEF PoolInv
<1>4. /\ new \in References
      /\ \/ new.block = 0 /\ new.bonded = FALSE
         \/ /\ new.bonded = reference[n].bonded /\ new.block = reference[n].block
            /\ new.owner = reference[n].owner
  <2>1. CASE new = [status |-> "paused", owner |-> owner[n], bonded |-> FALSE, block |-> 0]
    BY <1>3, <2>1 DEF References
  <2>2. CASE new = reference[n]
    BY <1>3, <2>2
  <2>3. CASE new = [reference[n] EXCEPT !.status = "paused"]
    BY <1>3, <2>3 DEF References
  <2> QED
    BY <1>1, <2>1, <2>2, <2>3 DEF Refreshed
<1> QED
  BY <1>2, <1>4, ReferenceMoves

LEMMA SetReferenceStep == ASSUME PoolInv, NEW n \in Nodes, SetReference(n) PROVE PoolInv'
<1>1. PICK status \in {"active", "paused", "revoked"} : reference' = [reference EXCEPT ![n].status = status]
  BY DEF SetReference
<1>2. ReferenceUnlocked(n) /\ UNCHANGED <<owner, control, bonds, sync, poll>>
  BY DEF SetReference
<1>3. reference[n] \in References
  BY DEF PoolInv
<1>4. PICK new : new = [reference[n] EXCEPT !.status = status]
  OBVIOUS
<1>5. /\ new \in References /\ new.bonded = reference[n].bonded /\ new.block = reference[n].block
      /\ new.owner = reference[n].owner
  BY <1>3, <1>4 DEF References
<1>6. reference' = [reference EXCEPT ![n] = new]
  BY <1>1, <1>4
<1> QED
  BY <1>2, <1>5, <1>6, ReferenceMoves

LEMMA BondChangesStep == ASSUME PoolInv, BondChanges PROVE PoolInv'
<1>1. PICK o \in Owners : bonds' = Append(bonds, (bonds[Len(bonds)] \ {o}) \union ({o} \ bonds[Len(bonds)]))
  BY DEF BondChanges
<1>2. UNCHANGED <<owner, control, reference, sync, poll>>
  BY DEF BondChanges
<1>3. bonds[Len(bonds)] \in SUBSET Owners
  BY DEF PoolInv
<1>4. PICK block \in SUBSET Owners : bonds' = Append(bonds, block)
  BY <1>1, <1>3
<1>5. /\ bonds' \in Seq(SUBSET Owners) /\ Len(bonds') = Len(bonds) + 1 /\ Len(bonds) \in Nat
      /\ \A b \in 1..Len(bonds) : bonds'[b] = bonds[b]
  BY <1>4 DEF PoolInv
<1>6. \A n \in Nodes : BondOK(n)'
  BY <1>2, <1>5 DEF PoolInv, BondOK
<1>7. \A p \in Polls : PollOK(poll[p])'
  <2> TAKE p \in Polls
  <2>1. PICK row : row = poll[p] /\ row = poll'[p]
    BY <1>2
  <2>2. PollOK(row)
    BY <2>1 DEF PoolInv
  <2>3. PollOK(row)'
    BY <1>2, <2>2 DEF PollOK, PollRow, GroupFits, Fits, Independent, Identity
  <2> QED
    BY <2>1, <2>3 DEF PollOK, PollRow
<1> QED
  BY <1>2, <1>5, <1>6, <1>7 DEF PoolInv

LEMMA ApplySnapshotStep == ASSUME PoolInv, ApplySnapshot PROVE PoolInv'
<1>1. PICK block \in sync.anchor..Len(bonds) :
        /\ reference' = [n \in Nodes |-> [reference[n] EXCEPT
              !.block = block,
              !.bonded = /\ owner[n] = reference[n].owner
                         /\ reference[n].owner \in sync.wallets \intersect bonds[block]]]
        /\ SyncOver(block)
  BY DEF ApplySnapshot
<1>2. UNCHANGED <<owner, control, bonds, poll>> /\ \A n \in Nodes : ReferenceUnlocked(n)
  BY DEF ApplySnapshot
<1>3. block \in 1..Len(bonds) /\ block \in Nat /\ block # 0
  <2>1. PICK len \in Nat : len = Len(bonds)
    BY DEF PoolInv
  <2>2. PICK from \in 1..len : from = sync.anchor
    BY <2>1 DEF PoolInv
  <2>3. block \in from..len
    BY <1>1, <2>1, <2>2
  <2> QED
    BY <2>1, <2>2, <2>3
<1>4. /\ sync'.anchor \in 1..Len(bonds)
      /\ sync' = [busy |-> sync'.busy, wallets |-> sync'.wallets, anchor |-> sync'.anchor]
  BY <1>1, <1>3 DEF SyncOver
<1>5. ASSUME NEW n \in Nodes
      PROVE  reference'[n] \in References /\ BondOK(n)'
  <2>1. PICK b \in BOOLEAN : b = (/\ owner[n] = reference[n].owner
                                 /\ reference[n].owner \in sync.wallets \intersect bonds[block])
    BY Zenon
  <2>2. reference'[n] = [reference[n] EXCEPT !.block = block, !.bonded = b]
    BY <1>1, <2>1
  <2>3. reference[n] \in References
    BY DEF PoolInv
  <2>4. reference'[n] = [status |-> reference[n].status, owner |-> reference[n].owner, bonded |-> b,
                         block |-> block]
    BY <2>2, <2>3 DEF References
  <2>5. reference'[n] \in References
    BY <1>3, <2>1, <2>3, <2>4 DEF References
  <2>6. b => reference[n].owner \in bonds[block]
    BY <2>1
  <2> QED
    BY <1>2, <1>3, <2>4, <2>5, <2>6 DEF BondOK
<1>6. reference' \in [Nodes -> References]
  BY <1>1, <1>5
<1>7. \A p \in Polls : poll[p].locked = {}
  BY <1>2 DEF PoolInv, PollOK, PollRow, ReferenceUnlocked
<1> QED
  BY <1>2, <1>4, <1>5, <1>6, <1>7, RowsMove DEF PoolInv

LEMMA SyncFaultsStep == ASSUME PoolInv, SyncFaults PROVE PoolInv'
<1>1. /\ reference' = [n \in Nodes |-> [reference[n] EXCEPT !.bonded = FALSE]]
      /\ UNCHANGED <<owner, control, bonds, poll>>
      /\ \A n \in Nodes : reference[n].bonded => ReferenceUnlocked(n)
  BY DEF SyncFaults
<1>2. /\ sync'.anchor \in 1..Len(bonds)
      /\ sync' = [busy |-> sync'.busy, wallets |-> sync'.wallets, anchor |-> sync'.anchor]
  BY DEF SyncFaults, SyncOver, PoolInv
<1>3. reference' \in [Nodes -> References]
      /\ \A n \in Nodes : reference'[n].bonded = FALSE /\ reference'[n].block = reference[n].block
  <2>1. ASSUME NEW n \in Nodes
        PROVE  /\ reference'[n] \in References
               /\ reference'[n].bonded = FALSE /\ reference'[n].block = reference[n].block
    <3>1. reference[n] \in References
      BY DEF PoolInv
    <3>2. reference'[n] = [status |-> reference[n].status, owner |-> reference[n].owner, bonded |-> FALSE,
                           block |-> reference[n].block]
      BY <1>1, <3>1 DEF References
    <3> QED
      BY <3>1, <3>2 DEF References
  <2> QED
    BY <1>1, <2>1
<1>4. \A n \in Nodes : reference[n].block \in 0..Len(bonds)
  BY DEF PoolInv, BondOK
<1>5. \A n \in Nodes : BondOK(n)'
  BY <1>1, <1>3, <1>4, BondsKept
<1>6. \A p \in Polls : \A n \in poll[p].locked : ~reference[n].bonded
  BY <1>1 DEF PoolInv, PollOK, PollRow, ReferenceUnlocked
<1> QED
  BY <1>1, <1>2, <1>3, <1>5, <1>6, RowsMove DEF PoolInv

\* The synchronizer's own state, or nothing.
LEMMA SyncMoves == ASSUME PoolInv, StartSync \/ SyncDies \/ UNCHANGED poolVars PROVE PoolInv'
<1>1. UNCHANGED <<owner, control, reference, bonds, poll>>
  BY DEF StartSync, SyncDies, poolVars
<1>2. /\ sync'.anchor \in 1..Len(bonds)
      /\ sync' = [busy |-> sync'.busy, wallets |-> sync'.wallets, anchor |-> sync'.anchor]
  <2>1. PICK old : old = sync /\ old.anchor \in 1..Len(bonds)
                   /\ old = [busy |-> old.busy, wallets |-> old.wallets, anchor |-> old.anchor]
    BY DEF PoolInv
  <2>2. CASE StartSync
    <3>1. PICK wallets : sync' = [old EXCEPT !.busy = TRUE, !.wallets = wallets]
      BY <2>1, <2>2 DEF StartSync
    <3> QED
      BY <2>1, <3>1
  <2>3. CASE SyncDies
    BY <2>1, <2>3 DEF SyncDies, SyncOver
  <2>4. CASE UNCHANGED poolVars
    BY <2>1, <2>4 DEF poolVars
  <2> QED
    BY <2>2, <2>3, <2>4
<1>3. \A n \in Nodes : BondOK(n)'
  BY <1>1, BondsKept
<1> QED
  BY <1>1, <1>2, <1>3, RowsMove DEF PoolInv

-----------------------------------------------------------------------------
LEMMA PoolKept == ASSUME PoolInv, [PoolNext]_poolVars PROVE PoolInv'
<1>1. ASSUME NEW p \in Polls,
             \/ EndChoice(p) \/ CommitPoll(p) \/ PollAborts(p)
             \/ \E n \in Nodes : OpenGroup(p, n) \/ TryWitness(p, n)
      PROVE  PoolInv'
  BY <1>1, EndChoiceStep, PollEnds, OpenGroupStep, TryWitnessStep
<1>2. ASSUME NEW n \in Nodes, Reconnect(n) \/ ReviewControl(n) \/ ReviewReference(n) \/ SetReference(n)
      PROVE  PoolInv'
  BY <1>2, ReconnectStep, ReviewControlStep, ReviewReferenceStep, SetReferenceStep
<1> QED
  BY <1>1, <1>2, BondChangesStep, ApplySnapshotStep, SyncFaultsStep, SyncMoves DEF PoolNext

LEMMA PoolIsSafe == ASSUME PoolInv PROVE WitnessesHold
<1>1. ASSUME NEW p \in Polls, NEW g \in poll[p].groups
      PROVE  /\ control[g.target].status = "verified" /\ Cardinality(g.by) = 2
             /\ \A n \in g.by :
                  /\ reference[n].status = "active" /\ reference[n].bonded
                  /\ Identity(n).owner # control[g.target].owner
                  /\ Independent(Identity(n), g.by \ {n})
                  /\ Identity(n).group # control[g.target].group
  <2>1. Cardinality(g.by) = 2 /\ GroupFits(g.target, g.by)
    BY DEF PoolInv, PollOK
  <2> QED
    BY <2>1 DEF GroupFits, Fits
<1> QED
  BY <1>1 DEF WitnessesHold, PoolInv, BondOK

(***************************************************************************)
(* The witnesses of a group are active and bonded, independent of its      *)
(* target and of each other, until it commits, and only who the chain      *)
(* calls bonded is: for any number of workers, owners, polls and           *)
(* snapshots.                                                              *)
(***************************************************************************)
THEOREM WitnessesAreIndependent == PoolSpec => []WitnessesHold
BY PoolStarts, PoolKept, PoolIsSafe, PTL DEF PoolSpec

HIDE PoolAssumption

-----------------------------------------------------------------------------
(* Validators. *)

USE QuorumAssumption

\* A seat goes to one of the operators without one, one at a time.
SeatsOK ==
    /\ Seated \subseteq Validators /\ IsFiniteSet(Seated) /\ Cardinality(Seated) <= QuorumTarget
    /\ \A v, w \in Seated : OperatorOf[v] = OperatorOf[w] => v = w
    /\ \/ issuing = {}
       \/ \E v \in Validators : /\ issuing = {v} /\ Cardinality(Seated) < QuorumTarget
                                /\ ~OperatorSeated(v)

\* The attempt that completed a probe is not answered again.
ProbeOK(v) ==
    /\ seat[v] = [probe |-> seat[v].probe, attempts |-> seat[v].attempts, lapsed |-> seat[v].lapsed,
                  evidence |-> seat[v].evidence]
    /\ seat[v].probe = "completed" => <<v, seat[v].attempts>> \notin probing

ProbesOK == (\A v \in Seated : ProbeOK(v)) /\ \A x \in probing : x[1] \in Seated

LEMMA SeatRow ==
    ASSUME ProbesOK, NEW v \in Seated
    PROVE  \E row : /\ row = seat[v]
                    /\ row = [probe |-> row.probe, attempts |-> row.attempts, lapsed |-> row.lapsed,
                              evidence |-> row.evidence]
BY DEF ProbesOK, ProbeOK

Cast(b) == /\ b.validator \in Seated /\ b.verdict \in Verdicts
           /\ seat[b.validator].probe = "completed" /\ seat[b.validator].evidence = b.evidence

VotesOK ==
    /\ IsFiniteSet(votes) /\ (ballot = {} \/ \E b : ballot = {b})
    /\ \A b \in votes \union ballot : Cast(b)
    /\ \A b, c \in votes \union ballot : b.validator = c.validator => b = c

\* The first verdict with a quorum is shown, and no other after it.
ShownOK ==
    /\ \A x, y \in verdicts : x = y
    /\ verdicts \subseteq Winners(votes) /\ (Winners(votes) # {} => verdicts # {})
    /\ group.outcome \in Verdicts => group.outcome \in verdicts
    /\ \A f \in Finalizers : /\ closer[f].step = "counted" /\ closer[f].outcome \in Verdicts
                             => closer[f].outcome \in verdicts

(***************************************************************************)
(* The inductive invariant. Seats are of distinct operators within the     *)
(* target; a vote is the completed probe of a seat with the evidence it    *)
(* shows; an outcome shown or about to be written by a finalizer that      *)
(* counted is one the votes give.                                          *)
(***************************************************************************)
QuorumInv ==
    /\ SeatsOK /\ ProbesOK /\ VotesOK /\ ShownOK
    /\ DOMAIN closer = Finalizers /\ Idle.step = "idle"

-----------------------------------------------------------------------------
(* Counts of votes. *)

LEMMA CountGrows ==
    ASSUME NEW cast, IsFiniteSet(cast), NEW b, NEW v
    PROVE  /\ CountOf(cast, v) \in Nat /\ CountOf(cast \union {b}, v) \in Nat
           /\ CountOf(cast, v) <= CountOf(cast \union {b}, v)
           /\ b.verdict # v => CountOf(cast, v) = CountOf(cast \union {b}, v)
<1> DEFINE mine == {c \in cast : c.verdict = v}
           more == {c \in cast \union {b} : c.verdict = v}
<1>1. IsFiniteSet(cast \union {b})
  BY FS_AddElement
<1>2. mine \subseteq cast /\ more \subseteq cast \union {b} /\ mine \subseteq more
      /\ (b.verdict # v => mine = more)
  OBVIOUS
<1>3. CountOf(cast, v) = Cardinality(mine) /\ CountOf(cast \union {b}, v) = Cardinality(more)
  BY DEF CountOf
<1> HIDE DEF mine, more
<1>4. IsFiniteSet(mine) /\ IsFiniteSet(more)
  BY <1>1, <1>2, FS_Subset
<1>5. Cardinality(mine) <= Cardinality(more)
  BY <1>2, <1>4, FS_Subset
<1> QED
  BY <1>2, <1>3, <1>4, <1>5, FS_CardinalityType

LEMMA WinnersGrow ==
    ASSUME NEW cast, IsFiniteSet(cast), NEW b
    PROVE  Winners(cast) \subseteq Winners(cast \union {b})
           /\ Winners(cast \union {b}) \subseteq Winners(cast) \union {b.verdict}
<1>1. \A v : /\ CountOf(cast, v) \in Nat /\ CountOf(cast \union {b}, v) \in Nat
             /\ CountOf(cast, v) <= CountOf(cast \union {b}, v)
             /\ b.verdict # v => CountOf(cast, v) = CountOf(cast \union {b}, v)
  BY CountGrows
<1> QED
  BY <1>1 DEF Winners

LEMMA SoleWinner ==
    ASSUME NEW cast
    PROVE  /\ Cardinality(Winners(cast)) = 1 <=> \E x \in Verdicts : Winners(cast) = {x}
           /\ \A x : Winners(cast) = {x} => Sole(Winners(cast)) = x
<1>1. Winners(cast) \subseteq Verdicts /\ IsFiniteSet(Winners(cast))
  BY FS_Subset DEF Winners
<1>2. \A x : Winners(cast) = {x} => Sole(Winners(cast)) = x
  BY DEF Sole
<1> QED
  BY <1>1, <1>2, FS_Singleton

LEMMA TallyWins ==
    ASSUME NEW cast
    PROVE  /\ Tally(cast).outcome \in Verdicts => Winners(cast) = {Tally(cast).outcome}
           /\ FinalOutcome(cast) \in Verdicts => Winners(cast) = {FinalOutcome(cast)}
           /\ \A x \in Verdicts : Winners(cast) = {x} => Tally(cast).outcome = x
<1>1. /\ NoOutcome \notin Verdicts /\ "disputed" \notin Verdicts /\ "insufficient_evidence" \notin Verdicts
  OBVIOUS
<1>2. CASE Cardinality(Winners(cast)) = 1
  <2>1. PICK x \in Verdicts : Winners(cast) = {x} /\ Sole(Winners(cast)) = x
    BY <1>2, SoleWinner
  <2>2. Tally(cast).outcome = x /\ FinalOutcome(cast) = x
    BY <1>2, <2>1 DEF Tally, FinalOutcome
  <2> QED
    BY <2>1, <2>2
<1>3. CASE Cardinality(Winners(cast)) # 1
  <2>1. Tally(cast).outcome \notin Verdicts /\ FinalOutcome(cast) \notin Verdicts
    BY <1>1, <1>3 DEF Tally, FinalOutcome
  <2>2. \A x \in Verdicts : Winners(cast) # {x}
    BY <1>3, SoleWinner
  <2> QED
    BY <2>1, <2>2
<1> QED
  BY <1>2, <1>3

-----------------------------------------------------------------------------
LEMMA QuorumStarts == QuorumInit => QuorumInv
<1> SUFFICES ASSUME QuorumInit PROVE QuorumInv
  OBVIOUS
<1>1. Seated = {} /\ votes = {} /\ ballot = {} /\ issuing = {} /\ verdicts = {} /\ probing = {}
  BY DEF QuorumInit, Seated
<1>2. IsFiniteSet({}) /\ Cardinality({}) = 0
  BY FS_EmptySet
<1>3. Winners({}) = {}
  <2>1. \A v : {b \in {} : b.verdict = v} = {}
    OBVIOUS
  <2>2. \A v : CountOf({}, v) = 0
    BY <1>2, <2>1 DEF CountOf
  <2> QED
    BY <2>2 DEF Winners
<1>4. group.outcome = NoOutcome /\ DOMAIN closer = Finalizers /\ \A f \in Finalizers : closer[f].step = "idle"
  BY DEF QuorumInit, Idle
<1> QED
  BY <1>1, <1>2, <1>3, <1>4 DEF QuorumInv, SeatsOK, ProbesOK, VotesOK, ShownOK, Idle

\* Nothing is voted, shown or seated.
LEMMA ShownKept ==
    ASSUME QuorumInv, UNCHANGED <<group, votes, verdicts, closer>>
    PROVE  ShownOK' /\ DOMAIN closer' = Finalizers
<1>1. Winners(votes)' = Winners(votes)
  BY DEF Winners, CountOf
<1> QED
  BY <1>1 DEF QuorumInv, ShownOK

LEMMA VotesKept ==
    ASSUME VotesOK, UNCHANGED <<votes, ballot>>,
           \A v \in Seated : seat[v].probe = "completed" => v \in Seated' /\ seat'[v] = seat[v]
    PROVE  VotesOK'
<1>1. \A b : Cast(b) => Cast(b)'
  BY DEF Cast
<1> QED
  BY <1>1 DEF VotesOK

LEMMA DecideSeatStep == ASSUME QuorumInv, NEW v \in Validators, DecideSeat(v) PROVE QuorumInv'
<1>1. /\ issuing' = {v} /\ Cardinality(Seated) < QuorumTarget /\ ~OperatorSeated(v)
      /\ UNCHANGED <<seat, probing, ballot, votes, group, verdicts, closer>>
  BY DEF DecideSeat, LaneFree
<1>2. SeatsOK' /\ ProbesOK'
  BY <1>1 DEF QuorumInv, SeatsOK, ProbesOK, ProbeOK, Seated, OperatorSeated
<1> QED
  BY <1>1, <1>2, ShownKept, VotesKept DEF QuorumInv, Seated

LEMMA TakeSeatStep == ASSUME QuorumInv, NEW v \in Validators, TakeSeat(v) PROVE QuorumInv'
<1>1. /\ issuing = {v} /\ issuing' = {} /\ Cardinality(Seated) < QuorumTarget /\ ~OperatorSeated(v)
      /\ UNCHANGED <<probing, ballot, votes, group, verdicts, closer>>
  BY DEF TakeSeat, QuorumInv, SeatsOK
<1>2. CASE seat' = seat
  BY <1>1, <1>2, ShownKept, VotesKept DEF QuorumInv, SeatsOK, ProbesOK, ProbeOK, Seated
<1>3. CASE seat' = [w \in Seated \union {v} |-> IF w = v THEN NoProbe ELSE seat[w]]
  <2>1. /\ Seated' = Seated \union {v} /\ v \notin Seated
        /\ \A w \in Seated : seat'[w] = seat[w] /\ OperatorOf[w] # OperatorOf[v]
    BY <1>1, <1>3 DEF Seated, OperatorSeated
  <2>2. seat'[v] = NoProbe
    BY <1>3
  <2>3. IsFiniteSet(Seated') /\ Cardinality(Seated') = Cardinality(Seated) + 1
    BY <2>1, FS_AddElement DEF QuorumInv, SeatsOK
  <2>4. Cardinality(Seated) \in Nat
    BY FS_CardinalityType DEF QuorumInv, SeatsOK
  <2>5. SeatsOK'
    BY <1>1, <2>1, <2>3, <2>4 DEF QuorumInv, SeatsOK
  <2>6. ProbesOK'
    BY <1>1, <2>1, <2>2 DEF QuorumInv, ProbesOK, ProbeOK, NoProbe
  <2> QED
    BY <1>1, <2>1, <2>5, <2>6, ShownKept, VotesKept DEF QuorumInv
<1> QED
  BY <1>2, <1>3 DEF TakeSeat

\* A probe that is not completed moves on.
LEMMA ProbeMoves ==
    ASSUME QuorumInv, UNCHANGED <<issuing, ballot, votes, group, verdicts, closer>>,
           NEW v \in Seated, Seated' = Seated, \A w \in Seated \ {v} : seat'[w] = seat[w],
           seat'[v] = seat[v] \/ seat[v].probe # "completed",
           ProbeOK(v)', \A x \in probing' : x \in probing \/ x[1] = v
    PROVE  QuorumInv'
<1>1. SeatsOK'
  BY DEF QuorumInv, SeatsOK, OperatorSeated
<1>2. VotesOK'
  BY VotesKept DEF QuorumInv
<1>3. ProbesOK'
  BY DEF QuorumInv, ProbesOK, ProbeOK
<1> QED
  BY <1>1, <1>2, <1>3, ShownKept DEF QuorumInv

LEMMA ClaimProbeStep == ASSUME QuorumInv, NEW v \in Validators, ClaimProbe(v) PROVE QuorumInv'
<1>1. /\ v \in Seated /\ seat[v].probe # "completed"
      /\ seat' = [seat EXCEPT ![v].probe = "running", ![v].lapsed = FALSE, ![v].attempts = @ + 1]
      /\ probing' = probing \union {<<v, seat[v].attempts + 1>>}
      /\ UNCHANGED <<issuing, ballot, votes, group, verdicts, closer>>
  BY DEF ClaimProbe, Claimable
<1>2. Seated' = Seated /\ \A w \in Seated \ {v} : seat'[w] = seat[w]
  BY <1>1 DEF Seated
<1>3. seat'[v] = [probe |-> "running", attempts |-> seat[v].attempts + 1, lapsed |-> FALSE,
                  evidence |-> seat[v].evidence]
  <2>1. PICK row : /\ row = seat[v]
                   /\ row = [probe |-> row.probe, attempts |-> row.attempts, lapsed |-> row.lapsed,
                             evidence |-> row.evidence]
    BY <1>1, SeatRow DEF QuorumInv
  <2>2. seat'[v] = [row EXCEPT !.probe = "running", !.lapsed = FALSE, !.attempts = @ + 1]
    BY <1>1, <2>1 DEF Seated
  <2> QED
    BY <2>1, <2>2
<1>4. ProbeOK(v)'
  BY <1>3 DEF ProbeOK
<1>5. \A x \in probing' : x \in probing \/ x[1] = v
  BY <1>1
<1> QED
  BY <1>1, <1>2, <1>4, <1>5, ProbeMoves

LEMMA LeaseLapsesStep == ASSUME QuorumInv, NEW v \in Validators, LeaseLapses(v) PROVE QuorumInv'
<1>1. /\ v \in Seated /\ seat[v].probe = "running"
      /\ seat' = [seat EXCEPT ![v].lapsed = TRUE]
      /\ UNCHANGED <<probing, issuing, ballot, votes, group, verdicts, closer>>
  BY DEF LeaseLapses
<1>2. Seated' = Seated /\ \A w \in Seated \ {v} : seat'[w] = seat[w]
  BY <1>1 DEF Seated
<1>3. seat'[v] = [probe |-> "running", attempts |-> seat[v].attempts, lapsed |-> TRUE,
                  evidence |-> seat[v].evidence]
  <2>1. PICK row : /\ row = seat[v]
                   /\ row = [probe |-> row.probe, attempts |-> row.attempts, lapsed |-> row.lapsed,
                             evidence |-> row.evidence]
    BY <1>1, SeatRow DEF QuorumInv
  <2>2. seat'[v] = [row EXCEPT !.lapsed = TRUE]
    BY <1>1, <2>1 DEF Seated
  <2>3. row.probe = "running"
    BY <1>1, <2>1
  <2> QED
    BY <2>1, <2>2, <2>3
<1>4. ProbeOK(v)'
  BY <1>3 DEF ProbeOK
<1> QED
  BY <1>1, <1>2, <1>4, ProbeMoves

\* A late answer is dropped; the last attempt's is not, and is the last one.
LEMMA AnswerStep ==
    ASSUME QuorumInv, NEW v \in Validators, NEW attempt \in 1..ProbeAttempts,
           MarkCompleted(v, attempt) \/ MarkFailed(v, attempt)
    PROVE  QuorumInv'
<1>0. v \in Seated
  BY DEF MarkCompleted, MarkFailed, QuorumInv, ProbesOK
<1>1. /\ <<v, attempt>> \in probing /\ probing' = probing \ {<<v, attempt>>}
      /\ UNCHANGED <<issuing, ballot, votes, group, verdicts, closer>>
  BY DEF MarkCompleted, MarkFailed, Answered
<1>2. CASE seat' = seat
  <2>1. ProbeOK(v)'
    BY <1>0, <1>1, <1>2 DEF QuorumInv, ProbesOK, ProbeOK, Seated
  <2> QED
    BY <1>0, <1>1, <1>2, <2>1, ProbeMoves DEF Seated
<1>3. CASE seat[v].attempts = attempt /\ seat' # seat
  <2>1. seat[v].probe # "completed"
    BY <1>0, <1>1, <1>3 DEF QuorumInv, ProbesOK, ProbeOK
  <2>2. PICK probe, evidence : seat' = [seat EXCEPT ![v].probe = probe, ![v].lapsed = FALSE, ![v].evidence = evidence]
    <3>1. CASE MarkCompleted(v, attempt)
      BY <1>3, <3>1 DEF MarkCompleted
    <3>2. CASE MarkFailed(v, attempt)
      <4>1. seat' = [seat EXCEPT ![v].probe = "failed", ![v].lapsed = FALSE]
        BY <1>3, <3>2 DEF MarkFailed
      <4>2. PICK evidence : evidence = seat[v].evidence
        OBVIOUS
      <4>3. seat' = [seat EXCEPT ![v].probe = "failed", ![v].lapsed = FALSE, ![v].evidence = evidence]
        <5>1. PICK row : row = seat[v] /\ row = [probe |-> row.probe, attempts |-> row.attempts,
                              lapsed |-> row.lapsed, evidence |-> row.evidence]
          BY <1>0, SeatRow DEF QuorumInv
        <5>2. [row EXCEPT !.probe = "failed", !.lapsed = FALSE]
                = [row EXCEPT !.probe = "failed", !.lapsed = FALSE, !.evidence = evidence]
          BY <4>2, <5>1
        <5> QED
          BY <4>1, <5>1, <5>2
      <4> QED
        BY <4>3
    <3> QED
      BY <3>1, <3>2
  <2>3. Seated' = Seated /\ \A w \in Seated \ {v} : seat'[w] = seat[w]
    BY <2>2 DEF Seated
  <2>4. seat'[v] = [probe |-> probe, attempts |-> attempt, lapsed |-> FALSE, evidence |-> evidence]
    <3>1. PICK row : /\ row = seat[v]
                     /\ row = [probe |-> row.probe, attempts |-> row.attempts, lapsed |-> row.lapsed,
                               evidence |-> row.evidence]
      BY <1>0, SeatRow DEF QuorumInv
    <3>2. seat'[v] = [row EXCEPT !.probe = probe, !.lapsed = FALSE, !.evidence = evidence]
      BY <1>0, <2>2, <3>1 DEF Seated
    <3> QED
      BY <1>3, <3>1, <3>2
  <2>5. ProbeOK(v)'
    BY <1>1, <2>4 DEF ProbeOK
  <2> QED
    BY <1>0, <1>1, <2>1, <2>3, <2>5, ProbeMoves
<1> QED
  BY <1>2, <1>3 DEF MarkCompleted, MarkFailed, IsCurrent

LEMMA AttestStep ==
    ASSUME QuorumInv, NEW v \in Validators, NEW verdict \in Verdicts, Attest(v, verdict)
    PROVE  QuorumInv'
<1>1. PICK b : b = [validator |-> v, verdict |-> verdict, evidence |-> seat[v].evidence]
  OBVIOUS
<1>2. /\ ballot' = {b} /\ v \in Seated /\ seat[v].probe = "completed" /\ ~HasVoted(v)
      /\ UNCHANGED <<seat, probing, issuing, votes, group, verdicts, closer>>
  BY <1>1 DEF Attest
<1>3. SeatsOK' /\ ProbesOK'
  BY <1>2 DEF QuorumInv, SeatsOK, ProbesOK, ProbeOK, Seated, OperatorSeated
<1>4. Cast(b) /\ \A c : Cast(c)' = Cast(c)
  BY <1>1, <1>2 DEF Cast, Seated
<1>5. VotesOK'
  BY <1>1, <1>2, <1>4 DEF QuorumInv, VotesOK, HasVoted
<1> QED
  BY <1>2, <1>3, <1>5, ShownKept DEF QuorumInv

\* The group's row is not written, and the ballot may be dropped.
LEMMA ReadsOnly ==
    ASSUME QuorumInv, UNCHANGED <<seat, probing, issuing, votes, group, verdicts>>,
           ballot' \subseteq ballot, DOMAIN closer' = Finalizers,
           \A f \in Finalizers : \/ closer'[f] = closer[f]
                                 \/ closer'[f].step # "counted"
                                 \/ closer'[f].outcome \in Verdicts => closer'[f].outcome \in verdicts
    PROVE  QuorumInv'
<1>1. SeatsOK' /\ ProbesOK'
  BY DEF QuorumInv, SeatsOK, ProbesOK, ProbeOK, Seated, OperatorSeated
<1>2. \A b : Cast(b)' = Cast(b)
  BY DEF Cast, Seated
<1>3. VotesOK'
  BY <1>2 DEF QuorumInv, VotesOK
<1>4. Winners(votes)' = Winners(votes)
  BY DEF Winners, CountOf
<1>5. ShownOK'
  BY <1>4 DEF QuorumInv, ShownOK
<1> QED
  BY <1>1, <1>3, <1>5 DEF QuorumInv

LEMMA CommitVoteStep == ASSUME QuorumInv, CommitVote PROVE QuorumInv'
<1>1. PICK b : ballot = {b} /\ b.verdict \in Verdicts
  BY DEF CommitVote, QuorumInv, VotesOK, Cast
<1>2. PICK cast : cast = votes \union {b}
  OBVIOUS
<1>3. /\ ballot' = {} /\ votes' = cast /\ group' = Tally(cast)
      /\ verdicts' = verdicts \union ({Tally(cast).outcome} \intersect Verdicts)
      /\ UNCHANGED <<seat, probing, issuing, closer>>
  BY <1>1, <1>2 DEF CommitVote, Shows
<1>4. SeatsOK' /\ ProbesOK'
  BY <1>3 DEF QuorumInv, SeatsOK, ProbesOK, ProbeOK, Seated, OperatorSeated
<1>5. \A c : Cast(c)' = Cast(c)
  BY <1>3 DEF Cast, Seated
<1>6. VotesOK'
  BY <1>1, <1>2, <1>3, <1>5, FS_AddElement DEF QuorumInv, VotesOK
<1>7. Winners(votes) \subseteq Winners(cast) /\ Winners(cast) \subseteq Winners(votes) \union {b.verdict}
  BY <1>2, WinnersGrow DEF QuorumInv, VotesOK
<1>8. Winners(votes)' = Winners(cast)
  BY <1>3 DEF Winners, CountOf
<1>9. PICK o : o = Tally(cast).outcome
  OBVIOUS
<1>10. (o \in Verdicts => Winners(cast) = {o}) /\ \A x \in Verdicts : Winners(cast) = {x} => o = x
  BY <1>9, TallyWins
<1>11. verdicts' = verdicts \union ({o} \intersect Verdicts) /\ group'.outcome = o
  BY <1>3, <1>9
<1>12. (\A x, y \in verdicts : x = y) /\ verdicts \subseteq Winners(votes) /\ (Winners(votes) # {} => verdicts # {})
  BY DEF QuorumInv, ShownOK
<1>13. \A x, y \in verdicts' : x = y
  BY <1>7, <1>10, <1>11, <1>12
<1>14. verdicts' \subseteq Winners(cast)
  BY <1>7, <1>10, <1>11, <1>12
<1>15. Winners(cast) # {} => verdicts' # {}
  <2>1. CASE Winners(votes) # {}
    BY <1>11, <1>12, <2>1
  <2>2. CASE Winners(votes) = {} /\ Winners(cast) # {}
    BY <1>1, <1>7, <1>10, <1>11, <2>2
  <2> QED
    BY <2>1, <2>2
<1>16. ShownOK'
  BY <1>3, <1>8, <1>11, <1>13, <1>14, <1>15 DEF QuorumInv, ShownOK
<1> QED
  BY <1>3, <1>4, <1>6, <1>16 DEF QuorumInv

LEMMA WriteFinalStep == ASSUME QuorumInv, NEW f \in Finalizers, WriteFinal(f) PROVE QuorumInv'
<1>1. PICK o : o = closer[f].outcome
  OBVIOUS
<1>2. /\ group' = [status |-> "finalized", outcome |-> o] /\ closer' = [closer EXCEPT ![f] = Idle]
      /\ verdicts' = verdicts \union ({o} \intersect Verdicts) /\ closer[f].step = "counted"
      /\ UNCHANGED <<seat, probing, issuing, ballot, votes>>
  BY <1>1 DEF WriteFinal, Shows
<1>3. o \in Verdicts => o \in verdicts
  BY <1>1, <1>2 DEF QuorumInv, ShownOK
<1>4. verdicts' = verdicts /\ group'.outcome = o
  BY <1>2, <1>3
<1>5. SeatsOK' /\ ProbesOK'
  BY <1>2 DEF QuorumInv, SeatsOK, ProbesOK, ProbeOK, Seated, OperatorSeated
<1>6. \A b : Cast(b)' = Cast(b)
  BY <1>2 DEF Cast, Seated
<1>7. VotesOK'
  BY <1>2, <1>6 DEF QuorumInv, VotesOK
<1>8. Winners(votes)' = Winners(votes)
  BY <1>2 DEF Winners, CountOf
<1>9. /\ DOMAIN closer' = Finalizers /\ \A g \in Finalizers \ {f} : closer'[g] = closer[g]
      /\ closer'[f].step = "idle"
  BY <1>2 DEF QuorumInv
<1>10. ShownOK'
  BY <1>3, <1>4, <1>8, <1>9 DEF QuorumInv, ShownOK
<1> QED
  BY <1>5, <1>7, <1>9, <1>10 DEF QuorumInv

LEMMA FinalizerStep ==
    ASSUME QuorumInv, NEW f \in Finalizers, ListDue(f) \/ CountDue(f) \/ PollDies(f)
    PROVE  QuorumInv'
<1>1. UNCHANGED <<seat, probing, issuing, ballot, votes, group, verdicts>>
  BY DEF ListDue, CountDue, PollDies
<1>2. DOMAIN closer' = Finalizers /\ \A g \in Finalizers \ {f} : closer'[g] = closer[g]
  BY DEF ListDue, CountDue, PollDies, QuorumInv
<1>3. \/ closer'[f].step # "counted"
      \/ closer'[f].outcome \in Verdicts => closer'[f].outcome \in verdicts
  <2>1. CASE PollDies(f)
    BY <2>1 DEF PollDies, QuorumInv
  <2>2. CASE CountDue(f)
    <3>1. closer'[f].outcome = FinalOutcome(votes)
      BY <2>2 DEF CountDue, QuorumInv
    <3>2. FinalOutcome(votes) \in Verdicts => Winners(votes) = {FinalOutcome(votes)}
      BY TallyWins
    <3> QED
      BY <3>1, <3>2 DEF QuorumInv, ShownOK
  <2>3. CASE ListDue(f)
    BY <2>3 DEF ListDue, QuorumInv
  <2> QED
    BY <2>1, <2>2, <2>3
<1> QED
  BY <1>1, <1>2, <1>3, ReadsOnly

-----------------------------------------------------------------------------
LEMMA QuorumKept == ASSUME QuorumInv, [QuorumNext]_quorumVars PROVE QuorumInv'
<1>1. ASSUME NEW v \in Validators,
             \/ DecideSeat(v) \/ TakeSeat(v) \/ ClaimProbe(v) \/ LeaseLapses(v)
             \/ \E verdict \in Verdicts : Attest(v, verdict)
      PROVE  QuorumInv'
  BY <1>1, DecideSeatStep, TakeSeatStep, ClaimProbeStep, LeaseLapsesStep, AttestStep
<1>2. ASSUME NEW v \in Validators, NEW attempt \in 1..ProbeAttempts,
             MarkCompleted(v, attempt) \/ MarkFailed(v, attempt)
      PROVE  QuorumInv'
  BY <1>2, AnswerStep
<1>3. CASE VoteFails \/ TimePasses \/ UNCHANGED quorumVars
  <2>1. /\ UNCHANGED <<seat, probing, issuing, votes, group, verdicts, closer>>
        /\ ballot' \subseteq ballot
    BY <1>3 DEF VoteFails, TimePasses, quorumVars
  <2> QED
    BY <2>1, ReadsOnly DEF QuorumInv
<1>4. ASSUME NEW f \in Finalizers, ListDue(f) \/ CountDue(f) \/ WriteFinal(f) \/ PollDies(f)
      PROVE  QuorumInv'
  BY <1>4, WriteFinalStep, FinalizerStep
<1> QED
  BY <1>1, <1>2, <1>3, <1>4, CommitVoteStep DEF QuorumNext

\* Votes with one verdict come from as many operators.
LEMMA VotesAreOperators ==
    ASSUME QuorumInv, NEW o \in verdicts
    PROVE  Cardinality({OperatorOf[v] : v \in {w \in Seated : \E b \in votes :
             /\ b.validator = w /\ b.verdict = o
             /\ seat[w].probe = "completed" /\ seat[w].evidence = b.evidence}}) >= QuorumMin
<1> DEFINE mine == {b \in votes : b.verdict = o}
           seats == {w \in Seated : \E b \in votes :
             /\ b.validator = w /\ b.verdict = o
             /\ seat[w].probe = "completed" /\ seat[w].evidence = b.evidence}
           operators == {OperatorOf[v] : v \in seats}
           f == [b \in mine |-> OperatorOf[b.validator]]
<1>1. Cardinality(mine) >= QuorumMin
  BY DEF QuorumInv, ShownOK, Winners, CountOf
<1>2. IsFiniteSet(operators)
  <2>1. seats \subseteq Seated /\ IsFiniteSet(Seated)
    BY DEF QuorumInv, SeatsOK
  <2> HIDE DEF seats
  <2>2. IsFiniteSet(seats)
    BY <2>1, FS_Subset
  <2> QED
    BY <2>2, ImageFinite
<1>3. \A b \in mine : b.validator \in seats
  BY DEF QuorumInv, VotesOK, Cast
<1>4. f \in [mine -> operators]
  BY <1>3
<1>5. \A b, c \in mine : f[b] = f[c] => b = c
  <2>1. \A b \in mine : b.validator \in Seated /\ b \in votes
    BY <1>3
  <2>2. ASSUME NEW b \in mine, NEW c \in mine, f[b] = f[c] PROVE b = c
    <3>1. OperatorOf[b.validator] = OperatorOf[c.validator]
      BY <2>2
    <3>2. b.validator = c.validator
      BY <2>1, <3>1 DEF QuorumInv, SeatsOK
    <3> QED
      BY <2>1, <3>2 DEF QuorumInv, VotesOK
  <2> QED
    BY <2>2
<1> HIDE DEF mine, operators, f
<1>6. f \in Injection(mine, operators)
  BY <1>4, <1>5 DEF Injection, IsInjective
<1>7. Cardinality(mine) <= Cardinality(operators) /\ IsFiniteSet(mine)
  BY <1>2, <1>6, FS_Injection
<1>8. Cardinality(mine) \in Nat /\ Cardinality(operators) \in Nat
  BY <1>2, <1>7, FS_CardinalityType
<1>9. Cardinality(operators) >= QuorumMin
  BY <1>1, <1>7, <1>8
<1> QED
  BY <1>9 DEF operators

LEMMA QuorumIsSafe == ASSUME QuorumInv PROVE VerdictBacked
<1>1. Cardinality(verdicts) <= 1
  <2>1. CASE verdicts = {}
    BY <2>1, FS_EmptySet
  <2>2. ASSUME NEW x \in verdicts PROVE Cardinality(verdicts) = 1
    <3>1. verdicts = {x}
      BY DEF QuorumInv, ShownOK
    <3> QED
      BY <3>1, FS_Singleton
  <2> QED
    BY <2>1, <2>2
<1>2. Cardinality(Seated) <= QuorumTarget
  BY DEF QuorumInv, SeatsOK
<1>3. group.outcome \in Verdicts => group.outcome \in verdicts
  BY DEF QuorumInv, ShownOK
<1> QED
  BY <1>1, <1>2, <1>3, VotesAreOperators DEF VerdictBacked

(***************************************************************************)
(* A verdict the group shows has the votes of a quorum of operators behind *)
(* it and is the only one: for any number of validators, operators,        *)
(* evidences, attempts and finalizers, and any quorum.                     *)
(***************************************************************************)
THEOREM VerdictsAreBacked == QuorumSpec => []VerdictBacked
BY QuorumStarts, QuorumKept, QuorumIsSafe, PTL DEF QuorumSpec

HIDE QuorumAssumption

-----------------------------------------------------------------------------
(* Token stream. *)

USE StreamAssumption

EntryIds == 1..MaxEntries
Units == 0..MaxRelayed
Servings == [phase : {"idle", "running", "paid", "stale", "unsettled", "failing", "closing", "acking",
                      "refusing", "releasing"},
             entry : 0..MaxEntries, sent : Units]
EventRows == [kind : {"token", "done", "error"}, by : EntryIds, units : Units]
Tabs == [hold : {"held", "settled", "refunded"}, paid : BOOLEAN, units : Units]

PaidTab(units) == [hold |-> "settled", paid |-> TRUE, units |-> units]

\* Where a delivery's tokens are among the first events.
TokenPlaces(i, by) == {k \in 1..(i - 1) : events[k].kind = "token" /\ events[k].by = by}

Streamed(by) == TokensBefore(Len(events) + 1, by)

\* A delivery exists before it is served, and is served once.
Known(id) == id \in 1..entry.id /\ (entry.state = "new" => id # entry.id)

ServedOnce ==
    /\ \A c \in Carriers : serving[c].phase # "idle" => Known(serving[c].entry)
    /\ \A c, d \in Carriers :
         serving[c].phase # "idle" /\ serving[d].phase # "idle" /\ c # d =>
             serving[c].entry # serving[d].entry
    /\ \A i \in DOMAIN events : Known(events[i].by)

CarrierOK(c) ==
    /\ serving[c].phase = "running" => Streamed(serving[c].entry) = serving[c].sent
    /\ serving[c].phase = "paid" =>
         /\ tab = PaidTab(serving[c].sent)
         /\ Streamed(serving[c].entry) \in {0, serving[c].sent}
         /\ \A i \in DOMAIN events : events[i].kind # "done"
         /\ \A d \in Carriers \ {c} : serving[d].phase # "paid"

(***************************************************************************)
(* The inductive invariant. A connection between its settlement and its    *)
(* done event holds the only promise of one: the tab is settled for what   *)
(* it will announce, no done event is there yet, and a delivery that was   *)
(* served is served by nobody else.                                        *)
(***************************************************************************)
StreamInv ==
    /\ entry \in [id : EntryIds, state : {"new", "pending", "acked"}]
    /\ serving \in [Carriers -> Servings]
    /\ events \in Seq(EventRows)
    /\ tab \in Tabs
    /\ ServedOnce
    /\ \A c \in Carriers : CarrierOK(c)
    /\ DoneIsSettled

LEMMA StreamTypes ==
    ASSUME StreamInv
    PROVE  /\ entry.id \in EntryIds /\ entry.id \in Nat /\ entry.state \in {"new", "pending", "acked"}
           /\ \A c \in Carriers : serving[c] \in Servings
           /\ Len(events) \in Nat /\ DOMAIN events = 1..Len(events)
           /\ \A i \in 1..Len(events) : events[i] \in EventRows
BY DEF StreamInv, EntryIds

LEMMA UnservedTyped == Unserved \in Servings /\ Unserved.phase = "idle"
BY DEF Unserved, Servings, Units

LEMMA StreamStarts == StreamInit => StreamInv
<1> SUFFICES ASSUME StreamInit PROVE StreamInv
  OBVIOUS
<1>1. entry \in [id : EntryIds, state : {"new", "pending", "acked"}]
  BY DEF StreamInit, EntryIds
<1>2. serving \in [Carriers -> Servings] /\ \A c \in Carriers : serving[c].phase = "idle"
  BY UnservedTyped DEF StreamInit
<1>3. events \in Seq(EventRows) /\ DOMAIN events = {}
  BY DEF StreamInit
<1>4. tab \in Tabs
  <2>1. 0 \in Units
    BY DEF Units
  <2> QED
    BY <2>1, Zenon DEF StreamInit, Tabs
<1>5. ServedOnce /\ DoneIsSettled /\ \A c \in Carriers : CarrierOK(c)
  BY <1>2, <1>3 DEF ServedOnce, DoneIsSettled, CarrierOK
<1> QED
  BY <1>1, <1>2, <1>3, <1>4, <1>5 DEF StreamInv

\* The tokens that were there stay where they are.
LEMMA PlacesFinite ==
    ASSUME NEW i \in Nat, NEW by
    PROVE  /\ IsFiniteSet(TokenPlaces(i, by)) /\ TokensBefore(i, by) = Cardinality(TokenPlaces(i, by))
           /\ TokensBefore(i, by) \in Nat
<1>1. TokenPlaces(i, by) \subseteq 1..(i - 1) /\ IsFiniteSet(1..(i - 1))
  BY FS_Interval DEF TokenPlaces
<1>2. IsFiniteSet(TokenPlaces(i, by))
  BY <1>1, FS_Subset
<1>3. TokensBefore(i, by) = Cardinality(TokenPlaces(i, by))
  BY DEF TokensBefore, TokenPlaces
<1> QED
  BY <1>2, <1>3, FS_CardinalityType

\* An event is appended.
LEMMA AppendCounts ==
    ASSUME StreamInv, NEW e \in EventRows, events' = Append(events, e)
    PROVE  /\ events' \in Seq(EventRows) /\ Len(events') = Len(events) + 1
           /\ \A i \in 1..Len(events) : events'[i] = events[i]
           /\ events'[Len(events) + 1] = e
           /\ \A by : \A i \in 1..(Len(events) + 1) : TokensBefore(i, by)' = TokensBefore(i, by)
           /\ \A by : Streamed(by)' = IF e.kind = "token" /\ e.by = by THEN Streamed(by) + 1 ELSE Streamed(by)
<1>1. /\ events' \in Seq(EventRows) /\ Len(events') = Len(events) + 1
      /\ \A i \in 1..Len(events) : events'[i] = events[i]
      /\ events'[Len(events) + 1] = e
  BY DEF StreamInv
<1>2. PICK n \in Nat : n = Len(events) + 1
  BY StreamTypes
<1>3. ASSUME NEW i \in 1..n, NEW by PROVE TokensBefore(i, by)' = TokensBefore(i, by)
  <2>1. \A k \in 1..(i - 1) : events'[k] = events[k]
    BY <1>1, <1>2, StreamTypes
  <2> QED
    BY <2>1 DEF TokensBefore
<1>4. ASSUME NEW by
      PROVE  Streamed(by)' = IF e.kind = "token" /\ e.by = by THEN Streamed(by) + 1 ELSE Streamed(by)
  <2>1. Streamed(by)' = TokensBefore(n + 1, by)'
    BY <1>1, <1>2, StreamTypes DEF Streamed
  <2>2. Streamed(by) = TokensBefore(n, by)
    BY <1>2 DEF Streamed
  <2>3. TokensBefore(n + 1, by)' = Cardinality(TokenPlaces(n + 1, by)')
    BY DEF TokensBefore, TokenPlaces
  <2>4. TokensBefore(n, by) = Cardinality(TokenPlaces(n, by)) /\ IsFiniteSet(TokenPlaces(n, by))
    BY PlacesFinite
  <2>5. TokenPlaces(n + 1, by)'
          = IF e.kind = "token" /\ e.by = by THEN TokenPlaces(n, by) \union {n} ELSE TokenPlaces(n, by)
    <3>1. \A k \in 1..(n - 1) : events'[k] = events[k]
      BY <1>1, <1>2, StreamTypes
    <3>2. events'[n] = e /\ n + 1 - 1 = n /\ 1..n = 1..(n - 1) \union {n} /\ n \notin 1..(n - 1)
      BY <1>1, <1>2
    <3>3. TokenPlaces(n + 1, by)' = {k \in 1..n : events'[k].kind = "token" /\ events'[k].by = by}
      <4>1. PICK m \in Nat : m = n + 1 /\ m - 1 = n
        OBVIOUS
      <4>2. TokenPlaces(m, by)' = {k \in 1..(m - 1) : events'[k].kind = "token" /\ events'[k].by = by}
        BY DEF TokenPlaces
      <4>3. TokenPlaces(n + 1, by)' = TokenPlaces(m, by)'
        BY <4>1 DEF TokenPlaces
      <4> QED
        BY <4>1, <4>2, <4>3
    <3>4. CASE e.kind = "token" /\ e.by = by
      BY <3>1, <3>2, <3>3, <3>4 DEF TokenPlaces
    <3>5. CASE ~(e.kind = "token" /\ e.by = by)
      BY <3>1, <3>2, <3>3, <3>5 DEF TokenPlaces
    <3> QED
      BY <3>4, <3>5
  <2>6. n \notin TokenPlaces(n, by)
    BY DEF TokenPlaces
  <2>7. Cardinality(TokenPlaces(n, by) \union {n}) = Cardinality(TokenPlaces(n, by)) + 1
    BY <2>4, <2>6, FS_AddElement
  <2> QED
    BY <2>1, <2>2, <2>3, <2>4, <2>5, <2>7
<1> QED
  BY <1>1, <1>2, <1>3, <1>4

\* One connection changes its phase, to one without a promise or to one that
\* keeps its own; nothing is published.
LEMMA QuietStep ==
    ASSUME StreamInv, UNCHANGED events,
           entry' \in [id : EntryIds, state : {"new", "pending", "acked"}],
           \A id \in Nat : Known(id) => Known(id)',
           NEW c \in Carriers, NEW new \in Servings, serving' = [serving EXCEPT ![c] = new],
           new.phase # "idle" => serving[c].phase # "idle" /\ new.entry = serving[c].entry,
           new.phase = "running" => serving[c].phase = "running" /\ new.sent = serving[c].sent,
           new.phase # "paid", tab' \in Tabs,
           tab' = tab \/ tab.hold = "held"
    PROVE  StreamInv'
<1>1. /\ serving' \in [Carriers -> Servings] /\ serving'[c] = new
      /\ \A d \in Carriers \ {c} : serving'[d] = serving[d]
  BY DEF StreamInv
<1>2. \A by : Streamed(by)' = Streamed(by)
  BY DEF Streamed, TokensBefore
<1>3. ServedOnce'
  <2>1. \A d \in Carriers : serving[d].entry \in Nat
    BY StreamTypes DEF Servings
  <2>2. \A i \in DOMAIN events : events[i].by \in Nat
    BY StreamTypes DEF EventRows, EntryIds
  <2> QED
    BY <1>1, <2>1, <2>2 DEF StreamInv, ServedOnce
<1>4. \A d \in Carriers : serving[d].phase = "paid" => tab' = tab
  BY DEF StreamInv, CarrierOK, PaidTab
<1>5. \A d \in Carriers : CarrierOK(d)'
  BY <1>1, <1>2, <1>4 DEF StreamInv, CarrierOK
<1>6. DoneIsSettled'
  <2>1. (\E i \in DOMAIN events : events[i].kind = "done") => tab' = tab
    BY DEF StreamInv, DoneIsSettled
  <2> QED
    BY <2>1, ZenonT(60) DEF StreamInv, DoneIsSettled, TokensBefore
<1> QED
  BY <1>1, <1>3, <1>5, <1>6 DEF StreamInv

LEMMA ServeStep == ASSUME StreamInv, NEW c \in Carriers, Serve(c) PROVE StreamInv'
<1>0. PICK id \in EntryIds : id = entry.id
  BY StreamTypes
<1> DEFINE new == [phase |-> "running", entry |-> id, sent |-> 0]
<1>1. /\ entry.state = "new" /\ serving[c].phase = "idle"
      /\ entry' = [entry EXCEPT !.state = "pending"] /\ serving' = [serving EXCEPT ![c] = new]
      /\ UNCHANGED <<events, tab>>
  BY <1>0 DEF Serve, At
<1>2. new \in Servings /\ new.phase = "running" /\ new.entry = id /\ new.sent = 0
  BY DEF Servings, EntryIds, Units
<1>3. /\ entry' \in [id : EntryIds, state : {"new", "pending", "acked"}]
      /\ entry'.id = id /\ entry'.state = "pending"
  BY <1>0, <1>1 DEF StreamInv
<1> HIDE DEF new
<1>4. /\ serving' \in [Carriers -> Servings] /\ serving'[c] = new
      /\ \A d \in Carriers \ {c} : serving'[d] = serving[d]
  BY <1>1, <1>2 DEF StreamInv
<1>5. \A k : Known(k) => k # id /\ Known(k)'
  BY <1>0, <1>1, <1>3 DEF Known
<1>6. Known(id)'
  BY <1>3 DEF Known, EntryIds
<1>7. ServedOnce'
  <2>1. \A d \in Carriers : serving[d].phase # "idle" => serving[d].entry # id
    BY <1>5 DEF StreamInv, ServedOnce
  <2> QED
    BY <1>1, <1>2, <1>4, <1>5, <1>6, <2>1 DEF StreamInv, ServedOnce
<1>8. \A by : Streamed(by)' = Streamed(by)
  BY <1>1 DEF Streamed, TokensBefore
<1>9. Streamed(id) = 0
  <2>1. PICK n \in Nat : n = Len(events) + 1 /\ n - 1 = Len(events)
    BY StreamTypes
  <2>2. TokenPlaces(n, id) = {}
    <3>1. \A k \in 1..Len(events) : events[k].by # id
      BY <1>5, StreamTypes DEF StreamInv, ServedOnce
    <3> QED
      BY <2>1, <3>1 DEF TokenPlaces
  <2> QED
    BY <2>1, <2>2, PlacesFinite, FS_EmptySet DEF Streamed
<1>10. \A d \in Carriers : CarrierOK(d)'
  <2>1. CarrierOK(c)'
    <3>1. Streamed(id)' = 0
      BY <1>8, <1>9
    <3> QED
      BY <1>2, <1>4, <3>1 DEF CarrierOK, Streamed
  <2>2. ASSUME NEW d \in Carriers \ {c} PROVE CarrierOK(d)'
    <3>1. CarrierOK(d) /\ serving'[d] = serving[d]
      BY <1>4 DEF StreamInv
    <3>2. \A k \in Carriers : serving'[k].phase = "paid" => serving[k].phase = "paid"
      BY <1>2, <1>4
    <3> QED
      BY <1>1, <3>1, <3>2 DEF CarrierOK, Streamed, TokensBefore
  <2> QED
    BY <2>1, <2>2
<1>11. DoneIsSettled'
  <2>1. \A i, by : TokensBefore(i, by)' = TokensBefore(i, by)
    BY <1>1 DEF TokensBefore
  <2>2. events' = events /\ tab' = tab /\ DoneIsSettled
    BY <1>1 DEF StreamInv
  <2> QED
    BY <2>1, <2>2 DEF DoneIsSettled, TokensBefore
<1> QED
  BY <1>1, <1>3, <1>4, <1>7, <1>10, <1>11 DEF StreamInv

\* Another delivery replaces the one there is, or it is acknowledged.
LEMMA EntryMoves ==
    ASSUME StreamInv,
           \/ entry' = entry
           \/ entry' = [entry EXCEPT !.state = "acked"] /\ entry.state = "pending"
           \/ Replaced /\ entry.id < MaxEntries
    PROVE  /\ entry' \in [id : EntryIds, state : {"new", "pending", "acked"}]
           /\ \A id \in Nat : Known(id) => Known(id)'
<1>1. CASE entry' = entry
  BY <1>1 DEF StreamInv, Known
<1>2. CASE entry' = [entry EXCEPT !.state = "acked"] /\ entry.state = "pending"
  <2>1. entry' \in [id : EntryIds, state : {"new", "pending", "acked"}] /\ entry'.id = entry.id
        /\ entry'.state = "acked"
    BY <1>2 DEF StreamInv
  <2> QED
    BY <2>1 DEF Known
<1>3. CASE Replaced /\ entry.id < MaxEntries
  <2>1. /\ entry' \in [id : EntryIds, state : {"new", "pending", "acked"}]
        /\ entry'.id = entry.id + 1
    BY <1>3, StreamTypes DEF Replaced, EntryIds
  <2> QED
    BY <2>1, StreamTypes DEF Known
<1> QED
  BY <1>1, <1>2, <1>3

\* Nobody's phase changes.
LEMMA NobodyServes ==
    ASSUME StreamInv, UNCHANGED <<events, serving>>,
           entry' \in [id : EntryIds, state : {"new", "pending", "acked"}],
           \A id \in Nat : Known(id) => Known(id)',
           tab' \in Tabs, tab' = tab \/ tab.hold = "held"
    PROVE  StreamInv'
<1>1. ServedOnce'
  <2>1. \A d \in Carriers : serving[d].entry \in Nat
    BY StreamTypes DEF Servings
  <2>2. \A i \in DOMAIN events : events[i].by \in Nat
    BY StreamTypes DEF EventRows, EntryIds
  <2> QED
    BY <2>1, <2>2 DEF StreamInv, ServedOnce
<1>2. \A d \in Carriers : CarrierOK(d)'
  <2>1. \A by : Streamed(by)' = Streamed(by)
    BY DEF Streamed, TokensBefore
  <2>2. \A d \in Carriers : serving[d].phase = "paid" => tab' = tab
    BY DEF StreamInv, CarrierOK, PaidTab
  <2>3. serving' = serving /\ events' = events
    OBVIOUS
  <2> QED
    BY <2>1, <2>2, <2>3 DEF StreamInv, CarrierOK
<1>3. DoneIsSettled'
  <2>1. (\E i \in DOMAIN events : events[i].kind = "done") => tab' = tab
    BY DEF StreamInv, DoneIsSettled
  <2>2. events' = events
    OBVIOUS
  <2> QED
    BY <2>1, <2>2 DEF StreamInv, DoneIsSettled, TokensBefore
<1> QED
  BY <1>1, <1>2, <1>3 DEF StreamInv

LEMMA TurnsTo ==
    ASSUME StreamInv, NEW c \in Carriers, NEW ph \in {"stale", "unsettled", "failing", "closing",
               "acking", "refusing", "releasing"}, Turns(c, ph), serving[c].phase # "idle"
    PROVE  \E new \in Servings : /\ serving' = [serving EXCEPT ![c] = new] /\ new.phase = ph
                                 /\ new.entry = serving[c].entry /\ new.sent = serving[c].sent
<1> DEFINE new == [serving[c] EXCEPT !.phase = ph]
<1>1. new \in Servings /\ new.phase = ph /\ new.entry = serving[c].entry /\ new.sent = serving[c].sent
  BY StreamTypes DEF Servings
<1>2. serving' = [serving EXCEPT ![c] = new]
  BY DEF Turns
<1> HIDE DEF new
<1> QED
  BY <1>1, <1>2

LEMMA EndsQuietly ==
    ASSUME StreamInv, UNCHANGED events,
           entry' \in [id : EntryIds, state : {"new", "pending", "acked"}],
           \A id \in Nat : Known(id) => Known(id)',
           NEW c \in Carriers, serving[c].phase # "idle",
           Yields(c) \/ \E ph \in {"stale", "unsettled", "failing", "closing", "acking", "refusing",
                                      "releasing"} : Turns(c, ph),
           tab' \in Tabs, tab' = tab \/ tab.hold = "held"
    PROVE  StreamInv'
<1>1. CASE Yields(c)
  <2>1. PICK new \in Servings : new = Unserved
    BY UnservedTyped
  <2>2. serving' = [serving EXCEPT ![c] = new] /\ new.phase = "idle"
    BY <1>1, <2>1, UnservedTyped DEF Yields
  <2> QED
    BY <2>2, QuietStep
<1>2. ASSUME NEW ph \in {"stale", "unsettled", "failing", "closing", "acking", "refusing",
                            "releasing"}, Turns(c, ph)
      PROVE  StreamInv'
  <2>1. PICK new \in Servings : /\ serving' = [serving EXCEPT ![c] = new] /\ new.phase = ph
                                /\ new.entry = serving[c].entry /\ new.sent = serving[c].sent
    BY <1>2, TurnsTo
  <2> QED
    BY <2>1, QuietStep
<1> QED
  BY <1>1, <1>2

LEMMA TabRefunds ==
    ASSUME StreamInv, tab' = tab \/ (tab.hold = "held" /\ tab' = [tab EXCEPT !.hold = "refunded"])
    PROVE  tab' \in Tabs /\ (tab' = tab \/ tab.hold = "held")
<1>1. CASE tab' = tab
  BY <1>1 DEF StreamInv
<1>2. CASE tab.hold = "held" /\ tab' = [tab EXCEPT !.hold = "refunded"]
  BY <1>2 DEF StreamInv, Tabs
<1> QED
  BY <1>1, <1>2

LEMMA DeliverySteps ==
    ASSUME StreamInv, NEW c \in Carriers, Requeue(c) \/ AckEntry(c) \/ FailsVisibly(c)
                                          \/ ReleaseHold(c) \/ ServerCrash(c)
    PROVE  StreamInv'
<1>1. UNCHANGED events /\ serving[c].phase # "idle"
  BY DEF Requeue, AckEntry, FailsVisibly, ReleaseHold, ServerCrash, At
<1>2. /\ entry' \in [id : EntryIds, state : {"new", "pending", "acked"}]
      /\ \A id \in Nat : Known(id) => Known(id)'
  <2>1. \/ entry' = entry
        \/ entry' = [entry EXCEPT !.state = "acked"] /\ entry.state = "pending"
        \/ Replaced /\ entry.id < MaxEntries
    BY DEF Requeue, AckEntry, FailsVisibly, ReleaseHold, ServerCrash, IsLive
  <2> QED
    BY <2>1, EntryMoves
<1>3. Yields(c) \/ \E ph \in {"stale", "unsettled", "failing", "closing", "acking", "refusing",
                                 "releasing"} : Turns(c, ph)
  BY DEF Requeue, AckEntry, FailsVisibly, ReleaseHold, ServerCrash
<1>4. tab' = tab \/ (tab.hold = "held" /\ tab' = [tab EXCEPT !.hold = "refunded"])
  BY DEF Requeue, AckEntry, FailsVisibly, ReleaseHold, ServerCrash
<1>5. tab' \in Tabs /\ (tab' = tab \/ tab.hold = "held")
  BY <1>4, TabRefunds
<1> QED
  BY <1>1, <1>2, <1>3, <1>5, EndsQuietly

LEMMA RecordAndSettleStep ==
    ASSUME StreamInv, NEW c \in Carriers, RecordAndSettle(c)
    PROVE  StreamInv'
<1>1. UNCHANGED <<entry, events>> /\ serving[c].phase = "running"
  BY DEF RecordAndSettle, At
<1>2. /\ entry' \in [id : EntryIds, state : {"new", "pending", "acked"}]
      /\ \A id \in Nat : Known(id) => Known(id)'
  BY <1>1, EntryMoves
<1>3. CASE Turns(c, "unsettled") /\ tab' = tab
  <2>1. tab' \in Tabs
    BY <1>3 DEF StreamInv
  <2> QED
    BY <1>1, <1>2, <1>3, <2>1, EndsQuietly
<1>4. ASSUME NEW units \in Received(c),
             serving' = [serving EXCEPT ![c].phase = Verdict, ![c].sent = units],
             tab' = IF Verdict = "paid" THEN [hold |-> "settled", paid |-> TRUE, units |-> units] ELSE tab
      PROVE  StreamInv'
  <2>0. PICK verdict \in {"acking", "paid", "stale"} :
          verdict = Verdict /\ (verdict = "paid" => ~tab.paid /\ tab.hold = "held")
    BY DEF Verdict
  <2> DEFINE new == [phase |-> verdict, entry |-> serving[c].entry, sent |-> units]
  <2>1. units \in Units /\ Streamed(serving[c].entry) \in {0, units}
    BY <1>1, <1>4, StreamTypes DEF Received, StreamInv, CarrierOK, Units, Servings
  <2>2. new \in Servings /\ new.phase = verdict /\ new.entry = serving[c].entry /\ new.sent = units
    BY <2>1, StreamTypes DEF Servings
  <2>3. serving' = [serving EXCEPT ![c] = new]
    <3>1. serving' = [serving EXCEPT ![c].phase = verdict, ![c].sent = units]
      BY <1>4, <2>0
    <3>2. \A d \in Carriers \ {c} : serving'[d] = serving[d]
      BY <3>1 DEF StreamInv
    <3>3. serving'[c] = new
      BY <3>1, StreamTypes DEF StreamInv, Servings
    <3>4. DOMAIN serving' = Carriers /\ serving' = [d \in Carriers |-> serving'[d]]
      BY <3>1 DEF StreamInv
    <3> HIDE DEF new
    <3> QED
      BY <3>2, <3>3, <3>4 DEF StreamInv
  <2> HIDE DEF new
  <2>4. CASE verdict # "paid"
    <3>1. tab' = tab /\ tab' \in Tabs
      BY <1>4, <2>0, <2>4 DEF StreamInv
    <3> QED
      BY <1>1, <1>2, <2>0, <2>2, <2>3, <2>4, <3>1, QuietStep
  <2>5. CASE verdict = "paid"
    <3>1. tab' = PaidTab(units) /\ ~tab.paid /\ tab.hold = "held"
      BY <1>4, <2>0, <2>5 DEF PaidTab
    <3>2. tab' \in Tabs
      BY <2>1, <3>1, Zenon DEF PaidTab, Tabs
    <3>3. /\ serving' \in [Carriers -> Servings] /\ serving'[c] = new
          /\ \A d \in Carriers \ {c} : serving'[d] = serving[d]
      BY <2>2, <2>3 DEF StreamInv
    <3>4. tab # PaidTab(serving[c].sent) /\ \A n : tab # PaidTab(n)
      BY <3>1 DEF PaidTab
    <3>5. (\A i \in DOMAIN events : events[i].kind # "done") /\ \A d \in Carriers : serving[d].phase # "paid"
      BY <3>4 DEF StreamInv, DoneIsSettled, CarrierOK, PaidTab
    <3>6. \A by : Streamed(by)' = Streamed(by)
      BY <1>1 DEF Streamed, TokensBefore
    <3>7. ServedOnce'
      BY <1>1, <1>2, <2>2, <3>3, StreamTypes DEF StreamInv, ServedOnce, Known
    <3>8. \A d \in Carriers : CarrierOK(d)'
      BY <1>1, <2>1, <2>2, <2>5, <3>1, <3>3, <3>5, <3>6 DEF StreamInv, CarrierOK
    <3>9. DoneIsSettled'
      BY <1>1, <3>5 DEF DoneIsSettled
    <3> QED
      BY <1>1, <1>2, <3>2, <3>3, <3>7, <3>8, <3>9 DEF StreamInv
  <2> QED
    BY <2>4, <2>5
<1> QED
  BY <1>3, <1>4 DEF RecordAndSettle

LEMMA EventTyped ==
    ASSUME StreamInv, NEW c \in Carriers, serving[c].phase # "idle", NEW kind \in {"token", "done", "error"}
    PROVE  /\ Event(kind, c) \in EventRows /\ Event(kind, c).kind = kind
           /\ Event(kind, c).by = serving[c].entry /\ Event(kind, c).units = serving[c].sent
           /\ Known(serving[c].entry)
<1>1. Known(serving[c].entry) /\ serving[c].sent \in Units
  BY StreamTypes DEF StreamInv, ServedOnce, Servings
<1>2. serving[c].entry \in EntryIds
  BY <1>1, StreamTypes DEF Known, EntryIds
<1> QED
  BY <1>1, <1>2 DEF Event, EventRows

\* What an append leaves as it was.
LEMMA AppendKeeps ==
    ASSUME StreamInv, UNCHANGED entry, NEW c \in Carriers, serving[c].phase # "idle",
           NEW e \in EventRows, events' = Append(events, e), e.by = serving[c].entry,
           NEW new \in Servings, serving' = [serving EXCEPT ![c] = new],
           new.phase # "idle" => new.entry = serving[c].entry
    PROVE  ServedOnce'
<1>1. /\ serving' \in [Carriers -> Servings] /\ serving'[c] = new
      /\ \A d \in Carriers \ {c} : serving'[d] = serving[d]
  BY DEF StreamInv
<1>2. \A id : Known(id)' = Known(id)
  BY DEF Known
<1>3. \A i \in DOMAIN events' : Known(events'[i].by)
  <2>1. DOMAIN events' = 1..(Len(events) + 1)
    BY AppendCounts
  <2>2. \A i \in 1..Len(events) : events'[i] = events[i] /\ Known(events[i].by)
    BY AppendCounts, StreamTypes DEF StreamInv, ServedOnce
  <2>3. events'[Len(events) + 1] = e /\ Known(e.by)
    BY AppendCounts DEF StreamInv, ServedOnce
  <2> QED
    BY <2>1, <2>2, <2>3, StreamTypes
<1> QED
  BY <1>1, <1>2, <1>3 DEF StreamInv, ServedOnce

LEMMA RelayTokenStep ==
    ASSUME StreamInv, NEW c \in Carriers, RelayToken(c)
    PROVE  StreamInv'
<1>1. /\ serving[c].phase = "running" /\ serving[c].sent < MaxRelayed
      /\ serving' = [serving EXCEPT ![c].sent = @ + 1]
      /\ events' = Append(events, Event("token", c)) /\ UNCHANGED <<entry, tab>>
  BY DEF RelayToken, At, Publishes
<1>2. PICK e \in EventRows : e = Event("token", c) /\ e.kind = "token" /\ e.by = serving[c].entry
  BY <1>1, EventTyped
<1> DEFINE new == [serving[c] EXCEPT !.sent = @ + 1]
<1>3. new \in Servings /\ new.phase = "running" /\ new.entry = serving[c].entry /\ new.sent = serving[c].sent + 1
  BY <1>1, StreamTypes DEF Servings, Units
<1>4. serving' = [serving EXCEPT ![c] = new]
  BY <1>1
<1> HIDE DEF new
<1>5. /\ serving' \in [Carriers -> Servings] /\ serving'[c] = new
      /\ \A d \in Carriers \ {c} : serving'[d] = serving[d]
  BY <1>3, <1>4 DEF StreamInv
<1>6. ServedOnce'
  BY <1>1, <1>2, <1>3, <1>4, AppendKeeps
<1>7. events' = Append(events, e)
  BY <1>1, <1>2
<1>8. \A by : Streamed(by)' = IF by = serving[c].entry THEN Streamed(by) + 1 ELSE Streamed(by)
  BY <1>2, <1>7, AppendCounts
<1>9. \A d \in Carriers : CarrierOK(d)'
  <2>1. \A i \in DOMAIN events' : i \in DOMAIN events \/ events'[i].kind = "token"
    BY <1>2, <1>7, AppendCounts, StreamTypes
  <2>2. \A i \in DOMAIN events : events'[i] = events[i]
    BY <1>7, AppendCounts, StreamTypes
  <2>3. CarrierOK(c)'
    BY <1>1, <1>3, <1>5, <1>8 DEF StreamInv, CarrierOK
  <2>4. ASSUME NEW d \in Carriers \ {c} PROVE CarrierOK(d)'
    <3>1. serving[d].phase # "idle" => serving[d].entry # serving[c].entry
      BY <1>1 DEF StreamInv, ServedOnce
    <3> QED
      BY <1>1, <1>3, <1>5, <1>8, <2>1, <2>2, <3>1 DEF StreamInv, CarrierOK
  <2> QED
    BY <2>3, <2>4
<1>10. DoneIsSettled'
  <2>1. \A i \in DOMAIN events' : i \in DOMAIN events \/ events'[i].kind = "token"
    BY <1>2, <1>7, AppendCounts, StreamTypes
  <2>2. \A i \in DOMAIN events : events'[i] = events[i] /\ i \in 1..(Len(events) + 1)
    BY <1>7, AppendCounts, StreamTypes
  <2>3. \A i \in DOMAIN events, by \in EntryIds : TokensBefore(i, by)' = TokensBefore(i, by)
    BY <1>7, <2>2, AppendCounts
  <2>4. \A i \in DOMAIN events : events[i].by \in EntryIds
    BY StreamTypes DEF EventRows
  <2>5. SUFFICES ASSUME NEW i \in DOMAIN events', events'[i].kind = "done"
                 PROVE  /\ tab' = [hold |-> "settled", paid |-> TRUE, units |-> events'[i].units]
                        /\ TokensBefore(i, events[i].by)' \in {0, events'[i].units}
                        /\ \A k \in DOMAIN events' \ {i} : events'[k].kind # "done"
                        /\ events'[i] = events[i]
    BY DEF DoneIsSettled, TokensBefore
  <2>6. i \in DOMAIN events /\ events[i].kind = "done" /\ events'[i] = events[i]
    BY <2>1, <2>2, <2>5
  <2> QED
    BY <1>1, <2>1, <2>2, <2>3, <2>4, <2>6 DEF StreamInv, DoneIsSettled
<1>11. events' \in Seq(EventRows)
  BY <1>7, AppendCounts
<1> QED
  BY <1>1, <1>5, <1>6, <1>9, <1>10, <1>11 DEF StreamInv

LEMMA PublishDoneStep ==
    ASSUME StreamInv, NEW c \in Carriers, PublishDone(c)
    PROVE  StreamInv'
<1>1. /\ serving[c].phase = "paid" /\ Turns(c, "acking")
      /\ events' = Append(events, Event("done", c)) /\ UNCHANGED <<entry, tab>>
  BY DEF PublishDone, At, Publishes
<1>2. PICK e \in EventRows : /\ e = Event("done", c) /\ e.kind = "done" /\ e.by = serving[c].entry
                             /\ e.units = serving[c].sent
  BY <1>1, EventTyped
<1>3. PICK new \in Servings : /\ serving' = [serving EXCEPT ![c] = new] /\ new.phase = "acking"
                              /\ new.entry = serving[c].entry
  BY <1>1, TurnsTo
<1>4. /\ serving' \in [Carriers -> Servings] /\ serving'[c] = new
      /\ \A d \in Carriers \ {c} : serving'[d] = serving[d]
  BY <1>3 DEF StreamInv
<1>5. events' = Append(events, e)
  BY <1>1, <1>2
<1>6. ServedOnce'
  BY <1>1, <1>2, <1>3, <1>5, AppendKeeps
<1>7. \A by : Streamed(by)' = Streamed(by)
  BY <1>2, <1>5, AppendCounts
<1>8. /\ tab = PaidTab(e.units) /\ Streamed(e.by) \in {0, e.units}
      /\ \A i \in DOMAIN events : events[i].kind # "done"
      /\ \A d \in Carriers \ {c} : serving[d].phase # "paid"
  BY <1>1, <1>2 DEF StreamInv, CarrierOK
<1>9. \A d \in Carriers : CarrierOK(d)'
  <2>1. \A d \in Carriers : serving'[d].phase # "paid"
    BY <1>3, <1>4, <1>8
  <2>2. \A d \in Carriers : serving'[d].phase = "running" => serving'[d] = serving[d]
    BY <1>3, <1>4
  <2> QED
    BY <1>7, <2>1, <2>2 DEF StreamInv, CarrierOK
<1>10. DoneIsSettled'
  <2>1. PICK n \in Nat : n = Len(events) + 1 /\ DOMAIN events' = 1..n /\ DOMAIN events = 1..(n - 1)
    BY <1>5, AppendCounts, StreamTypes
  <2>2. events'[n] = e /\ \A i \in 1..(n - 1) : events'[i] = events[i]
    BY <1>5, <2>1, AppendCounts, StreamTypes
  <2>3. \A i \in 1..(n - 1) : events'[i].kind # "done"
    BY <1>8, <2>1, <2>2
  <2>4. TokensBefore(n, e.by)' = TokensBefore(n, e.by) /\ TokensBefore(n, e.by) = Streamed(e.by)
    BY <1>5, <2>1, AppendCounts DEF Streamed
  <2>5. tab' = [hold |-> "settled", paid |-> TRUE, units |-> e.units]
    BY <1>1, <1>8 DEF PaidTab
  <2>6. \A i \in 1..n : events'[i].kind = "done" => i = n
    BY <2>3
  <2>7. TokensBefore(n, e.by)' \in {0, e.units}
    BY <1>8, <2>4
  <2>8. (\A k \in (1..n) \ {n} : events'[k].kind # "done") /\ n \in 1..n
    BY <2>1, <2>3, StreamTypes
  <2>9. TokensBefore(n, events[n].by)' \in {0, events'[n].units}
    BY <2>2, <2>7 DEF TokensBefore
  <2> QED
    BY <2>1, <2>2, <2>5, <2>6, <2>8, <2>9 DEF DoneIsSettled, TokensBefore
<1>11. events' \in Seq(EventRows) /\ entry' = entry /\ tab' = tab
  BY <1>1, <1>5, AppendCounts
<1> QED
  BY <1>4, <1>6, <1>9, <1>10, <1>11 DEF StreamInv

\* An error is published by a connection that promises nothing.
LEMMA PublishErrorStep ==
    ASSUME StreamInv, NEW c \in Carriers, PublishError(c)
    PROVE  StreamInv'
<1>1. /\ serving[c].phase \in {"stale", "unsettled", "failing", "closing"}
      /\ events' = Append(events, Event("error", c)) /\ UNCHANGED <<entry, tab>>
  BY DEF PublishError, At, Publishes
<1>2. PICK e \in EventRows : e = Event("error", c) /\ e.kind = "error" /\ e.by = serving[c].entry
  BY <1>1, EventTyped
<1>3. PICK new \in Servings : /\ serving' = [serving EXCEPT ![c] = new]
                              /\ new.phase \in {"idle", "acking", "refusing", "releasing"}
                              /\ new.phase # "idle" => new.entry = serving[c].entry
  <2>1. CASE Yields(c)
    <3>1. PICK new \in Servings : new = Unserved
      BY UnservedTyped
    <3> QED
      BY <2>1, <3>1, UnservedTyped DEF Yields
  <2>2. CASE Turns(c, "acking") \/ Turns(c, "refusing") \/ Turns(c, "releasing")
    <3>1. PICK ph \in {"acking", "refusing", "releasing"} : Turns(c, ph)
      BY <2>2
    <3> QED
      BY <1>1, <3>1, TurnsTo
  <2> QED
    BY <1>1, <2>1, <2>2 DEF PublishError, At
<1>4. /\ serving' \in [Carriers -> Servings] /\ serving'[c] = new
      /\ \A d \in Carriers \ {c} : serving'[d] = serving[d]
  BY <1>3 DEF StreamInv
<1>5. events' = Append(events, e)
  BY <1>1, <1>2
<1>6. ServedOnce'
  BY <1>1, <1>2, <1>3, <1>5, AppendKeeps
<1>7. \A by : Streamed(by)' = Streamed(by)
  BY <1>2, <1>5, AppendCounts
<1>8. PICK n \in Nat : n = Len(events) + 1 /\ DOMAIN events' = 1..n /\ DOMAIN events = 1..(n - 1)
  BY <1>5, AppendCounts, StreamTypes
<1>9. events'[n].kind = "error" /\ \A i \in 1..(n - 1) : events'[i] = events[i]
  BY <1>2, <1>5, <1>8, AppendCounts, StreamTypes
<1>10. \A d \in Carriers : CarrierOK(d)'
  <2>1. \A d \in Carriers : serving'[d].phase \in {"running", "paid"} => d # c /\ serving'[d] = serving[d]
    BY <1>3, <1>4
  <2>2. (\A i \in DOMAIN events : events[i].kind # "done")
            => \A i \in DOMAIN events' : events'[i].kind # "done"
    BY <1>8, <1>9
  <2> QED
    BY <1>1, <1>7, <2>1, <2>2 DEF StreamInv, CarrierOK
<1>11. DoneIsSettled'
  <2>1. \A i \in 1..(n - 1), by \in EntryIds : TokensBefore(i, by)' = TokensBefore(i, by)
    BY <1>5, <1>8, AppendCounts
  <2>2. \A i \in 1..(n - 1) : events[i].by \in EntryIds
    BY <1>8, StreamTypes DEF EventRows
  <2>3. SUFFICES ASSUME NEW i \in 1..n, events'[i].kind = "done"
                 PROVE  /\ tab' = [hold |-> "settled", paid |-> TRUE, units |-> events'[i].units]
                        /\ TokensBefore(i, events[i].by)' \in {0, events'[i].units}
                        /\ \A k \in (1..n) \ {i} : events'[k].kind # "done"
    BY <1>8 DEF DoneIsSettled, TokensBefore
  <2>4. i \in 1..(n - 1) /\ events'[i] = events[i]
    BY <1>9, <2>3
  <2>5. PICK by \in EntryIds : by = events[i].by
    BY <2>2, <2>4
  <2>6. TokensBefore(i, events[i].by)' = TokensBefore(i, by)'
    BY <2>4, <2>5 DEF TokensBefore
  <2>7. tab = [hold |-> "settled", paid |-> TRUE, units |-> events[i].units]
        /\ TokensBefore(i, by) \in {0, events[i].units}
        /\ \A k \in (1..(n - 1)) \ {i} : events[k].kind # "done"
    BY <1>8, <2>3, <2>4, <2>5 DEF StreamInv, DoneIsSettled
  <2>8. \A k \in (1..n) \ {i} : events'[k].kind # "done"
    BY <1>9, <2>7
  <2> QED
    BY <1>1, <2>1, <2>4, <2>6, <2>7, <2>8
<1>12. events' \in Seq(EventRows) /\ entry' = entry /\ tab' = tab
  BY <1>1, <1>5, AppendCounts
<1> QED
  BY <1>4, <1>6, <1>10, <1>11, <1>12 DEF StreamInv

\* Nobody's connection: the reclaim, the sweeper and the reader.
LEMMA AroundStep ==
    ASSUME StreamInv, \/ Reclaim \/ SweepTab \/ Read \/ IdleTimeout \/ ClientLeaves
                      \/ UNCHANGED streamVars
    PROVE  StreamInv'
<1>1. UNCHANGED <<events, serving>>
  BY DEF Reclaim, SweepTab, Read, IdleTimeout, ClientLeaves, streamVars
<1>2. entry' = entry \/ (Replaced /\ entry.id < MaxEntries)
  BY DEF Reclaim, SweepTab, Read, IdleTimeout, ClientLeaves, streamVars
<1>3. /\ entry' \in [id : EntryIds, state : {"new", "pending", "acked"}]
      /\ \A id \in Nat : Known(id) => Known(id)'
  BY <1>2, EntryMoves
<1>4. tab' = tab \/ (tab.hold = "held" /\ tab' = [tab EXCEPT !.hold = "refunded"])
  BY DEF Reclaim, SweepTab, Read, IdleTimeout, ClientLeaves, streamVars
<1>5. tab' \in Tabs /\ (tab' = tab \/ tab.hold = "held")
  BY <1>4, TabRefunds
<1> QED
  BY <1>1, <1>3, <1>5, NobodyServes

LEMMA StreamKept == ASSUME StreamInv, [StreamNext]_streamVars PROVE StreamInv'
<1>1. ASSUME NEW c \in Carriers,
             \/ Serve(c) \/ Requeue(c) \/ AckEntry(c) \/ RelayToken(c) \/ RecordAndSettle(c)
             \/ PublishDone(c) \/ FailsVisibly(c) \/ PublishError(c) \/ ReleaseHold(c)
             \/ ServerCrash(c)
      PROVE  StreamInv'
  BY <1>1, ServeStep, DeliverySteps, RelayTokenStep, RecordAndSettleStep, PublishDoneStep, PublishErrorStep
<1> QED
  BY <1>1, AroundStep DEF StreamNext

(***************************************************************************)
(* A job's success is announced once, after it is paid, for what it is     *)
(* charged: for any number of connections, deliveries and tokens.          *)
(***************************************************************************)
THEOREM DoneMeansSettled == StreamSpec => []DoneIsSettled
<1>1. StreamInv => DoneIsSettled
  BY DEF StreamInv
<1> QED
  BY <1>1, StreamStarts, StreamKept, PTL DEF StreamSpec

HIDE StreamAssumption

-----------------------------------------------------------------------------
(* Worker enrollment. *)

USE EnrollmentAssumption

Steps == {"away", "loaded", "installed", "undoing", "named", "written", "done"}
VisitRows == [kind : Kinds \union {"none"}, step : Steps, at : Enrollments \union {Nobody},
              owner : RigOwners \union {Nobody}]
TicketRows == [status : {"pending", "prepared", "complete", "activated", "gone"},
               owner : RigOwners \union {Nobody}]
KeyRows == [status : {"none", "temporary", "permanent", "revoked"}, owner : RigOwners \union {Nobody}]

\* An activation has its row to itself, and leaves a key that lasts.
VisitOK(v) ==
    /\ visit[v].step # "away" => visit[v].at \in Enrollments /\ visit[v].owner \in RigOwners \union {Nobody}
    /\ AtStep(v, "ack", "written") =>
         rowLock[visit[v].at] = v /\ Usable(visit[v].at, visit[v].owner)
    /\ AtStep(v, "ack", "done") => rigKey[visit[v].at].status \in {"permanent", "revoked"}

KeysOK == \A e, f \in Enrollments :
    rigKey[e].status = "permanent" /\ rigKey[f] = rigKey[e] => e = f

(***************************************************************************)
(* The inductive invariant. Two enrollments never share a permanent key,   *)
(* and a request that is about to write one has the lock and the key it    *)
(* writes.                                                                 *)
(***************************************************************************)
EnrollInv ==
    /\ ticket \in [Enrollments -> TicketRows] /\ rigKey \in [Enrollments -> KeyRows]
    /\ DOMAIN rowLock = Enrollments /\ visit \in [Visits -> VisitRows]
    /\ (\A v \in Visits : VisitOK(v)) /\ KeysOK

\* What a step may do to a key that no activation is about to make permanent.
KeyMoves(e) ==
    \/ rigKey'[e] = rigKey[e]
    \/ rigKey[e].status = "none" /\ rigKey'[e].status = "temporary"
    \/ /\ rowLock[e] = Nobody /\ rigKey'[e].status = "revoked" /\ rigKey'[e].owner = rigKey[e].owner

\* OneKeyPerRig, but for its state part.
KeysObey == \A e \in Enrollments :
    /\ rigKey[e].status = "revoked" => rigKey'[e] = rigKey[e]
    /\ ticket'[e].status = "activated" /\ ticket[e].status # "activated" =>
         rigKey'[e].status \in {"permanent", "revoked"}

LEMMA EnrollStarts == EnrollInit => EnrollInv
<1> SUFFICES ASSUME EnrollInit PROVE EnrollInv
  OBVIOUS
<1>1. ticket \in [Enrollments -> TicketRows] /\ rigKey \in [Enrollments -> KeyRows]
  BY DEF EnrollInit, Asked, NoKey, TicketRows, KeyRows
<1>2. DOMAIN rowLock = Enrollments /\ visit \in [Visits -> VisitRows]
  BY DEF EnrollInit, Away, VisitRows, Steps
<1>3. (\A v \in Visits : VisitOK(v)) /\ KeysOK
  BY DEF EnrollInit, VisitOK, KeysOK, AtStep, Away, NoKey
<1> QED
  BY <1>1, <1>2, <1>3 DEF EnrollInv

\* Keys that only appear or are revoked stay one to an account.
LEMMA KeysStay ==
    ASSUME EnrollInv, rigKey' \in [Enrollments -> KeyRows], \A e \in Enrollments : KeyMoves(e)
    PROVE  /\ KeysOK' /\ \A e \in Enrollments : rigKey[e].status = "revoked" => rigKey'[e] = rigKey[e]
           /\ \A e \in Enrollments : rigKey[e].status \in {"permanent", "revoked"}
                                        => rigKey'[e].status \in {"permanent", "revoked"}
<1>1. \A e \in Enrollments : rigKey[e] \in KeyRows /\ rigKey'[e] \in KeyRows
  BY DEF EnrollInv
<1>2. \A r, s \in KeyRows : r.status = s.status /\ r.owner = s.owner => r = s
  BY DEF KeyRows
<1>3. \A e \in Enrollments : rigKey'[e].status = "permanent" => rigKey'[e] = rigKey[e]
  BY DEF KeyMoves
<1>4. KeysOK'
  BY <1>3 DEF KeysOK, EnrollInv
<1> QED
  BY <1>1, <1>2, <1>4 DEF KeyMoves

\* One request moves, or none.
LEMMA VisitMoves ==
    ASSUME EnrollInv, rigKey' \in [Enrollments -> KeyRows], ticket' \in [Enrollments -> TicketRows],
           \A e \in Enrollments : KeyMoves(e),
           NEW v \in Visits, NEW new \in VisitRows, visit' = [visit EXCEPT ![v] = new], VisitOK(v)',
           DOMAIN rowLock' = Enrollments,
           \A e \in Enrollments : rowLock'[e] = rowLock[e] \/ rowLock[e] = v \/ rowLock[e] = Nobody,
           \A e \in Enrollments : ticket'[e].status = "activated" /\ ticket[e].status # "activated" =>
             rigKey'[e].status \in {"permanent", "revoked"}
    PROVE  EnrollInv' /\ KeysObey
<1>1. visit' \in [Visits -> VisitRows] /\ \A w \in Visits \ {v} : visit'[w] = visit[w]
  BY DEF EnrollInv
<1>2. ASSUME NEW w \in Visits \ {v} PROVE VisitOK(w)'
  <2>1. VisitOK(w) /\ w # Nobody /\ visit'[w] = visit[w]
    BY <1>1 DEF EnrollInv
  <2>2. PICK e : e = visit[w].at
    OBVIOUS
  <2>3. CASE AtStep(w, "ack", "written")
    <3>1. rowLock[e] = w /\ Usable(e, visit[w].owner) /\ e \in Enrollments
      BY <2>1, <2>2, <2>3 DEF VisitOK, AtStep
    <3>2. rowLock'[e] = w /\ rigKey'[e] = rigKey[e]
      BY <2>1, <3>1 DEF KeyMoves, Usable
    <3> QED
      BY <2>1, <2>2, <2>3, <3>1, <3>2 DEF VisitOK, AtStep, Usable
  <2>4. CASE AtStep(w, "ack", "done")
    BY <2>1, <2>2, <2>4, KeysStay DEF VisitOK, AtStep
  <2>5. CASE ~AtStep(w, "ack", "written") /\ ~AtStep(w, "ack", "done")
    BY <2>1, <2>5 DEF VisitOK, AtStep
  <2> QED
    BY <2>3, <2>4, <2>5
<1> QED
  BY <1>1, <1>2, KeysStay DEF EnrollInv, KeysObey

LEMMA NobodyMoves ==
    ASSUME EnrollInv, rigKey' \in [Enrollments -> KeyRows], ticket' \in [Enrollments -> TicketRows],
           \A e \in Enrollments : KeyMoves(e), UNCHANGED <<visit, rowLock>>,
           \A e \in Enrollments : ticket'[e].status = "activated" => ticket[e].status = "activated"
    PROVE  EnrollInv' /\ KeysObey
<1>1. ASSUME NEW w \in Visits PROVE VisitOK(w)'
  <2>1. VisitOK(w) /\ w # Nobody /\ visit'[w] = visit[w]
    BY DEF EnrollInv
  <2>2. PICK e : e = visit[w].at
    OBVIOUS
  <2>3. CASE AtStep(w, "ack", "written")
    <3>1. rowLock[e] = w /\ Usable(e, visit[w].owner) /\ e \in Enrollments
      BY <2>1, <2>2, <2>3 DEF VisitOK, AtStep
    <3>2. rowLock'[e] = w /\ rigKey'[e] = rigKey[e]
      BY <2>1, <3>1 DEF KeyMoves, Usable
    <3> QED
      BY <2>1, <2>2, <2>3, <3>1, <3>2 DEF VisitOK, AtStep, Usable
  <2>4. CASE AtStep(w, "ack", "done")
    BY <2>1, <2>2, <2>4, KeysStay DEF VisitOK, AtStep
  <2>5. CASE ~AtStep(w, "ack", "written") /\ ~AtStep(w, "ack", "done")
    BY <2>1, <2>5 DEF VisitOK, AtStep
  <2> QED
    BY <2>3, <2>4, <2>5
<1> QED
  BY <1>1, KeysStay DEF EnrollInv, KeysObey

LEMMA AwayTyped == Away \in VisitRows /\ Away.step = "away" /\ Away.kind = "none"
BY DEF Away, VisitRows, Steps

LEMMA WritesTyped ==
    ASSUME EnrollInv, NEW v \in Visits, NEW status \in {"prepared", "complete", "activated"},
           visit[v].step # "away", Writes(v, status)
    PROVE  /\ ticket' \in [Enrollments -> TicketRows] /\ visit[v].at \in Enrollments
           /\ ticket'[visit[v].at].status = status
           /\ \A e \in Enrollments \ {visit[v].at} : ticket'[e] = ticket[e]
<1>1. visit[v].at \in Enrollments /\ visit[v].owner \in RigOwners \union {Nobody}
  BY DEF EnrollInv, VisitOK
<1>2. [status |-> status, owner |-> visit[v].owner] \in TicketRows
  BY <1>1 DEF TicketRows
<1> QED
  BY <1>1, <1>2 DEF Writes, EnrollInv

\* The request ends, with or without a write to the record.
LEMMA EndsWith ==
    ASSUME EnrollInv, NEW v \in Visits, GoesAway(v), rigKey' \in [Enrollments -> KeyRows],
           ticket' \in [Enrollments -> TicketRows], \A e \in Enrollments : KeyMoves(e),
           \A e \in Enrollments : ticket'[e].status = "activated" /\ ticket[e].status # "activated" =>
             rigKey'[e].status \in {"permanent", "revoked"}
    PROVE  EnrollInv' /\ KeysObey
<1>1. PICK new \in VisitRows : new = Away
  BY AwayTyped
<1>2. visit' = [visit EXCEPT ![v] = new] /\ new.step = "away" /\ new.kind = "none"
  BY <1>1, AwayTyped DEF GoesAway
<1>3. visit'[v] = new
  BY <1>2 DEF EnrollInv
<1>4. VisitOK(v)'
  BY <1>2, <1>3 DEF VisitOK, AtStep
<1>5. DOMAIN rowLock' = Enrollments /\ \A e \in Enrollments : rowLock'[e] = rowLock[e] \/ rowLock[e] = v
  BY DEF GoesAway
<1> QED
  BY <1>2, <1>4, <1>5, VisitMoves

LEMMA LoadsStep ==
    ASSUME EnrollInv, NEW v \in Visits, NEW e \in Enrollments, NEW kind \in Kinds, Loads(v, e, kind)
    PROVE  EnrollInv' /\ KeysObey
<1>1. PICK a \in OnBehalf(e, kind) :
        visit' = [visit EXCEPT ![v] = [kind |-> kind, step |-> "loaded", at |-> e, owner |-> a]]
  BY DEF Loads
<1>2. a \in RigOwners \union {Nobody}
  <2>1. ticket[e] \in TicketRows
    BY DEF EnrollInv
  <2> QED
    BY <1>1, <2>1 DEF OnBehalf, TicketRows
<1>3. PICK new \in VisitRows : new = [kind |-> kind, step |-> "loaded", at |-> e, owner |-> a]
  BY <1>2 DEF VisitRows, Steps
<1>4. UNCHANGED <<ticket, rigKey, rowLock>>
  BY DEF Loads
<1>5. visit' = [visit EXCEPT ![v] = new] /\ visit'[v] = new
  BY <1>1, <1>3 DEF EnrollInv
<1>6. VisitOK(v)'
  BY <1>2, <1>3, <1>5 DEF VisitOK, AtStep
<1>7. \A f \in Enrollments : KeyMoves(f)
  BY <1>4 DEF KeyMoves
<1>8. rigKey' \in [Enrollments -> KeyRows] /\ ticket' \in [Enrollments -> TicketRows]
      /\ DOMAIN rowLock' = Enrollments
  BY <1>4 DEF EnrollInv
<1> QED
  BY <1>4, <1>5, <1>6, <1>7, <1>8, VisitMoves

LEMMA EndSteps ==
    ASSUME EnrollInv, NEW v \in Visits, Ends(v) \/ SavePrepared(v) \/ PublishCertificate(v)
    PROVE  EnrollInv' /\ KeysObey
<1>1. rigKey' = rigKey /\ GoesAway(v) /\ visit[v].step # "away"
  BY DEF Ends, SavePrepared, PublishCertificate, AtStep
<1>2. /\ ticket' \in [Enrollments -> TicketRows]
      /\ \A e \in Enrollments : ticket'[e].status = "activated" => ticket[e].status = "activated"
  <2>1. CASE ticket' = ticket
    BY <2>1 DEF EnrollInv
  <2>2. ASSUME NEW status \in {"prepared", "complete"}, Writes(v, status)
        PROVE  /\ ticket' \in [Enrollments -> TicketRows]
               /\ \A e \in Enrollments : ticket'[e].status = "activated" => ticket[e].status = "activated"
    BY <1>1, <2>2, WritesTyped
  <2> QED
    BY <2>1, <2>2 DEF Ends, SavePrepared, PublishCertificate
<1>3. \A e \in Enrollments : KeyMoves(e)
  BY <1>1 DEF KeyMoves
<1>4. rigKey' \in [Enrollments -> KeyRows]
  BY <1>1 DEF EnrollInv
<1> QED
  BY <1>1, <1>2, <1>3, <1>4, EndsWith

LEMMA PublishActivatedStep ==
    ASSUME EnrollInv, NEW v \in Visits, PublishActivated(v) PROVE EnrollInv' /\ KeysObey
<1>1. /\ rigKey' = rigKey /\ GoesAway(v) /\ AtStep(v, "ack", "done") /\ Writes(v, "activated")
      /\ visit[v].step # "away"
  BY DEF PublishActivated, AtStep
<1>2. rigKey[visit[v].at].status \in {"permanent", "revoked"}
  BY <1>1 DEF EnrollInv, VisitOK
<1>3. ticket' \in [Enrollments -> TicketRows] /\ \A e \in Enrollments \ {visit[v].at} : ticket'[e] = ticket[e]
  BY <1>1, WritesTyped
<1>4. \A e \in Enrollments : KeyMoves(e)
  BY <1>1 DEF KeyMoves
<1>5. rigKey' \in [Enrollments -> KeyRows]
  BY <1>1 DEF EnrollInv
<1> QED
  BY <1>1, <1>2, <1>3, <1>4, <1>5, EndsWith

LEMMA InstallsTyped ==
    ASSUME EnrollInv, NEW v \in Visits, visit[v].step # "away", Installs(v)
    PROVE  rigKey' \in [Enrollments -> KeyRows] /\ \A e \in Enrollments : KeyMoves(e)
<1>1. visit[v].at \in Enrollments /\ visit[v].owner \in RigOwners \union {Nobody}
  BY DEF EnrollInv, VisitOK
<1>2. [status |-> "temporary", owner |-> visit[v].owner] \in KeyRows
  BY <1>1 DEF KeyRows
<1>3. CASE rigKey' = rigKey
  BY <1>3 DEF EnrollInv, KeyMoves
<1>4. CASE /\ rigKey[visit[v].at].status = "none"
           /\ rigKey' = [rigKey EXCEPT ![visit[v].at] = [status |-> "temporary", owner |-> visit[v].owner]]
  <2>1. rigKey' \in [Enrollments -> KeyRows]
    BY <1>1, <1>2, <1>4 DEF EnrollInv
  <2>2. \A e \in Enrollments : KeyMoves(e)
    BY <1>1, <1>4 DEF EnrollInv, KeyMoves
  <2> QED
    BY <2>1, <2>2
<1> QED
  BY <1>3, <1>4 DEF Installs

LEMMA RevokesTyped ==
    ASSUME EnrollInv, NEW e \in Enrollments, Revokes(e)
    PROVE  rigKey' \in [Enrollments -> KeyRows] /\ \A f \in Enrollments : KeyMoves(f)
BY DEF Revokes, EnrollInv, KeyRows, KeyMoves

LEMMA GoesToTyped ==
    ASSUME EnrollInv, NEW v \in Visits, NEW step \in Steps, GoesTo(v, step)
    PROVE  \E new \in VisitRows : /\ visit' = [visit EXCEPT ![v] = new] /\ visit'[v] = new
                                  /\ new.step = step /\ new.kind = visit[v].kind
                                  /\ new.at = visit[v].at /\ new.owner = visit[v].owner
<1> DEFINE new == [visit[v] EXCEPT !.step = step]
<1>1. visit[v] \in VisitRows
  BY DEF EnrollInv
<1>2. /\ new \in VisitRows /\ new.step = step /\ new.kind = visit[v].kind
      /\ new.at = visit[v].at /\ new.owner = visit[v].owner
  BY <1>1 DEF VisitRows
<1>3. visit' = [visit EXCEPT ![v] = new] /\ visit'[v] = new
  BY DEF GoesTo, EnrollInv
<1> HIDE DEF new
<1> QED
  BY <1>2, <1>3

LEMMA ApprovalSteps ==
    ASSUME EnrollInv, NEW v \in Visits, InstallKey(v) \/ InstallUnheard(v) \/ PublishFails(v) \/ UndoInstall(v)
    PROVE  EnrollInv' /\ KeysObey
<1>1. CASE InstallKey(v)
  <2>1. /\ rigKey' \in [Enrollments -> KeyRows] /\ \A e \in Enrollments : KeyMoves(e)
        /\ visit[v].step = "loaded" /\ visit[v].kind = "approve"
    BY <1>1, InstallsTyped DEF InstallKey, AtStep
  <2>2. PICK new \in VisitRows : /\ visit' = [visit EXCEPT ![v] = new] /\ visit'[v] = new
                                 /\ new.kind = "approve" /\ new.at = visit[v].at /\ new.owner = visit[v].owner
    BY <1>1, <2>1, GoesToTyped DEF InstallKey, Steps
  <2>3. VisitOK(v)'
    BY <2>1, <2>2 DEF VisitOK, AtStep, EnrollInv
  <2>4. UNCHANGED <<ticket, rowLock>> /\ ticket' \in [Enrollments -> TicketRows]
    BY <1>1 DEF InstallKey, EnrollInv
  <2>5. DOMAIN rowLock' = Enrollments
    BY <2>4 DEF EnrollInv
  <2> QED
    BY <2>1, <2>2, <2>3, <2>4, <2>5, VisitMoves
<1>2. CASE InstallUnheard(v)
  <2>1. /\ rigKey' \in [Enrollments -> KeyRows] /\ \A e \in Enrollments : KeyMoves(e)
    BY <1>2, InstallsTyped DEF InstallUnheard, AtStep
  <2>2. ticket' \in [Enrollments -> TicketRows] /\ ticket' = ticket /\ GoesAway(v)
    BY <1>2 DEF InstallUnheard, EnrollInv
  <2> QED
    BY <2>1, <2>2, EndsWith
<1>3. CASE PublishFails(v)
  <2>1. visit[v].step = "installed" /\ visit[v].kind = "approve" /\ UNCHANGED <<rigKey, rowLock>>
    BY <1>3 DEF PublishFails, AtStep
  <2>2. PICK new \in VisitRows : /\ visit' = [visit EXCEPT ![v] = new] /\ visit'[v] = new
                                 /\ new.kind = "approve" /\ new.at = visit[v].at /\ new.owner = visit[v].owner
    BY <1>3, <2>1, GoesToTyped DEF PublishFails, Steps
  <2>3. VisitOK(v)'
    BY <2>1, <2>2 DEF VisitOK, AtStep, EnrollInv
  <2>4. /\ ticket' \in [Enrollments -> TicketRows]
        /\ \A e \in Enrollments : ticket'[e].status = "activated" => ticket[e].status = "activated"
    <3>1. CASE ticket' = ticket
      BY <3>1 DEF EnrollInv
    <3>2. CASE Writes(v, "complete")
      BY <2>1, <3>2, WritesTyped
    <3> QED
      BY <1>3, <3>1, <3>2 DEF PublishFails
  <2>5. DOMAIN rowLock' = Enrollments /\ rigKey' \in [Enrollments -> KeyRows] /\ \A e \in Enrollments : KeyMoves(e)
    BY <2>1 DEF EnrollInv, KeyMoves
  <2> QED
    BY <2>1, <2>2, <2>3, <2>4, <2>5, VisitMoves
<1>4. CASE UndoInstall(v)
  <2>1. Revokes(visit[v].at) /\ GoesAway(v) /\ ticket' = ticket /\ visit[v].step # "away"
    BY <1>4 DEF UndoInstall, AtStep
  <2>2. visit[v].at \in Enrollments /\ ticket' \in [Enrollments -> TicketRows]
    BY <2>1 DEF EnrollInv, VisitOK
  <2>3. rigKey' \in [Enrollments -> KeyRows] /\ \A e \in Enrollments : KeyMoves(e)
    BY <2>1, <2>2, RevokesTyped
  <2> QED
    BY <2>1, <2>2, <2>3, EndsWith
<1> QED
  BY <1>1, <1>2, <1>3, <1>4

LEMMA AcknowledgeSteps ==
    ASSUME EnrollInv, NEW v \in Visits, ReadLabel(v) \/ WriteOwnRow(v)
    PROVE  EnrollInv' /\ KeysObey
<1>1. UNCHANGED <<ticket, rigKey>> /\ visit[v].step # "away" /\ visit[v].kind = "ack"
  BY DEF ReadLabel, WriteOwnRow, AtStep
<1>2. /\ rigKey' \in [Enrollments -> KeyRows] /\ ticket' \in [Enrollments -> TicketRows]
      /\ \A e \in Enrollments : KeyMoves(e)
  BY <1>1 DEF EnrollInv, KeyMoves
<1>3. visit[v].at \in Enrollments /\ visit[v].owner \in RigOwners \union {Nobody}
  BY <1>1 DEF EnrollInv, VisitOK
<1>4. CASE ReadLabel(v)
  <2>1. PICK new \in VisitRows : /\ visit' = [visit EXCEPT ![v] = new] /\ visit'[v] = new /\ new.step = "named"
                                 /\ new.at = visit[v].at /\ new.owner = visit[v].owner
    BY <1>4, GoesToTyped DEF ReadLabel, Steps
  <2>2. VisitOK(v)'
    BY <1>3, <2>1 DEF VisitOK, AtStep
  <2>3. rowLock' = rowLock /\ DOMAIN rowLock' = Enrollments
    BY <1>4 DEF ReadLabel, EnrollInv
  <2> QED
    BY <1>1, <1>2, <2>1, <2>2, <2>3, VisitMoves
<1>5. CASE WriteOwnRow(v)
  <2>1. PICK new \in VisitRows : /\ visit' = [visit EXCEPT ![v] = new] /\ visit'[v] = new /\ new.step = "written"
                                 /\ new.at = visit[v].at /\ new.owner = visit[v].owner
    BY <1>5, GoesToTyped DEF WriteOwnRow, Steps
  <2>2. /\ rowLock[visit[v].at] = Nobody /\ Usable(visit[v].at, visit[v].owner)
        /\ rowLock' = [rowLock EXCEPT ![visit[v].at] = v]
    BY <1>5 DEF WriteOwnRow, StillUsable
  <2>3. /\ DOMAIN rowLock' = Enrollments /\ rowLock'[visit[v].at] = v
        /\ \A e \in Enrollments : rowLock'[e] = rowLock[e] \/ rowLock[e] = Nobody
    BY <1>3, <2>2 DEF EnrollInv
  <2>4. VisitOK(v)'
    BY <1>1, <1>3, <2>1, <2>2, <2>3 DEF VisitOK, AtStep, Usable
  <2> QED
    BY <1>1, <1>2, <2>1, <2>3, <2>4, VisitMoves
<1> QED
  BY <1>4, <1>5

\* The one step that makes a key permanent.
LEMMA RevokeOlderStep ==
    ASSUME EnrollInv, NEW v \in Visits, RevokeOlder(v) PROVE EnrollInv' /\ KeysObey
<1>1. PICK at \in Enrollments, a \in RigOwners \union {Nobody} : at = visit[v].at /\ a = visit[v].owner
  BY DEF RevokeOlder, AtStep, EnrollInv, VisitOK
<1>2. /\ AtStep(v, "ack", "written") /\ \A f \in Older(v) : rowLock[f] = Nobody
      /\ rigKey' = [e \in Enrollments |->
           IF e = at THEN [rigKey[e] EXCEPT !.status = "permanent"]
           ELSE IF e \in Older(v) THEN [rigKey[e] EXCEPT !.status = "revoked"] ELSE rigKey[e]]
      /\ rowLock' = [rowLock EXCEPT ![at] = Nobody] /\ GoesTo(v, "done") /\ ticket' = ticket
  BY <1>1 DEF RevokeOlder
<1>3. /\ rowLock[at] = v /\ Usable(at, a) /\ v # Nobody
      /\ Older(v) = {f \in Enrollments \ {at} : Usable(f, a)}
  BY <1>1, <1>2 DEF EnrollInv, VisitOK, Older
<1>4. \A e \in Enrollments : rigKey[e] \in KeyRows
  BY DEF EnrollInv
<1>5. rigKey'[at] = [status |-> "permanent", owner |-> a]
  BY <1>2, <1>3, <1>4 DEF KeyRows, Usable
<1>6. \A e \in Enrollments \ {at} : IF Usable(e, a) THEN rigKey'[e] = [status |-> "revoked", owner |-> a]
                                    ELSE rigKey'[e] = rigKey[e]
  BY <1>2, <1>3, <1>4 DEF KeyRows, Usable
<1>7. \A status \in {"permanent", "revoked"} : [status |-> status, owner |-> a] \in KeyRows
  BY DEF KeyRows
<1>8. rigKey' \in [Enrollments -> KeyRows]
  BY <1>2, <1>4, <1>5, <1>6, <1>7
<1>9. KeysOK'
  <2> SUFFICES ASSUME NEW e \in Enrollments, NEW f \in Enrollments, e # f,
                      rigKey'[e].status = "permanent", rigKey'[f] = rigKey'[e]
               PROVE  FALSE
    BY DEF KeysOK
  <2>1. CASE e = at
    BY <1>5, <1>6, <2>1 DEF Usable
  <2>2. CASE f = at
    BY <1>5, <1>6, <2>2 DEF Usable
  <2>3. CASE e # at /\ f # at
    BY <1>6, <2>3 DEF KeysOK, EnrollInv
  <2> QED
    BY <2>1, <2>2, <2>3
<1>10. PICK new \in VisitRows : /\ visit' = [visit EXCEPT ![v] = new] /\ visit'[v] = new /\ new.step = "done"
                                /\ new.at = at /\ new.owner = a
  BY <1>1, <1>2, GoesToTyped DEF Steps
<1>11. visit' \in [Visits -> VisitRows] /\ \A w \in Visits \ {v} : visit'[w] = visit[w]
  BY <1>10 DEF EnrollInv
<1>12. VisitOK(v)'
  BY <1>5, <1>10 DEF VisitOK, AtStep
<1>13. ASSUME NEW w \in Visits \ {v} PROVE VisitOK(w)'
  <2>1. VisitOK(w) /\ w # Nobody /\ visit'[w] = visit[w]
    BY <1>11 DEF EnrollInv
  <2>2. PICK e : e = visit[w].at
    OBVIOUS
  <2>3. CASE AtStep(w, "ack", "written")
    <3>1. rowLock[e] = w /\ Usable(e, visit[w].owner) /\ e \in Enrollments
      BY <2>1, <2>2, <2>3 DEF VisitOK, AtStep
    <3>2. e # at /\ ~Usable(e, a)
      BY <1>2, <1>3, <2>1, <3>1
    <3>3. rowLock'[e] = w /\ rigKey'[e] = rigKey[e]
      BY <1>2, <1>6, <3>1, <3>2
    <3> QED
      BY <2>1, <2>2, <2>3, <3>1, <3>3 DEF VisitOK, AtStep, Usable
  <2>4. CASE AtStep(w, "ack", "done")
    <3>1. e \in Enrollments /\ rigKey[e].status \in {"permanent", "revoked"}
      BY <2>1, <2>2, <2>4 DEF VisitOK, AtStep
    <3>2. rigKey'[e].status \in {"permanent", "revoked"}
      BY <1>5, <1>6, <3>1
    <3> QED
      BY <2>1, <2>2, <2>4, <3>2 DEF VisitOK, AtStep
  <2>5. CASE ~AtStep(w, "ack", "written") /\ ~AtStep(w, "ack", "done")
    BY <2>1, <2>5 DEF VisitOK, AtStep
  <2> QED
    BY <2>3, <2>4, <2>5
<1>14. EnrollInv'
  BY <1>2, <1>8, <1>9, <1>11, <1>12, <1>13 DEF EnrollInv
<1>15. KeysObey
  <2>1. rigKey[at].status # "revoked"
    BY <1>3 DEF Usable
  <2>2. \A e \in Enrollments : rigKey[e].status = "revoked" => ~Usable(e, a)
    BY DEF Usable
  <2> QED
    BY <1>2, <1>6, <2>1, <2>2 DEF KeysObey
<1> QED
  BY <1>14, <1>15

\* Nobody's request: a lock runs out, a record is over, an owner acts.
LEMMA AroundEnrollment ==
    ASSUME EnrollInv, \/ MergeOwner \/ UNCHANGED enrollVars
                      \/ \E e \in Enrollments : Lapses(e) \/ RecordExpires(e) \/ OwnerRevokes(e)
    PROVE  EnrollInv' /\ KeysObey
<1>1. UNCHANGED <<visit, rowLock>>
  BY DEF MergeOwner, Lapses, RecordExpires, OwnerRevokes, enrollVars
<1>2. /\ ticket' \in [Enrollments -> TicketRows]
      /\ \A e \in Enrollments : ticket'[e].status = "activated" => ticket[e].status = "activated"
  <2>1. CASE ticket' = ticket
    BY <2>1 DEF EnrollInv
  <2>2. ASSUME NEW e \in Enrollments, RecordExpires(e)
        PROVE  /\ ticket' \in [Enrollments -> TicketRows]
               /\ \A f \in Enrollments : ticket'[f].status = "activated" => ticket[f].status = "activated"
    BY <2>2 DEF RecordExpires, EnrollInv, TicketRows
  <2> QED
    BY <2>1, <2>2 DEF MergeOwner, Lapses, OwnerRevokes, enrollVars
<1>3. /\ rigKey' \in [Enrollments -> KeyRows] /\ \A e \in Enrollments : KeyMoves(e)
  <2>1. CASE rigKey' = rigKey
    BY <2>1 DEF EnrollInv, KeyMoves
  <2>2. ASSUME NEW e \in Enrollments, OwnerRevokes(e)
        PROVE  rigKey' \in [Enrollments -> KeyRows] /\ \A f \in Enrollments : KeyMoves(f)
    BY <2>2, RevokesTyped DEF OwnerRevokes
  <2>3. CASE MergeOwner
    BY <2>3 DEF MergeOwner, EnrollInv, KeyRows, KeyMoves
  <2> QED
    BY <2>1, <2>2, <2>3 DEF Lapses, RecordExpires, enrollVars
<1> QED
  BY <1>1, <1>2, <1>3, NobodyMoves

LEMMA EnrollKept == ASSUME EnrollInv, [EnrollNext]_enrollVars PROVE EnrollInv' /\ KeysObey
<1>1. ASSUME NEW v \in Visits,
             \/ \E e \in Enrollments, kind \in Kinds : Loads(v, e, kind)
             \/ Ends(v) \/ SavePrepared(v)
             \/ InstallKey(v) \/ InstallUnheard(v)
             \/ PublishCertificate(v) \/ PublishFails(v) \/ UndoInstall(v)
             \/ ReadLabel(v) \/ WriteOwnRow(v) \/ RevokeOlder(v) \/ PublishActivated(v)
      PROVE  EnrollInv' /\ KeysObey
  BY <1>1, LoadsStep, EndSteps, ApprovalSteps, AcknowledgeSteps, RevokeOlderStep, PublishActivatedStep
<1> QED
  BY <1>1, AroundEnrollment DEF EnrollNext

(***************************************************************************)
(* An account has one permanent key for a rig, a revoked key stays         *)
(* revoked, and "activated" is told of a key that does not run out: for    *)
(* any number of enrollments, owners and requests in progress.             *)
(***************************************************************************)
THEOREM RigsHaveOneKey == EnrollSpec => OneKeyPerRig
<1>1. ASSUME EnrollInv, [EnrollNext]_enrollVars
      PROVE  [\A e \in Enrollments :
        /\ rigKey[e].status = "revoked" => rigKey'[e] = rigKey[e]
        /\ rigKey'[e].status = "permanent" =>
             \A f \in Enrollments \ {e} : rigKey'[f] # rigKey'[e]
        /\ ticket'[e].status = "activated" /\ ticket[e].status # "activated" =>
             rigKey'[e].status \in {"permanent", "revoked"}]_enrollVars
  BY <1>1, EnrollKept DEF EnrollInv, KeysOK, KeysObey
<1> QED
  BY <1>1, EnrollStarts, EnrollKept, PTL DEF EnrollSpec, OneKeyPerRig

HIDE EnrollmentAssumption

=============================================================================
