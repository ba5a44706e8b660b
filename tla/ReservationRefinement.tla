------------------------ MODULE ReservationRefinement ------------------------
(***************************************************************************)
(* Action properties of the reservation lifecycle, and the proof that it   *)
(* implements JobMoney.  Every step is quiet for the money of the jobs, or *)
(* holds, records, charges or refunds one job and leaves the others alone. *)
(***************************************************************************)
EXTENDS ReservationSafety

USE NoAccountAssumption, NoGrantAssumption, CampaignAssumption, JobsAssumption

\* The effects a step can have on the money of job j.
Quiet      == \A i \in Jobs : Untouched(i)
Others(j)  == \A i \in Jobs : i # j => Untouched(i)
Holds0(j)  == /\ res[j].status = "none" /\ ~paid[j]
              /\ res'[j].status = "held" /\ ~paid'[j] /\ Others(j)
Records(j) == /\ res[j].status = "none" /\ ~paid[j]
              /\ res'[j] = res[j] /\ paid'[j] /\ SameRows(j) /\ Others(j)
Charges(j) == Held(j) /\ res'[j].status = "settled" /\ paid'[j] /\ Others(j)
Refunds(j) == Held(j) /\ ~paid[j] /\ res'[j].status = "settled" /\ ~paid'[j] /\ Others(j)

\* The transaction of an admission.
LEMMA ReservesEffect ==
    ASSUME IInv, NEW j \in Jobs, Reserves(j)
    PROVE  Holds0(j)
<1> PICK f \in FreeDraws : Hold(j, FromFree(j, f))
  BY DEF Reserves
<1>0. TypeOK /\ res \in [Jobs -> Holds]
  BY DEF IInv, TypeOK, ReservationTypeOK
<1>1. res[j].status = "none" /\ ~paid[j] /\ paid' = paid
  BY DEF IInv, RequestInv, Hold
<1>2. res'[j].status = "held" /\ \A i \in Jobs : i # j => res'[i] = res[i]
  BY <1>0 DEF Hold
<1>3. \A i \in Jobs : i # j => SameRows(i)
  <2>1. CASE UNCHANGED ledger
    BY <2>1 DEF SameRows
  <2>2. ASSUME NEW row, ledger' = [ledger EXCEPT ![HoldRef(j)] = row]
        PROVE  \A i \in Jobs : i # j => SameRows(i)
    BY <1>0, <2>2, OthersUntouched
  <2> QED
    BY <2>1, <2>2 DEF Hold, DebitInSession
<1> QED
  BY <1>1, <1>2, <1>3 DEF Holds0, Others, Untouched

\* Closing leaves the reservations of other jobs alone.
LEMMA CloseEffect ==
    ASSUME IInv, NEW j \in Jobs, NEW act, Close(j, act)
    PROVE  res'[j].status = "settled" /\ \A i \in Jobs : i # j => res'[i] = res[i]
BY DEF IInv, TypeOK, ReservationTypeOK, Close, Holds

LEMMA CompletesEffect ==
    ASSUME IInv, NEW j \in Jobs, Completes(j)
    PROVE  Charges(j)
<1> PICK actual \in Actuals \cup {Cost[j]} : CompleteAndSettle(j, actual)
  BY DEF Completes
<1>0. actual \in Nat
  OBVIOUS
<1>1. /\ Held(j) /\ Close(j, actual) /\ canon' = canon /\ paid' = [paid EXCEPT ![j] = TRUE]
      /\ paid \in [Jobs -> BOOLEAN]
  BY DEF CompleteAndSettle, MayComplete, Held, IInv, TypeOK, ReservationTypeOK
<1>2. \A i \in Jobs : i # j => SameRows(i)
  <2>1. CASE j \in Exact
    BY <2>1 DEF CompleteAndSettle, KeepExact, SameRows
  <2>2. CASE j \notin Exact
    BY <1>0, <1>1, <2>2, ReconcileMoves DEF CompleteAndSettle
  <2> QED
    BY <2>1, <2>2
<1> QED
  BY <1>1, <1>2, CloseEffect DEF Charges, Others, Untouched

LEMMA RefundEffect ==
    ASSUME IInv, NEW j \in Jobs, Refund(j), ~paid[j]
    PROVE  Refunds(j)
<1>1. Held(j) /\ Close(j, res[j].actual) /\ canon' = canon /\ paid' = paid
  BY DEF Refund
<1>2. \A i \in Jobs : i # j => SameRows(i)
  <2>1. CASE PaidHeld(j) > 0
    <3>1. PaidHeld(j) \in 1..PaidHeld(j)
      BY <1>1, <2>1, HeldFacts
    <3> QED
      BY <1>1, <2>1, <3>1, RefundMoves DEF Refund
  <2>2. CASE ~(PaidHeld(j) > 0)
    BY <2>2 DEF Refund, SameRows
  <2> QED
    BY <2>1, <2>2
<1> QED
  BY <1>1, <1>2, CloseEffect DEF Refunds, Others, Untouched

LEMMA SweepSettlesEffect ==
    ASSUME IInv, NEW j \in Jobs, SweepSettles(j)
    PROVE  Quiet \/ Charges(j)
<1> PICK actual \in Actuals \cup {Cost[j]} : SweepSettle(j, actual)
  BY DEF SweepSettles
<1>0. actual \in Nat /\ canon' = canon /\ paid' = paid /\ paid[j]
  BY DEF SweepSettle, IInv, SweepInv
<1>1. CASE ~Held(j)
  BY <1>0, <1>1 DEF SweepSettle, Quiet, Untouched, SameRows
<1>2. CASE Held(j)
  <2>1. \E act : Close(j, act)
    BY <1>2 DEF SweepSettle
  <2>2. \A i \in Jobs : i # j => SameRows(i)
    <3>1. CASE j \in Exact
      BY <1>2, <3>1 DEF SweepSettle, KeepExact, SameRows
    <3>2. CASE j \notin Exact
      BY <1>0, <1>2, <3>2, ReconcileMoves DEF SweepSettle
    <3> QED
      BY <3>1, <3>2
  <2> QED
    BY <1>0, <1>2, <2>1, <2>2, CloseEffect DEF Charges, Others, Untouched
<1> QED
  BY <1>1, <1>2

\* Every step is of one of these kinds.
LEMMA StepKinds ==
    ASSUME IInv, [Next]_vars
    PROVE  Quiet \/ \E j \in Jobs : Holds0(j) \/ Records(j) \/ Charges(j) \/ Refunds(j)
<1>1. CASE AccountStep
  <2>1. res' = res /\ paid' = paid
    BY <1>1 DEF AccountStep, Fund, Grant, Expire, MergeAccounts, flowVars
  <2>2. ledger \in [Refs -> Rows]
    BY DEF IInv, TypeOK, CreditTypeOK
  <2>3. ASSUME NEW i \in Jobs PROVE SameRows(i)
    <3>1. ASSUME NEW t \in TopUps, NEW a \in Accounts, NEW m \in Amounts, NEW b \in BOOLEAN,
                 Fund(t, a, m, b)
          PROVE  SameRows(i)
      BY <2>2, <3>1, RefsTyped, RefsDistinct DEF Fund, TopUp, CreditInSession, SameRows
    <3>2. ASSUME NEW d \in Accounts, NEW s \in Accounts, MergeAccounts(d, s)
          PROVE  SameRows(i)
      BY <2>2, <3>2, RefsTyped, RefsDistinct DEF MergeAccounts, MoveBalance, SameRows
    <3>3. ASSUME NEW a \in Accounts, Grant(a) \/ Expire(a)
          PROVE  SameRows(i)
      BY <3>3 DEF Grant, Expire, creditVars, SameRows
    <3> QED
      BY <1>1, <3>1, <3>2, <3>3 DEF AccountStep
  <2> QED
    BY <2>1, <2>3 DEF Quiet, Untouched
<1>2. ASSUME NEW j \in Jobs, JobStep(j)
      PROVE  Quiet \/ Holds0(j) \/ Records(j) \/ Charges(j) \/ Refunds(j)
  <2>1. CASE Reserves(j)
    BY <2>1, ReservesEffect
  <2>2. CASE Completes(j)
    BY <2>2, CompletesEffect
  <2>3. CASE CompleteUnreserved(j)
    <3>1. /\ res[j].status = "none" /\ ~paid[j] /\ UNCHANGED <<ledger, res>>
          /\ paid' = [paid EXCEPT ![j] = TRUE]
      BY <2>3 DEF CompleteUnreserved, MayComplete, creditVars
    <3>2. paid \in [Jobs -> BOOLEAN]
      BY DEF IInv, TypeOK, ReservationTypeOK
    <3>3. paid'[j] /\ \A i \in Jobs : i # j => paid'[i] = paid[i]
      BY <3>1, <3>2
    <3> QED
      BY <3>1, <3>3 DEF Records, Others, Untouched, SameRows
  <2>4. CASE ReleaseJob(j)
    BY <2>4, RefundEffect DEF ReleaseJob, Refund, IInv, SweepInv
  <2>5. CASE SweepRelease(j) /\ Held(j)
    BY <2>5, RefundEffect DEF SweepRelease, IInv, SweepInv
  <2>6. CASE SweepSettles(j)
    BY <2>6, SweepSettlesEffect
  <2>7. CASE \/ Request(j) \/ RequestUncharged(j) \/ DrawPromo(j) \/ DrawFails(j)
             \/ HoldRefused(j) \/ UndoDraw(j) \/ RequestCrash(j) \/ RunAfter(j) \/ LoseAfter(j)
             \/ SweepList(j) \/ SweepLookup(j) \/ (SweepRelease(j) /\ ~Held(j))
             \/ SpendAges(j) \/ PromoSweepRead(j) \/ PromoSweepAct(j)
    <3>1. UNCHANGED <<ledger, res, paid>>
      BY <2>7
      DEF Request, RequestUncharged, DrawPromo, DrawFails, HoldRefused, UndoDraw, RequestCrash,
          RunAfter, LoseAfter, SweepList, SweepLookup, SweepRelease, SpendAges, PromoSweepRead,
          PromoSweepAct, creditVars
    <3> QED
      BY <3>1 DEF Quiet, Untouched, SameRows
  <2> QED
    BY <1>2, <2>1, <2>2, <2>3, <2>4, <2>5, <2>6, <2>7 DEF JobStep
<1>3. CASE UNCHANGED vars
  BY <1>3 DEF vars, creditVars, flowVars, Quiet, Untouched, SameRows
<1> QED
  BY <1>1, <1>2, <1>3 DEF Next

-----------------------------------------------------------------------------
(***************************************************************************)
(* Terminal states are final: once a reservation is closed, no completion, *)
(* release or sweep of any job moves its money or pays its worker.         *)
(***************************************************************************)
THEOREM ClosedStaysClosed == Spec => TerminalIsFinal
<1>1. ASSUME IInv, [Next]_vars, NEW j \in Jobs, res[j].status = "settled"
      PROVE  res'[j] = res[j] /\ paid'[j] = paid[j] /\ JobRows(j)' = JobRows(j)
  <2>1. Untouched(j)
    BY <1>1, StepKinds DEF Quiet, Holds0, Records, Charges, Refunds, Others, Held
  <2> QED
    BY <2>1 DEF Untouched, SameRows, JobRows
<1>2. IInv /\ [Next]_vars =>
        [\A j \in Jobs : res[j].status = "settled" =>
            /\ res'[j] = res[j]
            /\ paid'[j] = paid[j]
            /\ JobRows(j)' = JobRows(j)]_vars
  BY <1>1
<1> QED
  BY <1>2, Inductive, PTL DEF Spec, TerminalIsFinal

(***************************************************************************)
(* The sweeper never refunds a job whose worker is paid, although the      *)
(* worker ledger it read may have changed when it acts.                    *)
(***************************************************************************)
THEOREM SweepSparesPaidWork == Spec => SweepNeverRefundsPaidWork
<1>1. ASSUME IInv, [Next]_vars, NEW j \in Jobs,
             sweep[j] = "release", res'[j] # res[j]
      PROVE  ~paid[j]
  <2>1. Holds0(j) \/ Charges(j) \/ Refunds(j)
    BY <1>1, StepKinds DEF Quiet, Holds0, Records, Charges, Refunds, Others, Untouched
  <2> QED
    BY <1>1, <2>1 DEF IInv, SweepInv, Holds0, Charges, Refunds
<1>2. IInv /\ [Next]_vars =>
        [\A j \in Jobs :
            sweep[j] = "release" /\ sweep'[j] = "idle" /\ res'[j] # res[j] => ~paid[j]]_vars
  BY <1>1
<1> QED
  BY <1>2, Inductive, PTL DEF Spec, SweepNeverRefundsPaidWork

-----------------------------------------------------------------------------
\* What a job has cost is never negative, and nothing before a hold.
NetBounded(j) ==
    /\ Net(j) \in Nat
    /\ res[j].status = "none" => Net(j) = 0
    /\ res[j].status = "settled" /\ ~paid[j] => Net(j) = 0

LEMMA NetBounds ==
    ASSUME IInv, NEW j \in Jobs
    PROVE  NetBounded(j)
<1> DEFINE hold   == ledger[HoldRef(j)]
           refund == ledger[RefundRef(j)]
           extra  == ledger[ExtraRef(j)]
<1>1. hold \in Rows /\ refund \in Rows /\ extra \in Rows
  BY RefsTyped DEF IInv, TypeOK, CreditTypeOK
<1>2. RowsInv(j) /\ PaidHeld(j) \in Int
  BY DEF IInv, TypeOK, ReservationTypeOK, Holds, PaidHeld
<1>3. NoRow.delta = 0
  BY DEF NoRow, Row
<1>4. hold.delta = -PaidHeld(j)
  BY <1>2, <1>3 DEF RowsInv, IsHoldRow
<1>5. refund.delta \in 0..PaidHeld(j)
  BY <1>1, <1>2, <1>3, <1>4 DEF RowsInv, IsRefundOf
<1>6. extra.delta \in Int /\ extra.delta <= 0
  BY <1>1, <1>2 DEF RowsInv, Rows
<1>7. Net(j) = PaidHeld(j) - refund.delta - extra.delta
  BY <1>2, <1>4, <1>5, <1>6 DEF Net
<1>8. res[j].status = "none" => PaidHeld(j) = 0 /\ extra.delta = 0
  BY <1>2, <1>3 DEF RowsInv
<1>9. res[j].status = "settled" /\ ~paid[j] => refund.delta = PaidHeld(j) /\ extra.delta = 0
  BY <1>2, <1>3 DEF RowsInv
<1> HIDE DEF hold, refund, extra
<1> QED
  BY <1>2, <1>5, <1>6, <1>7, <1>8, <1>9 DEF NetBounded

\* ... in the next state too.
LEMMA NetBoundsNext == IInv' => (\A j \in Jobs : NetBounded(j))'
<1>1. IInv => \A j \in Jobs : NetBounded(j)
  BY NetBounds
<1> QED
  BY <1>1, PTL

\* The mapped phase, worker and cost follow the job's rows.
LEMMA MappedFrame ==
    ASSUME NEW i \in Jobs, Untouched(i)
    PROVE  Phase(i)' = Phase(i) /\ Net(i)' = Net(i) /\ paid'[i] = paid[i]
BY DEF Untouched, SameRows, Phase, Net

\* A step that moves one job is a step of JobMoney's Becomes.
LEMMA OthersBecome ==
    ASSUME TypeOK, TypeOK', NEW j \in Jobs, Others(j), NEW p, NEW w \in BOOLEAN,
           Phase(j)' = p, paid'[j] = w
    PROVE  Money!Becomes(j, p, w)
<1>1. \A i \in Jobs : i # j => Phase(i)' = Phase(i) /\ Net(i)' = Net(i) /\ paid'[i] = paid[i]
  BY MappedFrame DEF Others
<1>2. paid \in [Jobs -> BOOLEAN] /\ paid' \in [Jobs -> BOOLEAN]
  BY DEF TypeOK, ReservationTypeOK
<1>3. [i \in Jobs |-> Phase(i)'] = [[i \in Jobs |-> Phase(i)] EXCEPT ![j] = p]
  BY <1>1
<1>4. paid' = [paid EXCEPT ![j] = w]
  BY <1>1, <1>2
<1>5. [i \in Jobs |-> Net(i)'] = [[i \in Jobs |-> Net(i)] EXCEPT ![j] = Net(j)']
  BY <1>1
<1> QED
  BY <1>3, <1>4, <1>5 DEF Money!Becomes

LEMMA StepRefines ==
    ASSUME IInv, IInv', [Next]_vars
    PROVE  [Money!MoneyNext]_(Money!moneyVars)
<1>0. TypeOK /\ TypeOK'
  BY DEF IInv
<1>1. CASE Quiet
  <2>1. \A i \in Jobs : Phase(i)' = Phase(i) /\ Net(i)' = Net(i) /\ paid'[i] = paid[i]
    BY <1>1, MappedFrame DEF Quiet
  <2>2. paid' = paid
    BY <1>0, <2>1 DEF TypeOK, ReservationTypeOK
  <2> QED
    BY <2>1, <2>2 DEF Money!moneyVars
<1>2. ASSUME NEW j \in Jobs, Holds0(j) PROVE Money!MoneyNext
  <2>1. Phase(j) = "open" /\ Phase(j)' = "held"
    BY <1>2 DEF Holds0, Phase
  <2>2. Money!Becomes(j, "held", FALSE)
    BY <1>0, <1>2, <2>1, OthersBecome DEF Holds0, TypeOK, ReservationTypeOK
  <2>3. Net(j)' \in Nat
    BY NetBoundsNext DEF NetBounded
  <2> QED
    BY <1>2, <2>1, <2>2, <2>3 DEF Money!MoneyNext, Money!HoldMoney, Holds0
<1>3. ASSUME NEW j \in Jobs, Records(j) PROVE Money!MoneyNext
  <2>1. Phase(j) = "open" /\ Phase(j)' = "open"
    BY <1>3 DEF Records, Phase
  <2>2. Money!Becomes(j, "open", TRUE)
    BY <1>0, <1>3, <2>1, OthersBecome DEF Records, TypeOK, ReservationTypeOK
  <2>3. Net(j)' = 0
    BY <1>3, NetBoundsNext DEF NetBounded, Records
  <2> QED
    BY <1>3, <2>1, <2>2, <2>3 DEF Money!MoneyNext, Money!RecordUnheld, Records
<1>4. ASSUME NEW j \in Jobs, Charges(j) PROVE Money!MoneyNext
  <2>1. Phase(j) = "held" /\ Phase(j)' = "charged"
    BY <1>4 DEF Charges, Phase, Held
  <2>2. Money!Becomes(j, "charged", TRUE)
    BY <1>0, <1>4, <2>1, OthersBecome DEF Charges, TypeOK, ReservationTypeOK
  <2>3. Net(j)' \in Nat
    BY NetBoundsNext DEF NetBounded
  <2> QED
    BY <2>1, <2>2, <2>3 DEF Money!MoneyNext, Money!ChargeMoney
<1>5. ASSUME NEW j \in Jobs, Refunds(j) PROVE Money!MoneyNext
  <2>1. Phase(j) = "held" /\ Phase(j)' = "refunded"
    BY <1>5 DEF Refunds, Phase, Held
  <2>2. Money!Becomes(j, "refunded", FALSE)
    BY <1>0, <1>5, <2>1, OthersBecome DEF Refunds, TypeOK, ReservationTypeOK
  <2>3. Net(j)' = 0
    BY <1>5, NetBoundsNext DEF NetBounded, Refunds
  <2> QED
    BY <1>5, <2>1, <2>2, <2>3 DEF Money!MoneyNext, Money!RefundMoney, Refunds
<1> QED
  BY <1>1, <1>2, <1>3, <1>4, <1>5, StepKinds

LEMMA InitRefines == Init => Money!MoneyInit
<1> SUFFICES ASSUME Init PROVE Money!MoneyInit
  OBVIOUS
<1>0. IInv
  BY InitSafe
<1>1. \A j \in Jobs : Phase(j) \in {"open", "held"}
  BY <1>0 DEF Init, NoHold, Phase
<1>2. [j \in Jobs |-> Phase(j)] \in [Jobs -> {"open", "held"}]
  BY <1>1
<1>3. paid \in [Jobs -> BOOLEAN]
  BY <1>0 DEF IInv, TypeOK, ReservationTypeOK
<1>4. \A j \in Jobs : NetBounded(j)
  BY <1>0, NetBounds
<1>5. [j \in Jobs |-> Net(j)] \in [Jobs -> Int]
  BY <1>4 DEF NetBounded
<1>6. ASSUME NEW j \in Jobs, Phase(j) = "open" PROVE Net(j) = 0 /\ ~paid[j]
  <2>1. res[j].status = "none"
    BY <1>6 DEF Phase
  <2>2. j \notin Legacy /\ paid[j] = (j \in Legacy)
    BY <2>1 DEF Init, NoHold
  <2> QED
    BY <2>1, <2>2, <1>4 DEF NetBounded
<1> QED
  BY <1>2, <1>3, <1>5, <1>6 DEF Money!MoneyInit

(***************************************************************************)
(* The reservation lifecycle implements JobMoney: in every behaviour of    *)
(* the code's transactions each job's credit is held once, and then        *)
(* charged together with the worker's payout row or refunded in full.      *)
(***************************************************************************)
THEOREM Implements == Spec => ImplementsJobMoney
<1>1. IInv /\ IInv' /\ [Next]_vars => [Money!MoneyNext]_(Money!moneyVars)
  BY StepRefines
<1> QED
  BY <1>1, InitRefines, Inductive, PTL DEF Spec, ImplementsJobMoney, Money!MoneySpec
=============================================================================
