-------------------------- MODULE ReservationSafety --------------------------
(***************************************************************************)
(* Machine-checked proofs about the reservation lifecycle, for any number  *)
(* of accounts and jobs and any amounts.  First every state has its type;  *)
(* then the inductive invariant IInv of ReservationProps holds in every    *)
(* reachable state, and with it the safety properties of the purchased     *)
(* credit pocket.  The argument: an action either leaves the purchased     *)
(* pocket, the reservations and the worker ledger alone (MoneyKept), or    *)
(* moves the rows of one job (OneJobMoves), or moves accounts.             *)
(* Two more invariants stand on IInv: the balances are the sums of the     *)
(* ledger's rows (LedgerKept: every step books one row with its amount, a  *)
(* merge two that cancel), and PocketInv, of the promotional pocket.       *)
(***************************************************************************)
EXTENDS ReservationProps, SetProofs

USE NoAccountAssumption, NoGrantAssumption, CampaignAssumption, JobsAssumption, LedgerAssumption

\* The rows of one job have refs of their own.
LEMMA RefsTyped ==
    /\ \A j \in Jobs : HoldRef(j) \in Refs /\ RefundRef(j) \in Refs /\ ExtraRef(j) \in Refs
    /\ \A t \in TopUps : TopUpRef(t) \in Refs
    /\ \A a \in Accounts : MergeOutRef(a) \in Refs /\ MergeInRef(a) \in Refs
BY DEF HoldRef, RefundRef, ExtraRef, TopUpRef, MergeOutRef, MergeInRef, Refs, JobRefs

\* A row made of an account and two integers is a row.
LEMMA RowTyped ==
    ASSUME NEW a \in Accounts, NEW d \in Int, NEW f \in Int
    PROVE  Row(a, d, f) \in Rows
BY DEF Row, Rows

\* A credit keeps the types of the purchased pocket.
LEMMA CreditTyped ==
    ASSUME CreditTypeOK, NEW a \in Accounts, NEW m \in Int, NEW f \in Int, NEW r \in Refs,
           CreditInSession(a, m, f, r)
    PROVE  /\ balance' \in [Accounts -> Int]
           /\ funded'  \in [Accounts -> Int]
           /\ ledger'  \in [Refs -> Rows]
BY RowTyped DEF CreditTypeOK, CreditInSession

\* So does a debit.
LEMMA DebitTyped ==
    ASSUME CreditTypeOK, NEW a \in Accounts, NEW m \in Int, NEW r \in Refs,
           DebitInSession(a, m, r)
    PROVE  /\ balance' \in [Accounts -> Int]
           /\ funded'  \in [Accounts -> Int]
           /\ ledger'  \in [Refs -> Rows]
<1>1. FundedUsed(a, m) \in Int
  BY DEF CreditTypeOK, FundedUsed, Lesser
<1>2. Row(a, -m, -FundedUsed(a, m)) \in Rows
  BY <1>1, RowTyped
<1> QED
  BY <1>1, <1>2 DEF CreditTypeOK, DebitInSession

\* So does a refund, whose funded part is an integer.
LEMMA RefundTyped ==
    ASSUME CreditTypeOK, NEW a \in Accounts, NEW j \in Jobs, NEW m \in Int,
           RefundInSession(a, j, m)
    PROVE  /\ balance' \in [Accounts -> Int]
           /\ funded'  \in [Accounts -> Int]
           /\ ledger'  \in [Refs -> Rows]
<1>1. RefundFunded(a, j, m) \in Int
  BY RefsTyped DEF CreditTypeOK, RefundFunded, Greater, Rows
<1> QED
  BY <1>1, RefsTyped, CreditTyped DEF RefundInSession

\* A draw takes nothing, or part of the remainder of a usable grant.
LEMMA TakesIs ==
    ASSUME grants \in [Accounts -> Grants], NEW a, NEW want \in Nat
    PROVE  \/ Takes(a, want).grant = NoGrant /\ Takes(a, want).amount = 0
           \/ /\ Takes(a, want).grant \in Usable(a)
              /\ Takes(a, want).amount \in 0..want
              /\ Takes(a, want).amount <= grants[Takes(a, want).grant].remaining
<1>1. CASE Usable(a) = {}
  BY <1>1 DEF Takes
<1>2. CASE Usable(a) # {}
  <2> DEFINE g == CHOOSE x \in Usable(a) : TRUE
  <2>1. g \in Usable(a)
    BY <1>2
  <2>2. Takes(a, want) = [grant |-> g, amount |-> Lesser(want, grants[g].remaining)]
    BY <1>2 DEF Takes
  <2> HIDE DEF g
  <2>3. grants[g] \in Grants /\ grants[g].remaining > 0
    BY <2>1 DEF Usable, Owned
  <2>4. grants[g].remaining \in Int
    BY <2>3 DEF Grants
  <2>5. Lesser(want, grants[g].remaining) \in 0..want /\ Lesser(want, grants[g].remaining) <= grants[g].remaining
    BY <2>3, <2>4 DEF Lesser
  <2> QED
    BY <2>1, <2>2, <2>5
<1> QED
  BY <1>1, <1>2

\* A promotional draw and its release keep the types of the promotional pocket.
LEMMA ConsumeTyped ==
    ASSUME PromoTypeOK, NEW j \in Jobs, NEW a \in Accounts, NEW want \in Nat, Consume(j, a, want)
    PROVE  PromoTypeOK' /\ Consumed(j, a, want) \in Int
<1>1. /\ Takes(a, want).grant \in Accounts \cup {NoGrant}
      /\ Takes(a, want).amount \in Int
  BY TakesIs DEF Usable, Owned, PromoTypeOK
<1>2. grants' \in [Accounts -> Grants]
  BY <1>1 DEF Consume, PromoTypeOK, Grants
<1>3. spends' \in [Jobs -> Spends]
  BY <1>1 DEF Consume, PromoTypeOK, Spends
<1>4. Consumed(j, a, want) \in Int
  BY <1>1 DEF Consumed, PromoTypeOK, Spends
<1> QED
  BY <1>2, <1>3, <1>4 DEF Consume, PromoTypeOK

LEMMA ReleaseTyped ==
    ASSUME PromoTypeOK, NEW j \in Jobs, NEW a, NEW keep \in Int, ReleaseSpend(j, a, keep)
    PROVE  PromoTypeOK'
<1>1. grants' \in [Accounts -> Grants]
  BY DEF ReleaseSpend, PromoTypeOK, Grants, Spends, Lesser
<1>2. spends' \in [Jobs -> Spends]
  BY DEF ReleaseSpend, PromoTypeOK, Spends, Lesser
<1> QED
  BY <1>1, <1>2 DEF ReleaseSpend, PromoTypeOK

\* The rows of holds older than the initial state are rows.
LEMMA OpeningTyped ==
    ASSUME NEW ref \in Refs
    PROVE  OpeningRow(ref) \in Rows
<1>1. NoRow \in Rows
  BY DEF NoRow, Row, Rows
<1>2. ASSUME ref[2] \in Legacy
      PROVE  Row(Owner[ref[2]], Cost[ref[2]], 0) \in Rows /\ Row(Owner[ref[2]], -Cost[ref[2]], 0) \in Rows
  <2>1. Owner[ref[2]] \in Accounts /\ Cost[ref[2]] \in Int /\ -Cost[ref[2]] \in Int
    BY <1>2
  <2> QED
    BY <2>1, RowTyped
<1> QED
  BY <1>1, <1>2 DEF OpeningRow

\* The initial state is well typed.
LEMMA InitTyped == Init => TypeOK
<1> SUFFICES ASSUME Init PROVE TypeOK
  OBVIOUS
<1>1. CreditTypeOK
  <2>1. balance = [a \in Accounts |-> 0] /\ funded = [a \in Accounts |-> 0]
    BY DEF Init
  <2>2. ledger = [ref \in Refs |-> OpeningRow(ref)] /\ canon = [a \in Accounts |-> a]
    BY DEF Init
  <2> QED
    BY <2>1, <2>2, OpeningTyped DEF CreditTypeOK
<1>2. PromoTypeOK
  <2>1. grants = [a \in Accounts |-> [status |-> "none", owner |-> a, amount |-> 0,
                                      remaining |-> 0, expired |-> FALSE]]
    BY DEF Init
  <2>2. grantedMicro = 0
    BY DEF Init
  <2>3. spends = [j \in Jobs |-> [status |-> "none", owner |-> Owner[j], grant |-> NoGrant,
                                  amount |-> 0, kept |-> 0]]
    BY DEF Init
  <2> QED
    BY <2>1, <2>2, <2>3 DEF PromoTypeOK, Grants, Spends
<1>3. ReservationTypeOK
  <2>1. req \in [Jobs -> Requests]
    <3>1. req = [j \in Jobs |-> [stage |-> IF j \in Legacy THEN "dispatched" ELSE "idle",
                                 account |-> Owner[j], draw |-> 0, tries |-> 0]]
      BY DEF Init
    <3> QED
      BY <3>1 DEF Requests, Stages
  <2>2. res \in [Jobs -> Holds]
    <3>1. res = [j \in Jobs |-> IF j \in Legacy
                                THEN [NoHold(j) EXCEPT !.status = "held", !.reserved = Cost[j]]
                                ELSE NoHold(j)]
      BY DEF Init
    <3>2. ASSUME NEW j \in Jobs PROVE res[j] \in Holds
      <4>1. NoHold(j) \in Holds /\ Cost[j] \in Nat
        BY DEF Holds, NoHold, Nothing
      <4>2. [NoHold(j) EXCEPT !.status = "held", !.reserved = Cost[j]] \in Holds
        BY <4>1 DEF Holds
      <4> QED
        BY <3>1, <4>1, <4>2
    <3> QED
      BY <3>1, <3>2
  <2>3. /\ paid = [j \in Jobs |-> j \in Legacy] /\ after = [j \in Jobs |-> Nothing]
        /\ sweep = [j \in Jobs |-> "idle"] /\ promoSweep = [j \in Jobs |-> Nothing]
        /\ aged = {} /\ crashes = 0
    BY DEF Init
  <2>4. paid \in [Jobs -> BOOLEAN]
    <3>1. \A j \in Jobs : (j \in Legacy) \in BOOLEAN
      OBVIOUS
    <3> QED
      BY <2>3, <3>1
  <2>5. /\ after \in [Jobs -> Int] /\ promoSweep \in [Jobs -> Int]
        /\ sweep \in [Jobs -> {"idle", "listed", "release", "settle"}]
        /\ aged \subseteq Jobs /\ crashes \in Nat
    BY <2>3 DEF Nothing
  <2> QED
    BY <2>1, <2>2, <2>4, <2>5 DEF ReservationTypeOK
<1> QED
  BY <1>1, <1>2, <1>3 DEF TypeOK
\* A pocket nothing touches stays well typed.
LEMMA PocketsKept ==
    /\ CreditTypeOK /\ UNCHANGED creditVars => CreditTypeOK'
    /\ PromoTypeOK /\ UNCHANGED promoVars => PromoTypeOK'
BY DEF CreditTypeOK, creditVars, PromoTypeOK, promoVars

\* What a request account resolves to is an account.
LEMMA AccountsTyped ==
    ASSUME TypeOK, NEW j \in Jobs
    PROVE  /\ req[j].account \in Accounts /\ canon[req[j].account] \in Accounts
           /\ res[j].account \in Accounts /\ canon[res[j].account] \in Accounts
           /\ Owner[j] \in Accounts /\ canon[Owner[j]] \in Accounts
BY DEF TypeOK, CreditTypeOK, ReservationTypeOK, Requests, Holds

\* A request moves to a stage with a draw in hand.
LEMMA RequestTyped ==
    ASSUME NEW r \in Requests, NEW stage \in Stages, NEW draw \in Int
    PROVE  [r EXCEPT !.stage = stage, !.draw = draw] \in Requests
BY DEF Requests

\* The steps of an admission keep the types.
LEMMA AdmissionTyped ==
    ASSUME TypeOK, NEW j \in Jobs,
           \/ Request(j) \/ RequestUncharged(j) \/ DrawPromo(j) \/ DrawFails(j)
           \/ Reserves(j) \/ HoldRefused(j) \/ UndoDraw(j) \/ RequestCrash(j)
    PROVE  TypeOK'
<1> USE DEF TypeOK
<1>1. CASE Request(j)
  <2>1. req' \in [Jobs -> Requests]
    BY <1>1, AccountsTyped DEF Request, ReservationTypeOK, Requests, Stages
  <2> QED
    BY <1>1, <2>1, PocketsKept DEF Request, ReservationTypeOK
<1>2. CASE RequestUncharged(j)
  <2>1. req' \in [Jobs -> Requests]
    BY <1>2 DEF RequestUncharged, ReservationTypeOK, Requests, Stages
  <2> QED
    BY <1>2, <2>1, PocketsKept DEF RequestUncharged, ReservationTypeOK
<1>3. CASE DrawPromo(j)
  <2>1. Cost[j] \in Nat
    OBVIOUS
  <2>2. PromoTypeOK' /\ Consumed(j, req[j].account, Cost[j]) \in Int
    BY <1>3, <2>1, AccountsTyped, ConsumeTyped DEF DrawPromo
  <2>3. req' \in [Jobs -> Requests]
    <3> DEFINE taken == Consumed(j, req[j].account, Cost[j])
    <3>1. req' = [req EXCEPT ![j].stage = "holding", ![j].draw = taken] /\ taken \in Int
      BY <1>3, <2>2 DEF DrawPromo
    <3> HIDE DEF taken
    <3>2. req' = [req EXCEPT ![j] = [@ EXCEPT !.stage = "holding", !.draw = taken]]
      BY <3>1 DEF ReservationTypeOK, Requests
    <3>3. [req[j] EXCEPT !.stage = "holding", !.draw = taken] \in Requests
      <4>1. req[j] \in Requests /\ "holding" \in Stages
        BY DEF ReservationTypeOK, Stages
      <4> QED
        BY <3>1, <4>1, RequestTyped
    <3> QED
      BY <3>2, <3>3 DEF ReservationTypeOK
  <2> QED
    BY <1>3, <2>2, <2>3, PocketsKept DEF DrawPromo, ReservationTypeOK
<1>4. CASE DrawFails(j)
  <2>1. req' \in [Jobs -> Requests]
    BY <1>4 DEF DrawFails, ReservationTypeOK, Requests, Stages
  <2> QED
    BY <1>4, <2>1, PocketsKept DEF DrawFails, ReservationTypeOK
<1>5. CASE Reserves(j)
  <2> PICK f \in FreeDraws : Hold(j, FromFree(j, f))
    BY <1>5 DEF Reserves
  <2> DEFINE free == FromFree(j, f)
             rest == Remainder(j, free)
  <2>1. Hold(j, free) /\ free \in Int /\ rest \in Int
    BY DEF FromFree, Lesser, Remainder, ReservationTypeOK, Requests
  <2> HIDE DEF free
  <2>2. CreditTypeOK'
    <3>1. CASE rest > 0
      <4>1. DebitInSession(req[j].account, rest, HoldRef(j))
        BY <2>1, <3>1 DEF Hold
      <4> QED
        BY <2>1, <4>1, AccountsTyped, RefsTyped, DebitTyped DEF Hold, CreditTypeOK
    <3>2. CASE ~(rest > 0)
      BY <2>1, <3>2 DEF Hold, CreditTypeOK
    <3> QED
      BY <3>1, <3>2
  <2>3. res' \in [Jobs -> Holds]
    BY <2>1, AccountsTyped DEF Hold, ReservationTypeOK, Requests, Holds, Nothing
  <2>4. req' \in [Jobs -> Requests]
    BY <2>1 DEF Hold, ReservationTypeOK, Requests, Stages
  <2> QED
    BY <2>1, <2>2, <2>3, <2>4, PocketsKept DEF Hold, ReservationTypeOK
<1>6. CASE HoldRefused(j)
  <2>1. req' \in [Jobs -> Requests]
    BY <1>6 DEF HoldRefused, ReservationTypeOK, Requests, Stages
  <2> QED
    BY <1>6, <2>1, PocketsKept DEF HoldRefused, ReservationTypeOK
<1>7. CASE UndoDraw(j)
  <2>1. PromoTypeOK'
    BY <1>7, ReleaseTyped DEF UndoDraw
  <2>2. req' \in [Jobs -> Requests]
    BY <1>7 DEF UndoDraw, Ended, ReservationTypeOK, Requests, Stages
  <2> QED
    BY <1>7, <2>1, <2>2, PocketsKept DEF UndoDraw, ReservationTypeOK
<1>8. CASE RequestCrash(j)
  <2>1. req' \in [Jobs -> Requests]
    BY <1>8 DEF RequestCrash, Ended, ReservationTypeOK, Requests, Stages
  <2> QED
    BY <1>8, <2>1, PocketsKept DEF RequestCrash, ReservationTypeOK
<1> QED
  BY <1>1, <1>2, <1>3, <1>4, <1>5, <1>6, <1>7, <1>8
\* Closing a reservation keeps its type, and so does moving its purchased part.
LEMMA CloseTyped ==
    ASSUME ReservationTypeOK, NEW j \in Jobs, NEW actual \in Int, Close(j, actual)
    PROVE  res' \in [Jobs -> Holds]
<1>1. res' = [res EXCEPT ![j] = [@ EXCEPT !.status = "settled", !.actual = actual]]
  BY DEF Close, ReservationTypeOK, Holds
<1>2. [res[j] EXCEPT !.status = "settled", !.actual = actual] \in Holds
  <2>1. res[j] \in Holds
    BY DEF ReservationTypeOK
  <2> QED
    BY <2>1 DEF Holds
<1> QED
  BY <1>1, <1>2 DEF ReservationTypeOK

LEMMA ReconcileTyped ==
    ASSUME TypeOK, NEW j \in Jobs, NEW actual \in Int, Reconcile(j, actual), canon' = canon
    PROVE  CreditTypeOK' /\ after' \in [Jobs -> Int]
<1> USE DEF TypeOK
<1> DEFINE a    == canon[res[j].account]
           diff == PaidHeld(j) - PaidSpent(j, actual)
<1>1. PromoSpent(j, actual) \in Int /\ diff \in Int /\ -diff \in Int
  BY DEF PromoSpent, FreeSpent, PaidSpent, PaidHeld, Lesser, ReservationTypeOK, Holds
<1>2. a \in Accounts
  BY AccountsTyped
<1>3. CASE diff > 0
  <2>1. RefundInSession(a, j, diff)
    BY <1>1, <1>3 DEF Reconcile
  <2> QED
    BY <2>1, <1>1, <1>2, RefundTyped DEF Reconcile, CreditTypeOK, ReservationTypeOK, Nothing
<1>4. CASE diff < 0
  <2>1. TryExtraDebit(a, j, -diff)
    BY <1>1, <1>4 DEF Reconcile
  <2>2. CASE DebitInSession(a, -diff, ExtraRef(j))
    BY <2>2, <1>1, <1>2, RefsTyped, DebitTyped DEF Reconcile, CreditTypeOK, ReservationTypeOK, Nothing
  <2>3. CASE UNCHANGED <<ledger, balance, funded>>
    BY <2>3, <1>1 DEF Reconcile, CreditTypeOK, ReservationTypeOK, Nothing
  <2> QED
    BY <2>1, <2>2, <2>3 DEF TryExtraDebit
<1>5. CASE ~(diff > 0) /\ ~(diff < 0)
  BY <1>1, <1>5 DEF Reconcile, CreditTypeOK, ReservationTypeOK, Nothing
<1> QED
  BY <1>3, <1>4, <1>5

LEMMA KeepExactTyped ==
    ASSUME TypeOK, NEW j \in Jobs, KeepExact(j), canon' = canon
    PROVE  CreditTypeOK' /\ after' \in [Jobs -> Int]
BY DEF TypeOK, KeepExact, CreditTypeOK, ReservationTypeOK, Holds, Nothing

LEMMA RefundStepTyped ==
    ASSUME TypeOK, NEW j \in Jobs, Refund(j),
           sweep' \in [Jobs -> {"idle", "listed", "release", "settle"}]
    PROVE  TypeOK'
<1> USE DEF TypeOK
<1>1. res' \in [Jobs -> Holds]
  <2>1. res[j].actual \in Int
    BY DEF ReservationTypeOK, Holds
  <2> QED
    BY <2>1, CloseTyped DEF Refund
<1>2. CreditTypeOK'
  <2>1. PaidHeld(j) \in Int
    BY DEF PaidHeld, ReservationTypeOK, Holds
  <2>2. CASE RefundInSession(canon[res[j].account], j, PaidHeld(j))
    BY <2>1, <2>2, AccountsTyped, RefundTyped DEF Refund, CreditTypeOK
  <2>3. CASE UNCHANGED <<ledger, balance, funded>>
    BY <2>3 DEF Refund, CreditTypeOK
  <2> QED
    BY <2>2, <2>3 DEF Refund
<1>3. after' \in [Jobs -> Int]
  BY DEF Refund, ReservationTypeOK, Nothing
<1> QED
  BY <1>1, <1>2, <1>3, PocketsKept DEF Refund, ReservationTypeOK

\* The steps that close a reservation keep the types.
LEMMA TerminalTyped ==
    ASSUME TypeOK, NEW j \in Jobs,
           \/ Completes(j) \/ CompleteUnreserved(j) \/ ReleaseJob(j)
           \/ RunAfter(j) \/ LoseAfter(j)
    PROVE  TypeOK'
<1> USE DEF TypeOK
<1>1. CASE Completes(j)
  <2> PICK actual \in Actuals \cup {Cost[j]} : CompleteAndSettle(j, actual)
    BY <1>1 DEF Completes
  <2>1. actual \in Int /\ Cost[j] \in Int
    OBVIOUS
  <2>2. res' \in [Jobs -> Holds]
    BY <2>1, CloseTyped DEF CompleteAndSettle
  <2>3. CreditTypeOK' /\ after' \in [Jobs -> Int]
    BY <2>1, ReconcileTyped, KeepExactTyped DEF CompleteAndSettle
  <2>4. paid' \in [Jobs -> BOOLEAN]
    BY DEF CompleteAndSettle, ReservationTypeOK
  <2> QED
    BY <2>2, <2>3, <2>4, PocketsKept DEF CompleteAndSettle, ReservationTypeOK
<1>2. CASE CompleteUnreserved(j)
  BY <1>2, PocketsKept DEF CompleteUnreserved, ReservationTypeOK
<1>3. CASE ReleaseJob(j)
  BY <1>3, RefundStepTyped DEF ReleaseJob, ReservationTypeOK
<1>4. CASE RunAfter(j)
  <2>1. PromoTypeOK'
    <3>1. after[j] \in Int
      BY DEF ReservationTypeOK
    <3> QED
      BY <1>4, <3>1, ReleaseTyped DEF RunAfter
  <2> QED
    BY <1>4, <2>1, PocketsKept DEF RunAfter, ReservationTypeOK, Nothing
<1>5. CASE LoseAfter(j)
  BY <1>5, PocketsKept DEF LoseAfter, ReservationTypeOK, Nothing
<1> QED
  BY <1>1, <1>2, <1>3, <1>4, <1>5

\* The steps of the two sweepers keep the types.
LEMMA SweepTyped ==
    ASSUME TypeOK, NEW j \in Jobs,
           \/ SweepList(j) \/ SweepLookup(j) \/ SweepRelease(j) \/ SweepSettles(j)
           \/ SpendAges(j) \/ PromoSweepRead(j) \/ PromoSweepAct(j)
    PROVE  TypeOK'
<1> USE DEF TypeOK
<1>1. CASE SweepList(j)
  BY <1>1, PocketsKept DEF SweepList, ReservationTypeOK
<1>2. CASE SweepLookup(j)
  BY <1>2, PocketsKept DEF SweepLookup, ReservationTypeOK
<1>3. CASE SweepRelease(j)
  <2>1. sweep' \in [Jobs -> {"idle", "listed", "release", "settle"}]
    BY <1>3 DEF SweepRelease, ReservationTypeOK
  <2>2. CASE Held(j)
    BY <1>3, <2>1, <2>2, RefundStepTyped DEF SweepRelease
  <2>3. CASE ~Held(j)
    BY <1>3, <2>1, <2>3, PocketsKept DEF SweepRelease, ReservationTypeOK
  <2> QED
    BY <2>2, <2>3
<1>4. CASE SweepSettles(j)
  <2> PICK actual \in Actuals \cup {Cost[j]} : SweepSettle(j, actual)
    BY <1>4 DEF SweepSettles
  <2>1. actual \in Int /\ Cost[j] \in Int /\ res[j].actual \in Int
    BY DEF ReservationTypeOK, Holds
  <2>2. res' \in [Jobs -> Holds]
    BY <2>1, CloseTyped DEF SweepSettle, ReservationTypeOK
  <2>3. CreditTypeOK' /\ after' \in [Jobs -> Int]
    BY <2>1, ReconcileTyped, KeepExactTyped, PocketsKept
    DEF SweepSettle, ReservationTypeOK, CreditTypeOK
  <2> QED
    BY <2>2, <2>3, PocketsKept DEF SweepSettle, ReservationTypeOK
<1>5. CASE SpendAges(j)
  BY <1>5, PocketsKept DEF SpendAges, ReservationTypeOK
<1>6. CASE PromoSweepRead(j)
  <2>1. spends[j].amount \in Int
    BY DEF PromoTypeOK, Spends
  <2> QED
    BY <1>6, <2>1, PocketsKept DEF PromoSweepRead, ReservationTypeOK
<1>7. CASE PromoSweepAct(j)
  <2>1. PromoTypeOK'
    <3>1. promoSweep[j] \in Int
      BY DEF ReservationTypeOK
    <3> QED
      BY <1>7, <3>1, ReleaseTyped DEF PromoSweepAct
  <2> QED
    BY <1>7, <2>1, PocketsKept DEF PromoSweepAct, ReservationTypeOK, Nothing
<1> QED
  BY <1>1, <1>2, <1>3, <1>4, <1>5, <1>6, <1>7
\* A grant that is issued or collapsed is still a grant.
LEMMA GrantField ==
    ASSUME NEW g \in Grants, NEW m \in Nat
    PROVE  /\ [g EXCEPT !.status = "active"] \in Grants
           /\ [g EXCEPT !.status = "merged"] \in Grants
           /\ [g EXCEPT !.amount = m] \in Grants
           /\ [g EXCEPT !.remaining = m] \in Grants
BY DEF Grants

LEMMA GrantRetyped ==
    ASSUME NEW g \in Grants
    PROVE  /\ [g EXCEPT !.status = "active", !.amount = GrantMicro, !.remaining = GrantMicro] \in Grants
           /\ [g EXCEPT !.status = "merged", !.remaining = 0] \in Grants
<1>1. [[[g EXCEPT !.status = "active"] EXCEPT !.amount = GrantMicro]
          EXCEPT !.remaining = GrantMicro] \in Grants
  BY GrantField
<1>2. [[g EXCEPT !.status = "merged"] EXCEPT !.remaining = 0] \in Grants
  BY GrantField
<1>3. [[[g EXCEPT !.status = "active"] EXCEPT !.amount = GrantMicro] EXCEPT !.remaining = GrantMicro]
        = [g EXCEPT !.status = "active", !.amount = GrantMicro, !.remaining = GrantMicro]
  OBVIOUS
<1>4. [[g EXCEPT !.status = "merged"] EXCEPT !.remaining = 0]
        = [g EXCEPT !.status = "merged", !.remaining = 0]
  OBVIOUS
<1> QED
  BY <1>1, <1>2, <1>3, <1>4

\* A merge keeps the types of both pockets.
LEMMA MergeTyped ==
    ASSUME TypeOK, NEW d \in Accounts, NEW s \in Accounts, MergeAccounts(d, s)
    PROVE  CreditTypeOK' /\ PromoTypeOK'
<1> USE DEF TypeOK
<1>1. MoveBalance(d, s) /\ MergeGrants(d, s)
  BY DEF MergeAccounts
<1>2. canon' \in [Accounts -> Accounts]
  BY <1>1 DEF MoveBalance, CreditTypeOK
<1>3. /\ balance' \in [Accounts -> Int] /\ funded' \in [Accounts -> Int]
      /\ ledger' \in [Refs -> Rows]
  <2>1. /\ Row(s, -balance[s], -funded[s]) \in Rows
        /\ Row(d, balance[s], funded[s]) \in Rows
    BY RowTyped DEF CreditTypeOK
  <2> QED
    BY <1>1, <2>1 DEF MoveBalance, CreditTypeOK
<1>4. ASSUME NEW g \in Accounts PROVE Collapsed(d, s, g) \in Grants
  <2>1. CASE Owned(d) # {} /\ g \in Owned(s)
    <3>1. Collapsed(d, s, g) = [grants[g] EXCEPT !.status = "merged", !.remaining = 0]
      BY <2>1 DEF Collapsed
    <3>2. grants[g] \in Grants
      BY DEF PromoTypeOK
    <3> QED
      BY <3>1, <3>2, GrantRetyped
  <2>2. CASE ~(Owned(d) # {} /\ g \in Owned(s)) /\ Owned(s) # {} /\ g \in Owned(d)
    <3> DEFINE src == CHOOSE x \in Owned(s) : TRUE
    <3>1. src \in Accounts
      BY <2>2 DEF Owned
    <3>2. Collapsed(d, s, g) =
            [grants[g] EXCEPT !.amount    = Greater(@, grants[src].amount),
                              !.remaining = Greater(@, grants[src].remaining)]
      BY <2>2 DEF Collapsed
    <3> HIDE DEF src
    <3>3. grants[g] \in Grants /\ grants[src] \in Grants
      BY <3>1 DEF PromoTypeOK
    <3> QED
      BY <3>2, <3>3 DEF Grants, Greater
  <2>3. CASE ~(Owned(d) # {} /\ g \in Owned(s)) /\ ~(Owned(s) # {} /\ g \in Owned(d))
    BY <2>3 DEF Collapsed, PromoTypeOK, Grants
  <2> QED
    BY <2>1, <2>2, <2>3
<1>5. PromoTypeOK'
  BY <1>1, <1>4 DEF MergeGrants, PromoTypeOK
<1> QED
  BY <1>2, <1>3, <1>5 DEF CreditTypeOK

\* The steps of accounts keep the types.
LEMMA AccountTyped == TypeOK /\ AccountStep => TypeOK'
<1> SUFFICES ASSUME TypeOK, AccountStep PROVE TypeOK'
  OBVIOUS
<1> USE DEF TypeOK
<1>1. ReservationTypeOK'
  BY DEF AccountStep, Fund, Grant, Expire, MergeAccounts, flowVars, ReservationTypeOK
<1>2. ASSUME NEW t \in TopUps, NEW a \in Accounts, NEW amount \in Amounts,
             NEW isFunded \in BOOLEAN, Fund(t, a, amount, isFunded)
      PROVE  CreditTypeOK' /\ PromoTypeOK'
  <2> DEFINE part == IF isFunded THEN amount ELSE 0
  <2>1. CreditInSession(canon[a], amount, part, TopUpRef(t)) /\ canon' = canon
    BY <1>2 DEF Fund, TopUp
  <2>2. canon[a] \in Accounts /\ amount \in Int /\ part \in Int
    BY DEF CreditTypeOK
  <2> HIDE DEF part
  <2>3. CreditTypeOK'
    BY <2>1, <2>2, RefsTyped, CreditTyped DEF CreditTypeOK
  <2> QED
    BY <1>2, <2>3, PocketsKept DEF Fund
<1>3. ASSUME NEW a \in Accounts, Grant(a)
      PROVE  CreditTypeOK' /\ PromoTypeOK'
  <2>1. [grants[a] EXCEPT !.status = "active", !.amount = GrantMicro, !.remaining = GrantMicro]
            \in Grants
    <3>1. grants[a] \in Grants
      BY DEF PromoTypeOK
    <3> QED
      BY <3>1, GrantRetyped
  <2> QED
    BY <1>3, <2>1, PocketsKept DEF Grant, GrantOnce, PromoTypeOK
<1>4. ASSUME NEW g \in Accounts, Expire(g)
      PROVE  CreditTypeOK' /\ PromoTypeOK'
  BY <1>4, PocketsKept DEF Expire, GrantExpires, PromoTypeOK, Grants
<1> QED
  BY <1>1, <1>2, <1>3, <1>4, MergeTyped DEF AccountStep

LEMMA NextTyped == TypeOK /\ [Next]_vars => TypeOK'
<1> SUFFICES ASSUME TypeOK, [Next]_vars PROVE TypeOK'
  OBVIOUS
<1>1. CASE AccountStep
  BY <1>1, AccountTyped
<1>2. ASSUME NEW j \in Jobs, JobStep(j) PROVE TypeOK'
  BY <1>2, AdmissionTyped, TerminalTyped, SweepTyped DEF JobStep
<1>3. CASE UNCHANGED vars
  BY <1>3, PocketsKept DEF vars, flowVars, TypeOK, ReservationTypeOK
<1> QED
  BY <1>1, <1>2, <1>3 DEF Next

(***************************************************************************)
(* Type correctness: every table row, request step and pending decision    *)
(* stays in its type for any accounts, jobs, prices and amounts.           *)
(***************************************************************************)
THEOREM TypeCorrect == Spec => []TypeOK
BY InitTyped, NextTyped, PTL DEF Spec

-----------------------------------------------------------------------------
SameRows(i) ==
    /\ ledger'[HoldRef(i)] = ledger[HoldRef(i)]
    /\ ledger'[RefundRef(i)] = ledger[RefundRef(i)]
    /\ ledger'[ExtraRef(i)] = ledger[ExtraRef(i)]

Untouched(i) == res'[i] = res[i] /\ paid'[i] = paid[i] /\ SameRows(i)

\* Rows of different jobs, kinds and events never share a ref.
LEMMA RefsDistinct ==
    ASSUME NEW i \in Jobs, NEW j \in Jobs
    PROVE  /\ HoldRef(i) # RefundRef(j) /\ HoldRef(i) # ExtraRef(j) /\ RefundRef(i) # ExtraRef(j)
           /\ i # j => /\ HoldRef(i) # HoldRef(j)
                       /\ RefundRef(i) # RefundRef(j)
                       /\ ExtraRef(i) # ExtraRef(j)
           /\ \A t : TopUpRef(t) \notin {HoldRef(j), RefundRef(j), ExtraRef(j)}
           /\ \A a : MergeOutRef(a) \notin {HoldRef(j), RefundRef(j), ExtraRef(j)}
           /\ \A a : MergeInRef(a) \notin {HoldRef(j), RefundRef(j), ExtraRef(j)}
BY DEF HoldRef, RefundRef, ExtraRef, TopUpRef, MergeOutRef, MergeInRef

\* What is said of a job depends on its reservation, its worker row and its rows.
LEMMA RowsFrame ==
    ASSUME NEW i \in Jobs, RowsInv(i), Charged(i), Untouched(i)
    PROVE  RowsInv(i)' /\ Charged(i)'
BY DEF RowsInv, Charged, Untouched, SameRows, IsHoldRow, IsRefundOf, PaidHeld, Held, Net

\* A row of job j says nothing of the others.
LEMMA OthersUntouched ==
    ASSUME TypeOK, NEW i \in Jobs, NEW j \in Jobs, i # j, NEW row,
           NEW ref \in {HoldRef(j), RefundRef(j), ExtraRef(j)},
           ledger' = [ledger EXCEPT ![ref] = row]
    PROVE  SameRows(i)
BY RefsTyped, RefsDistinct DEF SameRows, TypeOK, CreditTypeOK

-----------------------------------------------------------------------------
\* A credit with a funded part no larger than itself keeps the funded subset,
\* and the accounts it does not name keep their balance.
LEMMA CreditSubset ==
    ASSUME TypeOK, FundedSubset, NEW a \in Accounts, NEW m \in Nat, NEW f \in 0..m, NEW ref \in Refs,
           CreditInSession(a, m, f, ref)
    PROVE  /\ FundedSubset'
           /\ \A b \in Accounts : b # a => balance'[b] = balance[b]
BY DEF TypeOK, CreditTypeOK, FundedSubset, CreditInSession

\* So does a debit the balance covers: funded value is spent first.
LEMMA DebitSubset ==
    ASSUME TypeOK, FundedSubset, NEW a \in Accounts, NEW m \in Nat, NEW ref \in Refs,
           DebitInSession(a, m, ref)
    PROVE  /\ FundedSubset'
           /\ \A b \in Accounts : b # a => balance'[b] = balance[b]
           /\ balance[a] >= m
           /\ FundedUsed(a, m) \in 0..m
<1>1. balance[a] \in Int /\ funded[a] \in Int /\ 0 <= funded[a] /\ funded[a] <= balance[a]
  BY DEF TypeOK, CreditTypeOK, FundedSubset
<1>2. FundedUsed(a, m) \in 0..m /\ funded[a] - FundedUsed(a, m) <= balance[a] - m
      /\ 0 <= funded[a] - FundedUsed(a, m)
  BY <1>1 DEF FundedUsed, Lesser, DebitInSession
<1>3. balance' = [balance EXCEPT ![a] = @ - m] /\ balance[a] >= m
  BY DEF DebitInSession
<1>4. funded' = [funded EXCEPT ![a] = @ - FundedUsed(a, m)]
  BY DEF DebitInSession
<1> HIDE DEF FundedUsed
<1> QED
  BY <1>1, <1>2, <1>3, <1>4 DEF TypeOK, CreditTypeOK, FundedSubset
\* Accounts stay as the invariant wants them when a root's balance moves.
LEMMA AccountsFrame ==
    ASSUME AccountsInv, canon' = canon, NEW a \in Accounts, canon[a] = a,
           \A b \in Accounts : b # a => balance'[b] = balance[b],
           \A i \in Jobs : Held(i)' /\ PaidHeld(i)' > 0 => ~Retired(res'[i].account)
    PROVE  AccountsInv'
BY DEF AccountsInv, Retired

\* Nothing to show for a step that leaves the money of every job alone.
LEMMA MoneyKept ==
    ASSUME IInv, TypeOK', UNCHANGED <<balance, funded, ledger, canon, res, paid>>,
           \A i \in Jobs : RequestInv(i)' /\ SweepInv(i)'
    PROVE  IInv'
<1>1. FundedSubset'
  BY DEF IInv, FundedSubset
<1>2. AccountsInv'
  BY DEF IInv, AccountsInv, Retired, Held, PaidHeld
<1>3. ASSUME NEW i \in Jobs PROVE RowsInv(i)' /\ Charged(i)'
  BY RowsFrame DEF IInv, Untouched, SameRows
<1> QED
  BY <1>1, <1>2, <1>3 DEF IInv

-----------------------------------------------------------------------------
\* A spend takes between nothing and the price, and a release does not change
\* what it took.
LEMMA ConsumeBounded ==
    ASSUME TypeOK, NEW j \in Jobs, NEW a \in Accounts, Consume(j, a, Cost[j]),
           \A i \in Jobs : spends[i].amount \in 0..Cost[i]
    PROVE  /\ \A i \in Jobs : spends'[i].amount \in 0..Cost[i]
           /\ Consumed(j, a, Cost[j]) \in 0..Cost[j]
<1>1. Cost[j] \in Nat
  OBVIOUS
<1>2. Takes(a, Cost[j]).amount \in 0..Cost[j]
  BY <1>1, TakesIs DEF TypeOK, PromoTypeOK
<1>3. Consumed(j, a, Cost[j]) \in 0..Cost[j]
  BY <1>2 DEF Consumed
<1>4. \A i \in Jobs : spends'[i].amount \in 0..Cost[i]
  BY <1>2 DEF Consume, TypeOK, PromoTypeOK, Spends
<1> QED
  BY <1>3, <1>4

LEMMA ReleaseKeepsAmounts ==
    ASSUME TypeOK, NEW j \in Jobs, NEW a, NEW keep, ReleaseSpend(j, a, keep)
    PROVE  \A i \in Jobs : spends'[i].amount = spends[i].amount
BY DEF ReleaseSpend, TypeOK, PromoTypeOK, Spends

\* The steps of an admission before its transaction keep the invariant.
LEMMA AdmissionSafe ==
    ASSUME IInv, NEW j \in Jobs,
           \/ Request(j) \/ RequestUncharged(j) \/ DrawPromo(j) \/ DrawFails(j)
           \/ HoldRefused(j) \/ UndoDraw(j) \/ RequestCrash(j)
    PROVE  IInv'
<1>0. TypeOK /\ TypeOK'
  BY AdmissionTyped DEF IInv
<1>a. UNCHANGED <<balance, funded, ledger, canon, res, paid, sweep>>
  BY DEF Request, RequestUncharged, DrawPromo, DrawFails, HoldRefused, UndoDraw, RequestCrash, creditVars
<1>b. \A i \in Jobs : SweepInv(i)'
  BY <1>a DEF IInv, SweepInv, Held
<1>c. \A i \in Jobs : RequestInv(i)
  BY DEF IInv
<1> SUFFICES ASSUME NEW i \in Jobs PROVE RequestInv(i)'
  BY <1>0, <1>a, <1>b, MoneyKept
<1>d. req \in [Jobs -> Requests]
  BY <1>0 DEF TypeOK, ReservationTypeOK
<1>1. CASE Request(j)
  BY <1>1, <1>a, <1>c, <1>d DEF Request, RequestInv, promoVars
<1>2. CASE RequestUncharged(j)
  BY <1>2, <1>a, <1>c, <1>d DEF RequestUncharged, RequestInv, promoVars, Requests
<1>3. CASE DrawPromo(j)
  <2>1. /\ \A k \in Jobs : spends'[k].amount \in 0..Cost[k]
        /\ Consumed(j, req[j].account, Cost[j]) \in 0..Cost[j]
    BY <1>0, <1>3, <1>c, AccountsTyped, ConsumeBounded DEF DrawPromo, RequestInv
  <2> QED
    BY <1>3, <2>1, <1>a, <1>c, <1>d DEF DrawPromo, RequestInv, Requests
<1>4. CASE DrawFails(j)
  BY <1>4, <1>a, <1>c, <1>d DEF DrawFails, RequestInv, promoVars, Requests
<1>5. CASE HoldRefused(j)
  BY <1>5, <1>a, <1>c, <1>d DEF HoldRefused, RequestInv, promoVars, Requests
<1>6. CASE UndoDraw(j)
  <2>1. \A k \in Jobs : spends'[k].amount = spends[k].amount
    BY <1>0, <1>6, ReleaseKeepsAmounts DEF UndoDraw
  <2> QED
    BY <1>6, <2>1, <1>a, <1>c, <1>d DEF UndoDraw, Ended, RequestInv, Requests
<1>7. CASE RequestCrash(j)
  BY <1>7, <1>a, <1>c, <1>d DEF RequestCrash, InFlight, Ended, RequestInv, promoVars, Requests
<1> QED
  BY <1>1, <1>2, <1>3, <1>4, <1>5, <1>6, <1>7
-----------------------------------------------------------------------------
\* At most the balance of root account a moves, and stays well funded.
RootMoves(a) ==
    /\ canon' = canon /\ canon[a] = a
    /\ \A b \in Accounts : b # a => balance'[b] = balance[b]
    /\ FundedSubset'

\* A step that moves the rows of one job keeps the invariant if it keeps what
\* the invariant says of that job and leaves the others alone.
LEMMA OneJobMoves ==
    ASSUME IInv, TypeOK', NEW j \in Jobs, NEW a \in Accounts, RootMoves(a),
           \A i \in Jobs : i # j => Untouched(i),
           \A i \in Jobs : RequestInv(i)' /\ SweepInv(i)',
           RowsInv(j)', Charged(j)',
           Held(j)' /\ PaidHeld(j)' > 0 => ~Retired(res'[j].account)
    PROVE  IInv'
<1>1. \A i \in Jobs : RowsInv(i)' /\ Charged(i)'
  BY RowsFrame DEF IInv
<1>2. \A i \in Jobs : Held(i)' /\ PaidHeld(i)' > 0 => ~Retired(res'[i].account)
  BY DEF IInv, AccountsInv, Untouched, Held, PaidHeld
<1>3. AccountsInv'
  BY <1>2, AccountsFrame DEF IInv, RootMoves
<1> QED
  BY <1>1, <1>3 DEF IInv, RootMoves

\* The hold: the debit and the reservation row agree.
LEMMA ReservesSafe ==
    ASSUME IInv, NEW j \in Jobs, Reserves(j)
    PROVE  IInv'
<1> PICK f \in FreeDraws : Hold(j, FromFree(j, f))
  BY DEF Reserves
<1> DEFINE a    == req[j].account
           free == FromFree(j, f)
           rest == Remainder(j, free)
           hold == Row(a, -rest, -FundedUsed(a, rest))
<1>0. TypeOK /\ TypeOK'
  BY AdmissionTyped DEF IInv
<1>1. /\ req \in [Jobs -> Requests] /\ res \in [Jobs -> Holds] /\ ledger \in [Refs -> Rows]
      /\ a \in Accounts /\ Cost[j] \in Nat /\ Cost[j] > 0
  BY <1>0, AccountsTyped DEF TypeOK, ReservationTypeOK, CreditTypeOK
<1>2. req[j].draw \in 0..Cost[j] /\ res[j].status = "none" /\ ~paid[j]
  BY DEF IInv, RequestInv, Hold
<1>3. free \in 0..(Cost[j] - req[j].draw) /\ rest \in Nat /\ rest = Cost[j] - free - req[j].draw
  BY <1>1, <1>2 DEF FromFree, Lesser, Remainder
<1>4. /\ ledger[HoldRef(j)] = NoRow /\ ledger[RefundRef(j)] = NoRow /\ ledger[ExtraRef(j)] = NoRow
  BY <1>2 DEF IInv, RowsInv, IsHoldRow
<1> HIDE DEF free, rest
<1>5. /\ res' = [res EXCEPT ![j] = [status |-> "held", account |-> a, reserved |-> Cost[j],
                                   promo |-> req[j].draw, free |-> free, actual |-> Nothing]]
      /\ req' = [req EXCEPT ![j].stage = "dispatched"]
      /\ UNCHANGED <<canon, spends, paid, sweep>>
      /\ IF rest > 0 THEN DebitInSession(a, rest, HoldRef(j))
                     ELSE UNCHANGED <<balance, funded, ledger>>
  BY DEF Hold, free, rest, promoVars
<1>6. PaidHeld(j)' = rest /\ res'[j].status = "held" /\ res'[j].account = a
  BY <1>1, <1>3, <1>5 DEF PaidHeld
<1>7. \A i \in Jobs : RequestInv(i)' /\ SweepInv(i)'
  BY <1>1, <1>2, <1>5 DEF IInv, RequestInv, SweepInv, Held, Requests
<1>8. Charged(j)'
  BY <1>6 DEF Charged
<1>9. CASE rest > 0
  <2>1. DebitInSession(a, rest, HoldRef(j))
    BY <1>5, <1>9
  <2>2. /\ FundedSubset' /\ balance[a] >= rest /\ FundedUsed(a, rest) \in 0..rest
        /\ \A b \in Accounts : b # a => balance'[b] = balance[b]
    BY <1>0, <1>1, <1>3, <2>1, RefsTyped, DebitSubset DEF IInv
  <2>3. ~Retired(a)
    BY <1>0, <1>1, <1>3, <1>9, <2>2 DEF IInv, AccountsInv, TypeOK, CreditTypeOK
  <2>4. RootMoves(a)
    BY <1>5, <2>2, <2>3 DEF RootMoves, Retired
  <2>5. ledger' = [ledger EXCEPT ![HoldRef(j)] = hold]
    BY <2>1 DEF DebitInSession
  <2>6. /\ ledger'[HoldRef(j)] = hold
        /\ ledger'[RefundRef(j)] = NoRow /\ ledger'[ExtraRef(j)] = NoRow
    BY <1>1, <1>4, <2>5, RefsTyped, RefsDistinct
  <2>7. \A i \in Jobs : i # j => Untouched(i)
    BY <1>0, <1>1, <1>5, <2>5, OthersUntouched DEF Untouched
  <2>8. RowsInv(j)'
    BY <1>1, <1>2, <1>3, <1>5, <1>6, <1>9, <2>2, <2>6
    DEF RowsInv, IsHoldRow, Row, NoRow, Held
  <2> QED
    BY <1>0, <1>1, <1>6, <1>7, <1>8, <2>3, <2>4, <2>7, <2>8, <1>5, OneJobMoves DEF Retired
<1>10. CASE ~(rest > 0)
  <2>1. UNCHANGED <<balance, funded, ledger, canon>>
    BY <1>5, <1>10
  <2>2. rest = 0
    BY <1>3, <1>10
  <2>3. RootMoves(canon[a]) /\ canon[a] \in Accounts
    BY <1>0, <1>1, <2>1 DEF IInv, AccountsInv, RootMoves, FundedSubset, TypeOK, CreditTypeOK
  <2>4. \A i \in Jobs : i # j => Untouched(i)
    BY <1>1, <1>5, <2>1 DEF Untouched, SameRows
  <2>5. RowsInv(j)'
    BY <1>1, <1>2, <1>3, <1>4, <1>5, <1>6, <2>1, <2>2
    DEF RowsInv, IsHoldRow, NoRow, Row
  <2> QED
    BY <1>0, <1>6, <1>7, <1>8, <2>2, <2>3, <2>4, <2>5, OneJobMoves
<1> QED
  BY <1>9, <1>10
-----------------------------------------------------------------------------
\* What is known of an open hold before it is closed.
LEMMA HeldFacts ==
    ASSUME IInv, NEW j \in Jobs, Held(j)
    PROVE  /\ ledger[RefundRef(j)] = NoRow /\ ledger[ExtraRef(j)] = NoRow
           /\ IsHoldRow(j, ledger[HoldRef(j)])
           /\ res[j].actual = Nothing /\ res[j].reserved \in Nat
           /\ res[j].promo \in Nat /\ res[j].free \in Nat /\ PaidHeld(j) \in Nat
           /\ req[j].stage = "dispatched"
           /\ res \in [Jobs -> Holds] /\ paid \in [Jobs -> BOOLEAN] /\ ledger \in [Refs -> Rows]
           /\ res[j].account \in Accounts /\ canon[res[j].account] \in Accounts
BY AccountsTyped
DEF IInv, RowsInv, RequestInv, Held, TypeOK, ReservationTypeOK, CreditTypeOK, Holds, PaidHeld

\* A refund goes to the account of the hold, and returns the funded value
\* that what stays spent did not consume.
LEMMA RefundMoves ==
    ASSUME IInv, NEW j \in Jobs, Held(j), NEW m \in 1..PaidHeld(j), canon' = canon,
           RefundInSession(canon[res[j].account], j, m)
    PROVE  /\ RootMoves(res[j].account)
           /\ \A i \in Jobs : i # j => SameRows(i)
           /\ ledger'[HoldRef(j)] = ledger[HoldRef(j)] /\ ledger'[ExtraRef(j)] = NoRow
           /\ ledger'[RefundRef(j)].delta = m
           /\ IsRefundOf(ledger[HoldRef(j)], ledger'[RefundRef(j)])
<1> DEFINE a    == res[j].account
           hold == ledger[HoldRef(j)]
           part == Greater(0, (-hold.funded) - ((-hold.delta) - m))
<1>1. PaidHeld(j) \in Nat /\ PaidHeld(j) > 0 /\ a \in Accounts /\ ledger \in [Refs -> Rows]
  BY HeldFacts
<1>2. canon[a] = a
  BY <1>1 DEF IInv, AccountsInv, Retired
<1>3. hold.account = a /\ hold.delta = -PaidHeld(j) /\ hold.funded \in -PaidHeld(j)..0
  BY <1>1, HeldFacts DEF IsHoldRow
<1>4. RefundFunded(a, j, m) = part
  BY <1>1, <1>3 DEF RefundFunded
<1>5. part \in 0..m /\ m \in Nat
  BY <1>1, <1>3 DEF Greater
<1>6. CreditInSession(a, m, part, RefundRef(j))
  BY <1>2, <1>4 DEF RefundInSession
<1> HIDE DEF part
<1>7. /\ FundedSubset'
      /\ \A b \in Accounts : b # a => balance'[b] = balance[b]
  BY <1>1, <1>5, <1>6, RefsTyped, CreditSubset DEF IInv
<1>8. RootMoves(a)
  BY <1>2, <1>7 DEF RootMoves
<1>9. ledger' = [ledger EXCEPT ![RefundRef(j)] = Row(a, m, part)]
  BY <1>6 DEF CreditInSession
<1>10. \A i \in Jobs : i # j => SameRows(i)
  BY <1>9, OthersUntouched DEF IInv
<1>11. /\ ledger'[HoldRef(j)] = hold /\ ledger'[ExtraRef(j)] = NoRow
       /\ ledger'[RefundRef(j)] = Row(a, m, part)
  BY <1>1, <1>9, HeldFacts, RefsTyped, RefsDistinct
<1>12. Row(a, m, part).delta = m /\ Row(a, m, part).account = a /\ Row(a, m, part).funded = part
  BY DEF Row
<1>13. IsRefundOf(hold, Row(a, m, part))
  BY <1>1, <1>3, <1>12 DEF IsRefundOf, part
<1> QED
  BY <1>8, <1>10, <1>11, <1>12, <1>13

\* The rows of a job after its purchased part was reconciled with a charge.
Reconciled(j, actual) ==
    LET hold   == ledger[HoldRef(j)]
        refund == ledger'[RefundRef(j)]
        extra  == ledger'[ExtraRef(j)]
        spent  == -(hold.delta + refund.delta + extra.delta)
    IN  /\ ledger'[HoldRef(j)] = hold
        /\ refund # NoRow => IsRefundOf(hold, refund)
        /\ refund = NoRow \/ extra = NoRow
        /\ extra.delta <= 0
        /\ \/ spent = actual - Lesser(res[j].promo + res[j].free, actual)
           \/ actual > res[j].reserved /\ spent = PaidHeld(j)

\* The arithmetic of the three pockets.
LEMMA PaidSpentIs ==
    ASSUME TypeOK, NEW j \in Jobs, NEW actual \in Nat,
           res[j].promo \in Nat, res[j].free \in Nat, PaidHeld(j) \in Nat
    PROVE  /\ PaidSpent(j, actual) = actual - Lesser(res[j].promo + res[j].free, actual)
           /\ PaidSpent(j, actual) \in Nat
           /\ PaidSpent(j, actual) > PaidHeld(j) => actual > res[j].reserved
BY DEF PaidSpent, FreeSpent, PromoSpent, PaidHeld, Lesser, TypeOK, ReservationTypeOK, Holds
\* Settling against the counted cost moves one root account and the rows of one job.
LEMMA ReconcileMoves ==
    ASSUME IInv, NEW j \in Jobs, Held(j), NEW actual \in Nat, canon' = canon, Reconcile(j, actual)
    PROVE  /\ \E a \in Accounts : RootMoves(a)
           /\ \A i \in Jobs : i # j => SameRows(i)
           /\ Reconciled(j, actual)
<1> DEFINE a    == canon[res[j].account]
           cost == PaidSpent(j, actual)
           diff == PaidHeld(j) - cost
<1>0. TypeOK
  BY DEF IInv
<1>1. /\ PaidHeld(j) \in Nat /\ a \in Accounts /\ ledger \in [Refs -> Rows]
      /\ ledger[RefundRef(j)] = NoRow /\ ledger[ExtraRef(j)] = NoRow
      /\ res[j].reserved \in Nat
  BY HeldFacts
<1>2. /\ cost = actual - Lesser(res[j].promo + res[j].free, actual)
      /\ cost \in Nat
      /\ cost > PaidHeld(j) => actual > res[j].reserved
  BY <1>0, HeldFacts, PaidSpentIs
<1> DEFINE held == PaidHeld(j)
<1> HIDE DEF cost, held
<1>a. held \in Nat /\ cost \in Nat /\ held - cost \in Int
  BY <1>1, <1>2 DEF held
<1>b. /\ held - cost > 0 => RefundInSession(a, j, held - cost)
      /\ held - cost < 0 => TryExtraDebit(a, j, -(held - cost))
      /\ ~(held - cost > 0) /\ ~(held - cost < 0) => UNCHANGED <<ledger, balance, funded>>
  BY <1>a DEF Reconcile, cost, held
<1> USE DEF held
<1>3. ledger[HoldRef(j)].delta = -PaidHeld(j)
  BY <1>1, HeldFacts DEF IsHoldRow, NoRow, Row
<1>4. canon[a] = a
  BY <1>1, HeldFacts DEF IInv, AccountsInv
<1>5. NoRow.delta = 0
  BY DEF NoRow, Row
<1>6. CASE diff > 0
  <2>1. RefundInSession(a, j, diff)
    BY <1>6, <1>b
  <2>2. diff \in 1..PaidHeld(j)
    BY <1>a, <1>6
  <2>3. /\ RootMoves(res[j].account) /\ res[j].account \in Accounts
        /\ \A i \in Jobs : i # j => SameRows(i)
        /\ ledger'[HoldRef(j)] = ledger[HoldRef(j)] /\ ledger'[ExtraRef(j)] = NoRow
        /\ ledger'[RefundRef(j)].delta = diff
        /\ IsRefundOf(ledger[HoldRef(j)], ledger'[RefundRef(j)])
    BY <2>1, <2>2, RefundMoves, HeldFacts
  <2>4. -(ledger[HoldRef(j)].delta + ledger'[RefundRef(j)].delta + ledger'[ExtraRef(j)].delta) = cost
    BY <1>1, <1>2, <1>3, <1>5, <2>3
  <2>5. Reconciled(j, actual)
    BY <1>2, <1>5, <2>3, <2>4 DEF Reconciled
  <2> QED
    BY <2>3, <2>5
<1>7. CASE diff < 0 /\ DebitInSession(a, -diff, ExtraRef(j))
  <2>1. -diff \in Nat
    BY <1>a, <1>7
  <2>2. /\ FundedSubset'
        /\ \A b \in Accounts : b # a => balance'[b] = balance[b]
    BY <1>0, <1>1, <1>7, <2>1, RefsTyped, DebitSubset DEF IInv
  <2>3. ledger' = [ledger EXCEPT ![ExtraRef(j)] = Row(a, -(-diff), -FundedUsed(a, -diff))]
    BY <1>7 DEF DebitInSession
  <2>4. \A i \in Jobs : i # j => SameRows(i)
    BY <1>0, <2>3, OthersUntouched
  <2>5. /\ ledger'[HoldRef(j)] = ledger[HoldRef(j)] /\ ledger'[RefundRef(j)] = NoRow
        /\ ledger'[ExtraRef(j)].delta = -(-diff)
    BY <1>1, <2>3, RefsTyped, RefsDistinct DEF Row
  <2>6. -(ledger[HoldRef(j)].delta + ledger'[RefundRef(j)].delta + ledger'[ExtraRef(j)].delta) = cost
    BY <1>1, <1>2, <1>3, <1>5, <2>5
  <2>7. ledger'[ExtraRef(j)].delta <= 0
    BY <1>1, <1>2, <1>7, <2>5
  <2>8. Reconciled(j, actual)
    BY <1>2, <2>5, <2>6, <2>7 DEF Reconciled
  <2> QED
    BY <1>1, <1>4, <2>2, <2>4, <2>8 DEF RootMoves
<1>8. CASE ~(diff > 0) /\ UNCHANGED <<ledger, balance, funded>>
  <2>1. RootMoves(a)
    BY <1>4, <1>8 DEF RootMoves, IInv, FundedSubset
  <2>2. \A i \in Jobs : i # j => SameRows(i)
    BY <1>8 DEF SameRows
  <2>3. -(ledger[HoldRef(j)].delta + ledger'[RefundRef(j)].delta + ledger'[ExtraRef(j)].delta)
            = PaidHeld(j)
    BY <1>1, <1>3, <1>5, <1>8
  <2>4. cost = PaidHeld(j) \/ actual > res[j].reserved
    BY <1>1, <1>2, <1>8
  <2>5. Reconciled(j, actual)
    BY <1>1, <1>2, <1>5, <1>8, <2>3, <2>4 DEF Reconciled
  <2> QED
    BY <1>1, <2>1, <2>2, <2>5
<1> QED
  BY <1>b, <1>6, <1>7, <1>8 DEF TryExtraDebit
-----------------------------------------------------------------------------
\* Closing an open hold keeps the invariant when the worker is paid and the
\* charge reconciled, or the worker is not paid and the hold returned.
LEMMA CloseSafe ==
    ASSUME IInv, TypeOK', NEW j \in Jobs, Held(j), NEW act \in Int, Close(j, act),
           \E a \in Accounts : RootMoves(a),
           \A i \in Jobs : i # j => SameRows(i) /\ paid'[i] = paid[i],
           req' = req, spends' = spends, \A i \in Jobs : SweepInv(i)',
           ledger'[HoldRef(j)] = ledger[HoldRef(j)],
           ledger'[RefundRef(j)] # NoRow => IsRefundOf(ledger[HoldRef(j)], ledger'[RefundRef(j)]),
           ledger'[RefundRef(j)] = NoRow \/ ledger'[ExtraRef(j)] = NoRow,
           ledger'[ExtraRef(j)].delta <= 0,
           \/ paid'[j] /\ (act # Nothing => Reconciled(j, act))
           \/ ~paid'[j] /\ ledger'[RefundRef(j)].delta = PaidHeld(j) /\ ledger'[ExtraRef(j)] = NoRow
    PROVE  IInv'
<1>1. /\ res[j].promo \in Nat /\ res[j].free \in Nat /\ PaidHeld(j) \in Nat
      /\ res \in [Jobs -> Holds] /\ IsHoldRow(j, ledger[HoldRef(j)])
      /\ req[j].stage = "dispatched"
  BY HeldFacts
<1>2. /\ \A i \in Jobs : i # j => res'[i] = res[i]
      /\ res'[j].status = "settled" /\ res'[j].actual = act /\ res'[j].account = res[j].account
      /\ res'[j].reserved = res[j].reserved /\ res'[j].promo = res[j].promo
      /\ res'[j].free = res[j].free
  BY <1>1 DEF Close, Holds
<1>3. \A i \in Jobs : i # j => Untouched(i)
  BY <1>2 DEF Untouched
<1>4. PaidHeld(j)' = PaidHeld(j)
  BY <1>2 DEF PaidHeld
<1>5. \A i \in Jobs : RequestInv(i)'
  BY <1>1, <1>2 DEF IInv, RequestInv
<1>6. RowsInv(j)'
  BY <1>1, <1>2, <1>4 DEF RowsInv, IsHoldRow
<1>7. Charged(j)'
  BY <1>2, <1>4 DEF Charged, Net, Reconciled
<1>8. ~Held(j)'
  BY <1>2 DEF Held
<1> QED
  BY <1>3, <1>5, <1>6, <1>7, <1>8, OneJobMoves

\* A worker success that finds its reservation open.
LEMMA CompletesSafe ==
    ASSUME IInv, NEW j \in Jobs, Completes(j)
    PROVE  IInv'
<1> PICK actual \in Actuals \cup {Cost[j]} : CompleteAndSettle(j, actual)
  BY DEF Completes
<1>0. TypeOK /\ TypeOK' /\ actual \in Nat
  BY TerminalTyped DEF IInv
<1>1. /\ Held(j) /\ Close(j, actual) /\ canon' = canon
      /\ paid' = [paid EXCEPT ![j] = TRUE]
      /\ UNCHANGED <<req, spends, sweep>>
  BY DEF CompleteAndSettle, MayComplete, Held, promoVars
<1>2. paid \in [Jobs -> BOOLEAN] /\ res \in [Jobs -> Holds]
  BY <1>1, HeldFacts
<1>3. paid'[j] /\ \A i \in Jobs : i # j => paid'[i] = paid[i]
  BY <1>1, <1>2
<1>4. \A i \in Jobs : SweepInv(i)'
  BY <1>1, <1>2, <1>3 DEF IInv, SweepInv, Held, Close, Holds
<1>5. /\ \E a \in Accounts : RootMoves(a)
      /\ \A i \in Jobs : i # j => SameRows(i)
      /\ Reconciled(j, actual)
  <2>1. CASE j \in Exact
    <3>1. actual = res[j].reserved /\ UNCHANGED <<ledger, balance, funded>>
      BY <2>1 DEF CompleteAndSettle, KeepExact
    <3>2. RootMoves(canon[res[j].account]) /\ canon[res[j].account] \in Accounts
      BY <1>1, <3>1, HeldFacts DEF IInv, AccountsInv, RootMoves, FundedSubset
    <3>3. Reconciled(j, actual)
      BY <1>1, <3>1, HeldFacts
      DEF Reconciled, IsHoldRow, NoRow, Row, PaidHeld, Lesser
    <3> QED
      BY <3>1, <3>2, <3>3 DEF SameRows
  <2>2. CASE j \notin Exact
    BY <1>0, <1>1, <2>2, ReconcileMoves DEF CompleteAndSettle
  <2> QED
    BY <2>1, <2>2
<1>6. actual \in Int
  BY <1>0
<1> QED
  BY <1>0, <1>1, <1>3, <1>4, <1>5, <1>6, CloseSafe DEF Reconciled

\* A worker success without a reservation records the worker alone.
LEMMA CompleteUnreservedSafe ==
    ASSUME IInv, NEW j \in Jobs, CompleteUnreserved(j)
    PROVE  IInv'
<1>0. TypeOK /\ TypeOK'
  BY TerminalTyped DEF IInv
<1>1. /\ UNCHANGED <<balance, funded, ledger, canon, spends, req, res, sweep>>
      /\ paid' = [paid EXCEPT ![j] = TRUE] /\ paid \in [Jobs -> BOOLEAN]
      /\ res[j].status = "none" /\ req[j].stage = "dispatched"
  BY <1>0 DEF CompleteUnreserved, creditVars, promoVars, TypeOK, ReservationTypeOK
<1>2. FundedSubset' /\ AccountsInv'
  BY <1>1 DEF IInv, FundedSubset, AccountsInv, Retired, Held, PaidHeld
<1>3. \A i \in Jobs : RequestInv(i)' /\ SweepInv(i)'
  BY <1>1 DEF IInv, RequestInv, SweepInv, Held
<1>4. \A i \in Jobs : RowsInv(i)' /\ Charged(i)'
  <2>1. ASSUME NEW i \in Jobs, i # j PROVE RowsInv(i)' /\ Charged(i)'
    BY <1>1, <2>1, RowsFrame DEF IInv, Untouched, SameRows
  <2>2. RowsInv(j)' /\ Charged(j)'
    BY <1>1 DEF IInv, RowsInv, Charged, IsHoldRow, IsRefundOf, PaidHeld
  <2> QED
    BY <2>1, <2>2
<1> QED
  BY <1>0, <1>2, <1>3, <1>4 DEF IInv
\* A charge at the price that was held moves nothing.
LEMMA ExactReconciled ==
    ASSUME IInv, NEW j \in Jobs, Held(j), UNCHANGED <<ledger, balance, funded, canon>>
    PROVE  /\ \E a \in Accounts : RootMoves(a)
           /\ \A i \in Jobs : i # j => SameRows(i)
           /\ Reconciled(j, res[j].reserved)
<1>1. RootMoves(canon[res[j].account]) /\ canon[res[j].account] \in Accounts
  BY HeldFacts DEF IInv, AccountsInv, RootMoves, FundedSubset
<1>2. Reconciled(j, res[j].reserved)
  BY HeldFacts DEF Reconciled, IsHoldRow, NoRow, Row, PaidHeld, Lesser
<1> QED
  BY <1>1, <1>2 DEF SameRows

\* A release of a hold whose worker is not paid returns all of it.
LEMMA RefundSafe ==
    ASSUME IInv, TypeOK', NEW j \in Jobs, ~paid[j], Refund(j), \A i \in Jobs : SweepInv(i)'
    PROVE  IInv'
<1>1. /\ Held(j) /\ Close(j, Nothing) /\ canon' = canon
      /\ UNCHANGED <<req, spends, paid>>
  BY HeldFacts DEF Refund, promoVars
<1>2. /\ PaidHeld(j) \in Nat /\ Nothing \in Int
      /\ ledger[RefundRef(j)] = NoRow /\ ledger[ExtraRef(j)] = NoRow
  BY <1>1, HeldFacts DEF Nothing
<1>3. NoRow.delta = 0
  BY DEF NoRow, Row
<1>4. CASE PaidHeld(j) > 0
  <2>1. RefundInSession(canon[res[j].account], j, PaidHeld(j)) /\ PaidHeld(j) \in 1..PaidHeld(j)
    BY <1>2, <1>4 DEF Refund
  <2>2. /\ RootMoves(res[j].account) /\ res[j].account \in Accounts
        /\ \A i \in Jobs : i # j => SameRows(i)
        /\ ledger'[HoldRef(j)] = ledger[HoldRef(j)] /\ ledger'[ExtraRef(j)] = NoRow
        /\ ledger'[RefundRef(j)].delta = PaidHeld(j)
        /\ IsRefundOf(ledger[HoldRef(j)], ledger'[RefundRef(j)])
    BY <1>1, <2>1, HeldFacts, RefundMoves
  <2> QED
    BY <1>1, <1>2, <1>3, <2>2, CloseSafe
<1>5. CASE ~(PaidHeld(j) > 0)
  <2>1. UNCHANGED <<ledger, balance, funded>> /\ PaidHeld(j) = 0
    BY <1>2, <1>5 DEF Refund
  <2>2. (\E a \in Accounts : RootMoves(a)) /\ \A i \in Jobs : i # j => SameRows(i)
    BY <1>1, <2>1, ExactReconciled
  <2> QED
    BY <1>1, <1>2, <1>3, <2>1, <2>2, CloseSafe
<1> QED
  BY <1>4, <1>5

\* Releases by handlers and the promotional step of a terminal.
LEMMA ReleaseSafe ==
    ASSUME IInv, NEW j \in Jobs, ReleaseJob(j) \/ RunAfter(j) \/ LoseAfter(j)
    PROVE  IInv'
<1>0. TypeOK /\ TypeOK'
  BY TerminalTyped DEF IInv
<1>1. CASE ReleaseJob(j)
  <2>1. ~paid[j] /\ Refund(j) /\ UNCHANGED <<sweep, paid>>
    BY <1>1 DEF IInv, SweepInv, ReleaseJob, Refund
  <2>2. \A i \in Jobs : SweepInv(i)'
    BY <1>0, <2>1 DEF IInv, SweepInv, Refund, Close, Held, TypeOK, ReservationTypeOK, Holds
  <2> QED
    BY <1>0, <2>1, <2>2, RefundSafe
<1>2. CASE RunAfter(j) \/ LoseAfter(j)
  <2>1. UNCHANGED <<balance, funded, ledger, canon, req, res, paid, sweep>>
    BY <1>2 DEF RunAfter, LoseAfter, creditVars
  <2>2. \A i \in Jobs : spends'[i].amount = spends[i].amount
    BY <1>0, <1>2, ReleaseKeepsAmounts DEF RunAfter, LoseAfter, promoVars
  <2>3. \A i \in Jobs : RequestInv(i)' /\ SweepInv(i)'
    BY <2>1, <2>2 DEF IInv, RequestInv, SweepInv, Held
  <2> QED
    BY <1>0, <2>1, <2>3, MoneyKept
<1> QED
  BY <1>1, <1>2

\* The stale-hold sweeper settles paid work and releases unpaid work, although
\* its reads are old when it acts; the promo sweeper moves no purchased credit.
LEMMA SweepSafe ==
    ASSUME IInv, NEW j \in Jobs,
           \/ SweepList(j) \/ SweepLookup(j) \/ SweepRelease(j) \/ SweepSettles(j)
           \/ SpendAges(j) \/ PromoSweepRead(j) \/ PromoSweepAct(j)
    PROVE  IInv'
<1>0. TypeOK /\ TypeOK' /\ sweep \in [Jobs -> {"idle", "listed", "release", "settle"}]
  BY SweepTyped DEF IInv, TypeOK, ReservationTypeOK
<1>1. CASE SweepList(j) \/ SweepLookup(j) \/ (SweepRelease(j) /\ ~Held(j))
  <2>1. UNCHANGED <<balance, funded, ledger, canon, req, res, paid, spends>>
    BY <1>1 DEF SweepList, SweepLookup, SweepRelease, creditVars, promoVars
  <2>2. \A i \in Jobs : RequestInv(i)' /\ SweepInv(i)'
    BY <1>0, <1>1, <2>1
    DEF IInv, RequestInv, SweepInv, Held, SweepList, SweepLookup, SweepRelease
  <2> QED
    BY <1>0, <2>1, <2>2, MoneyKept
<1>2. CASE SweepRelease(j) /\ Held(j)
  <2>1. ~paid[j] /\ Refund(j) /\ paid' = paid /\ sweep' = [sweep EXCEPT ![j] = "idle"]
    BY <1>2 DEF IInv, SweepInv, SweepRelease, Refund
  <2>2. \A i \in Jobs : SweepInv(i)'
    BY <1>0, <2>1 DEF IInv, SweepInv, Refund, Close, Held, TypeOK, ReservationTypeOK, Holds
  <2> QED
    BY <1>0, <2>1, <2>2, RefundSafe
<1>3. CASE SweepSettles(j)
  <2> PICK actual \in Actuals \cup {Cost[j]} : SweepSettle(j, actual)
    BY <1>3 DEF SweepSettles
  <2>1. /\ paid[j] /\ actual \in Nat /\ sweep' = [sweep EXCEPT ![j] = "idle"]
        /\ UNCHANGED <<canon, req, paid, spends>>
    BY DEF SweepSettle, IInv, SweepInv, promoVars
  <2>2. \A i \in Jobs : SweepInv(i)'
    BY <1>0, <2>1
    DEF IInv, SweepInv, SweepSettle, Close, Held, TypeOK, ReservationTypeOK, Holds
  <2>3. CASE ~Held(j)
    <3>1. UNCHANGED <<balance, funded, ledger, canon, req, res, paid, spends>>
      BY <2>1, <2>3 DEF SweepSettle
    <3> QED
      BY <1>0, <2>2, <3>1, MoneyKept DEF IInv, RequestInv
  <2>4. CASE Held(j) /\ j \in Exact
    <3>1. Close(j, actual) /\ actual = res[j].reserved /\ UNCHANGED <<ledger, balance, funded>>
      BY <2>4 DEF SweepSettle, KeepExact
    <3>2. /\ \E a \in Accounts : RootMoves(a)
          /\ \A i \in Jobs : i # j => SameRows(i)
          /\ Reconciled(j, actual)
      BY <2>1, <2>4, <3>1, ExactReconciled
    <3> QED
      BY <1>0, <2>1, <2>2, <2>4, <3>1, <3>2, CloseSafe DEF Reconciled
  <2>5. CASE Held(j) /\ j \notin Exact
    <3>1. Close(j, Nothing) /\ Reconcile(j, actual) /\ Nothing \in Int
      BY <2>5, HeldFacts DEF SweepSettle, Nothing
    <3>2. /\ \E a \in Accounts : RootMoves(a)
          /\ \A i \in Jobs : i # j => SameRows(i)
          /\ Reconciled(j, actual)
      BY <2>1, <2>5, <3>1, ReconcileMoves
    <3> QED
      BY <1>0, <2>1, <2>2, <2>5, <3>1, <3>2, CloseSafe DEF Reconciled
  <2> QED
    BY <2>3, <2>4, <2>5
<1>4. CASE SpendAges(j) \/ PromoSweepRead(j) \/ PromoSweepAct(j)
  <2>1. UNCHANGED <<balance, funded, ledger, canon, req, res, paid, sweep>>
    BY <1>4 DEF SpendAges, PromoSweepRead, PromoSweepAct, creditVars
  <2>2. \A i \in Jobs : spends'[i].amount = spends[i].amount
    BY <1>0, <1>4, ReleaseKeepsAmounts DEF SpendAges, PromoSweepRead, PromoSweepAct, promoVars
  <2>3. \A i \in Jobs : RequestInv(i)' /\ SweepInv(i)'
    BY <2>1, <2>2 DEF IInv, RequestInv, SweepInv, Held
  <2> QED
    BY <1>0, <2>1, <2>3, MoneyKept
<1> QED
  BY <1>1, <1>2, <1>3, <1>4
-----------------------------------------------------------------------------
\* Steps of accounts move no row of a job.
LEMMA AccountsMove ==
    ASSUME IInv, TypeOK', FundedSubset', AccountsInv', UNCHANGED <<flowVars, spends>>,
           \A i \in Jobs : SameRows(i)
    PROVE  IInv'
<1>1. \A i \in Jobs : RowsInv(i)' /\ Charged(i)'
  BY RowsFrame DEF IInv, Untouched, flowVars
<1>2. \A i \in Jobs : RequestInv(i)' /\ SweepInv(i)'
  BY DEF IInv, RequestInv, SweepInv, Held, flowVars
<1> QED
  BY <1>1, <1>2 DEF IInv

\* A top-up reaches the canonical account and is funded in part at most.
LEMMA FundSafe ==
    ASSUME IInv, TypeOK', NEW t \in TopUps, NEW x \in Accounts, NEW amount \in Amounts,
           NEW isFunded \in BOOLEAN, Fund(t, x, amount, isFunded)
    PROVE  IInv'
<1> DEFINE a    == canon[x]
           part == IF isFunded THEN amount ELSE 0
<1>0. TypeOK /\ a \in Accounts /\ canon[a] = a
  BY DEF IInv, AccountsInv, TypeOK, CreditTypeOK
<1>1. /\ CreditInSession(a, amount, part, TopUpRef(t)) /\ canon' = canon
      /\ UNCHANGED <<flowVars, spends>>
  BY DEF Fund, TopUp, promoVars
<1>2. amount \in Nat /\ part \in 0..amount /\ TopUpRef(t) \in Refs
  BY RefsTyped
<1> HIDE DEF part
<1>3. FundedSubset' /\ \A b \in Accounts : b # a => balance'[b] = balance[b]
  BY <1>0, <1>1, <1>2, CreditSubset DEF IInv
<1>4. AccountsInv'
  BY <1>0, <1>1, <1>3, AccountsFrame DEF IInv, AccountsInv, Held, PaidHeld, flowVars
<1>5. \A i \in Jobs : SameRows(i)
  BY <1>0, <1>1, <1>2, RefsTyped, RefsDistinct
  DEF CreditInSession, SameRows, TypeOK, CreditTypeOK
<1> QED
  BY <1>1, <1>3, <1>4, <1>5, AccountsMove

\* A merge empties the source, and no open hold of purchased credit is left on it.
LEMMA MergeSafe ==
    ASSUME IInv, TypeOK', NEW d \in Accounts, NEW s \in Accounts, MergeAccounts(d, s)
    PROVE  IInv'
<1>0. TypeOK
  BY DEF IInv
<1>1. /\ d # s /\ canon[d] = d /\ canon[s] = s
      /\ \A j \in Jobs : Held(j) => res[j].account \notin {d, s}
  BY DEF MergeAccounts, MergeAllowed, Retired, Involves
<1>2. /\ MoveBalance(d, s) /\ UNCHANGED <<flowVars, spends>>
  BY DEF MergeAccounts, MergeGrants
<1>3. /\ balance \in [Accounts -> Int] /\ funded \in [Accounts -> Int]
      /\ canon \in [Accounts -> Accounts] /\ ledger \in [Refs -> Rows]
      /\ \A b \in Accounts : 0 <= funded[b] /\ funded[b] <= balance[b]
  BY <1>0 DEF TypeOK, CreditTypeOK, IInv, FundedSubset
<1>4. canon' = [b \in Accounts |-> IF canon[b] = s THEN d ELSE canon[b]]
  BY <1>2 DEF MoveBalance
<1>5. FundedSubset'
  <2>1. CASE balance[s] > 0
    <3>1. /\ balance' = [balance EXCEPT ![d] = @ + balance[s], ![s] = 0]
          /\ funded'  = [funded EXCEPT ![d] = @ + funded[s], ![s] = 0]
      BY <1>2, <2>1 DEF MoveBalance
    <3> QED
      BY <1>1, <1>3, <3>1 DEF FundedSubset
  <2>2. CASE ~(balance[s] > 0)
    BY <1>2, <1>3, <2>2 DEF MoveBalance, FundedSubset
  <2> QED
    BY <2>1, <2>2
<1>6. /\ balance'[s] = 0
      /\ \A b \in Accounts : b \notin {d, s} => balance'[b] = balance[b]
  <2>1. CASE balance[s] > 0
    BY <1>1, <1>2, <1>3, <2>1 DEF MoveBalance
  <2>2. CASE ~(balance[s] > 0)
    BY <1>2, <1>3, <2>2 DEF MoveBalance
  <2> QED
    BY <2>1, <2>2
<1>7. AccountsInv'
  <2>1. \A b \in Accounts : canon'[canon'[b]] = canon'[b]
    BY <1>1, <1>3, <1>4 DEF IInv, AccountsInv
  <2>2. ASSUME NEW b \in Accounts, canon'[b] # b PROVE balance'[b] = 0
    BY <1>1, <1>3, <1>4, <1>6, <2>2 DEF IInv, AccountsInv, Retired
  <2>3. ASSUME NEW j \in Jobs, Held(j)', PaidHeld(j)' > 0
        PROVE  canon'[res'[j].account] = res'[j].account
    <3>1. Held(j) /\ PaidHeld(j) > 0 /\ res' = res
      BY <1>2, <2>3 DEF Held, PaidHeld, flowVars
    <3> QED
      BY <1>1, <1>3, <1>4, <3>1, HeldFacts DEF IInv, AccountsInv, Retired
  <2> QED
    BY <2>1, <2>2, <2>3 DEF AccountsInv, Retired
<1>8. \A i \in Jobs : SameRows(i)
  <2>1. CASE balance[s] > 0
    BY <1>2, <1>3, <2>1, RefsTyped, RefsDistinct DEF MoveBalance, SameRows
  <2>2. CASE ~(balance[s] > 0)
    BY <1>2, <2>2 DEF MoveBalance, SameRows
  <2> QED
    BY <2>1, <2>2
<1> QED
  BY <1>2, <1>5, <1>7, <1>8, AccountsMove

LEMMA AccountSafe == IInv /\ AccountStep => IInv'
<1> SUFFICES ASSUME IInv, AccountStep PROVE IInv'
  OBVIOUS
<1>0. TypeOK'
  BY AccountTyped DEF IInv
<1>1. ASSUME NEW g \in Accounts, Grant(g) \/ Expire(g) PROVE IInv'
  <2>1. UNCHANGED <<balance, funded, ledger, canon, res, paid, req, sweep, spends>>
    BY <1>1 DEF Grant, GrantOnce, Expire, GrantExpires, creditVars, flowVars
  <2>2. \A i \in Jobs : RequestInv(i)' /\ SweepInv(i)'
    BY <2>1 DEF IInv, RequestInv, SweepInv, Held
  <2> QED
    BY <1>0, <2>1, <2>2, MoneyKept
<1> QED
  BY <1>0, <1>1, FundSafe, MergeSafe DEF AccountStep
-----------------------------------------------------------------------------
\* Holds older than the initial state are backed by the row of their debit.
LEMMA InitSafe == Init => IInv
<1> SUFFICES ASSUME Init PROVE IInv
  OBVIOUS
<1>0. TypeOK
  BY InitTyped
<1>1. /\ balance = [a \in Accounts |-> 0] /\ funded = [a \in Accounts |-> 0]
      /\ canon = [a \in Accounts |-> a]
  BY DEF Init
<1>2. ledger = [ref \in Refs |-> OpeningRow(ref)]
  BY DEF Init
<1>3. /\ \A j \in Jobs : spends[j].amount = 0
      /\ \A j \in Jobs : req[j].draw = 0 /\ (req[j].stage = "dispatched" <=> j \in Legacy)
  BY DEF Init
<1>4. res = [j \in Jobs |-> IF j \in Legacy
                           THEN [NoHold(j) EXCEPT !.status = "held", !.reserved = Cost[j]]
                           ELSE NoHold(j)]
  BY DEF Init
<1>5. \A j \in Jobs : (paid[j] <=> j \in Legacy) /\ sweep[j] = "idle"
  BY DEF Init
<1>6. ASSUME NEW j \in Jobs
      PROVE  /\ res[j].status = IF j \in Legacy THEN "held" ELSE "none"
             /\ res[j].reserved = IF j \in Legacy THEN Cost[j] ELSE 0
             /\ res[j].promo = 0 /\ res[j].free = 0 /\ res[j].actual = Nothing
             /\ res[j].account = Owner[j]
  BY <1>4 DEF NoHold
<1>7. FundedSubset
  <2>1. ASSUME NEW a \in Accounts PROVE 0 <= funded[a] /\ funded[a] <= balance[a]
    <3>1. balance[a] = 0 /\ funded[a] = 0
      BY <1>1
    <3> QED
      BY <3>1
  <2> QED
    BY <2>1 DEF FundedSubset
<1>8. AccountsInv
  BY <1>0, <1>1, AccountsTyped DEF AccountsInv, Retired
<1>9. ASSUME NEW j \in Jobs
      PROVE  /\ ledger[HoldRef(j)] = IF j \in Legacy THEN Row(Owner[j], -Cost[j], 0) ELSE NoRow
             /\ ledger[RefundRef(j)] = NoRow /\ ledger[ExtraRef(j)] = NoRow
  <2>1. /\ HoldRef(j)[1] = "hold" /\ HoldRef(j)[2] = j
        /\ RefundRef(j)[1] = "refund" /\ ExtraRef(j)[1] = "extra"
    BY DEF HoldRef, RefundRef, ExtraRef
  <2> QED
    BY <1>2, <2>1, RefsTyped DEF OpeningRow
<1>10. ASSUME NEW j \in Jobs PROVE Cost[j] \in Nat /\ Cost[j] > 0 /\ Owner[j] \in Accounts
  OBVIOUS
<1>11. ASSUME NEW j \in Jobs PROVE RequestInv(j) /\ SweepInv(j) /\ Charged(j)
  BY <1>3, <1>5, <1>6, <1>10 DEF RequestInv, SweepInv, Charged, Held
<1>12. ASSUME NEW j \in Jobs PROVE RowsInv(j)
  <2>1. PaidHeld(j) = IF j \in Legacy THEN Cost[j] ELSE 0
    BY <1>6, <1>10 DEF PaidHeld
  <2>2. NoRow.delta = 0
    BY DEF NoRow, Row
  <2>3. IsHoldRow(j, ledger[HoldRef(j)])
    <3>1. CASE j \in Legacy
      <4>1. ledger[HoldRef(j)] = Row(Owner[j], -Cost[j], 0) /\ PaidHeld(j) = Cost[j]
        BY <3>1, <1>9, <2>1
      <4>2. /\ ledger[HoldRef(j)].account = Owner[j] /\ ledger[HoldRef(j)].delta = -Cost[j]
            /\ ledger[HoldRef(j)].funded = 0
        BY <4>1 DEF Row
      <4> QED
        BY <1>6, <1>10, <4>1, <4>2 DEF IsHoldRow
    <3>2. CASE j \notin Legacy
      BY <3>2, <1>9, <2>1 DEF IsHoldRow
    <3> QED
      BY <3>1, <3>2
  <2> QED
    BY <1>6, <1>9, <1>10, <2>1, <2>2, <2>3 DEF RowsInv
<1> QED
  BY <1>0, <1>7, <1>8, <1>11, <1>12 DEF IInv

LEMMA NextSafe == IInv /\ [Next]_vars => IInv'
<1> SUFFICES ASSUME IInv, [Next]_vars PROVE IInv'
  OBVIOUS
<1>1. CASE AccountStep
  BY <1>1, AccountSafe
<1>2. ASSUME NEW j \in Jobs, JobStep(j) PROVE IInv'
  BY <1>2, AdmissionSafe, ReservesSafe, CompletesSafe, CompleteUnreservedSafe, ReleaseSafe, SweepSafe
  DEF JobStep
<1>3. CASE UNCHANGED vars
  <2>1. UNCHANGED <<balance, funded, ledger, canon, req, res, paid, sweep, spends>>
    BY <1>3 DEF vars, creditVars, promoVars, flowVars
  <2>2. \A i \in Jobs : RequestInv(i)' /\ SweepInv(i)'
    BY <2>1 DEF IInv, RequestInv, SweepInv, Held
  <2>3. TypeOK'
    BY <1>3, NextTyped DEF IInv
  <2> QED
    BY <2>1, <2>2, <2>3, MoneyKept
<1> QED
  BY <1>1, <1>2, <1>3 DEF Next

\* The inductive invariant holds in every reachable state.
THEOREM Inductive == Spec => []IInv
BY InitSafe, NextSafe, PTL DEF Spec

(***************************************************************************)
(* The funded part of every balance stays between zero and the balance,    *)
(* for any accounts, jobs, amounts and order of debits, refunds and merges.*)
(***************************************************************************)
THEOREM FundedSubsetAlways == Spec => []FundedSubset
<1>1. IInv => FundedSubset
  BY DEF IInv
<1> QED
  BY <1>1, Inductive, PTL

(***************************************************************************)
(* A purchased-credit debit exists exactly when its reservation does.      *)
(***************************************************************************)
THEOREM DebitAndReservation == Spec => []DebitHasReservation
<1>1. ASSUME IInv, NEW j \in Jobs
      PROVE  LET hold == ledger[HoldRef(j)] IN
             /\ hold # NoRow <=> res[j].status # "none" /\ PaidHeld(j) > 0
             /\ hold # NoRow => hold.account = res[j].account /\ hold.delta = -PaidHeld(j)
  <2>1. res[j].account \in Accounts /\ NoRow.account = NoAccount
    BY <1>1, AccountsTyped DEF IInv, NoRow, Row
  <2> QED
    BY <1>1, <2>1 DEF IInv, RowsInv, IsHoldRow
<1>2. IInv => DebitHasReservation
  BY <1>1 DEF DebitHasReservation
<1> QED
  BY <1>2, Inductive, PTL

(***************************************************************************)
(* A refund goes to the account that paid the hold and returns no more     *)
(* value, and no more funded value, than the hold took.                    *)
(***************************************************************************)
THEOREM RefundsMeetDebits == Spec => []RefundMeetsDebit
<1>1. ASSUME IInv, NEW j \in Jobs, ledger[RefundRef(j)] # NoRow
      PROVE  LET hold   == ledger[HoldRef(j)]
                 refund == ledger[RefundRef(j)]
             IN  /\ refund.account = hold.account
                 /\ refund.delta <= -hold.delta
                 /\ 0 <= refund.funded /\ refund.funded <= -hold.funded
  <2> DEFINE hold   == ledger[HoldRef(j)]
             refund == ledger[RefundRef(j)]
  <2>1. hold \in Rows /\ refund \in Rows
    BY <1>1, RefsTyped DEF IInv, TypeOK, CreditTypeOK
  <2>2. IsRefundOf(hold, refund) /\ IsHoldRow(j, hold)
    BY <1>1 DEF IInv, RowsInv
  <2>3. PaidHeld(j) \in Int
    BY <1>1 DEF IInv, TypeOK, ReservationTypeOK, Holds, PaidHeld
  <2>4. hold.funded <= 0
    BY <2>1, <2>2, <2>3 DEF IsHoldRow, NoRow, Row
  <2> QED
    BY <2>1, <2>2, <2>4 DEF IsRefundOf, Greater, Rows
<1>2. IInv => RefundMeetsDebit
  BY <1>1 DEF RefundMeetsDebit
<1> QED
  BY <1>2, Inductive, PTL

(***************************************************************************)
(* A job consumes funded value first, over its hold and its refund.        *)
(***************************************************************************)
THEOREM FundedIsSpentFirst == Spec => []FundedFirst
<1>1. ASSUME IInv, NEW j \in Jobs, ledger[RefundRef(j)] # NoRow
      PROVE  LET hold   == ledger[HoldRef(j)]
                 refund == ledger[RefundRef(j)]
             IN  -(hold.funded + refund.funded) = Lesser(-hold.funded, -(hold.delta + refund.delta))
  <2>1. ledger[HoldRef(j)] \in Rows /\ ledger[RefundRef(j)] \in Rows
    BY <1>1, RefsTyped DEF IInv, TypeOK, CreditTypeOK
  <2>2. IsRefundOf(ledger[HoldRef(j)], ledger[RefundRef(j)])
    BY <1>1 DEF IInv, RowsInv
  <2> QED
    BY <2>1, <2>2 DEF IsRefundOf, Greater, Lesser, Rows
<1>2. IInv => FundedFirst
  BY <1>1 DEF FundedFirst
<1> QED
  BY <1>2, Inductive, PTL

(***************************************************************************)
(* A closed reservation whose worker is not paid cost its account nothing. *)
(***************************************************************************)
THEOREM UnpaidWorkIsFree == Spec => []UnpaidCostsNothing
<1>1. ASSUME IInv, NEW j \in Jobs, res[j].status = "settled", ~paid[j]
      PROVE  Net(j) = 0
  <2>1. /\ ledger[RefundRef(j)].delta = PaidHeld(j) /\ ledger[ExtraRef(j)] = NoRow
        /\ IsHoldRow(j, ledger[HoldRef(j)]) /\ PaidHeld(j) >= 0
    BY <1>1 DEF IInv, RowsInv
  <2>2. PaidHeld(j) \in Int
    BY <1>1 DEF IInv, TypeOK, ReservationTypeOK, Holds, PaidHeld
  <2>3. ledger[HoldRef(j)].delta = -PaidHeld(j) /\ ledger[ExtraRef(j)].delta = 0
    BY <2>1, <2>2 DEF IsHoldRow, NoRow, Row
  <2> QED
    BY <2>1, <2>2, <2>3 DEF Net
<1>2. IInv => UnpaidCostsNothing
  BY <1>1 DEF UnpaidCostsNothing
<1> QED
  BY <1>2, Inductive, PTL

(***************************************************************************)
(* A paid worker's job is charged what was counted.                        *)
(***************************************************************************)
THEOREM PaidWorkIsCharged == Spec => []PaidIsCharged
<1>1. IInv => PaidIsCharged
  BY DEF IInv, PaidIsCharged
<1> QED
  BY <1>1, Inductive, PTL
-----------------------------------------------------------------------------
(***************************************************************************)
(* The balances are a cache of the ledger.                                 *)
(***************************************************************************)
\* The tables are finite.
LEMMA RefsFinite == IsFiniteSet(Refs)
<1>1. IsFiniteSet({"hold", "refund", "extra", "opening"}) /\ IsFiniteSet({"topup"}) /\ IsFiniteSet({"out", "in"})
  <2>1. \A x : IsFiniteSet({x})
    BY FS_Singleton
  <2>2. \A x, y : IsFiniteSet({x} \union {y})
    BY <2>1, FS_Union
  <2>3. \A w, x, y, z : IsFiniteSet(({w} \union {x}) \union ({y} \union {z}))
    BY <2>2, FS_Union
  <2>4. /\ {"out", "in"} = {"out"} \union {"in"}
        /\ {"hold", "refund", "extra", "opening"} = ({"hold"} \union {"refund"}) \union ({"extra"} \union {"opening"})
    OBVIOUS
  <2> QED
    <3>1. IsFiniteSet({"out"} \union {"in"})
      BY <2>2
    <3>2. IsFiniteSet(({"hold"} \union {"refund"}) \union ({"extra"} \union {"opening"}))
      BY <2>3
    <3> QED
      BY <2>1, <2>4, <3>1, <3>2
<1>2. /\ IsFiniteSet({"hold", "refund", "extra", "opening"} \X Jobs)
      /\ IsFiniteSet({"topup"} \X TopUps) /\ IsFiniteSet({"out", "in"} \X Accounts)
  BY <1>1, FS_Product
<1> QED
  BY <1>2, FS_Union DEF Refs, JobRefs

\* What the rows of a ledger come to for an account.
AmountOf(l, a)       == [ref \in Refs |-> IF l[ref].account = a THEN l[ref].delta ELSE 0]
FundedAmountOf(l, a) == [ref \in Refs |-> IF l[ref].account = a THEN l[ref].funded ELSE 0]

\* Balances that are a cache of a ledger.
Tallies(b, f, l) == \A a \in Accounts :
    b[a] = SumOf(AmountOf(l, a), Refs) /\ f[a] = SumOf(FundedAmountOf(l, a), Refs)

LEMMA TalliesMatch ==
    ASSUME TypeOK
    PROVE  Tallies(balance, funded, ledger) <=> BalanceMatchesLedger
<1> SUFFICES ASSUME NEW a \in Accounts
             PROVE  Deltas(a) = SumOf(AmountOf(ledger, a), Refs)
                    /\ FundedDeltas(a) = SumOf(FundedAmountOf(ledger, a), Refs)
  BY DEF Tallies, BalanceMatchesLedger
<1> DEFINE T == RowsOf(a)
           d == [ref \in Refs |-> ledger[ref].delta]
           f == [ref \in Refs |-> ledger[ref].funded]
           x == AmountOf(ledger, a)
           y == FundedAmountOf(ledger, a)
<1>1. T \in SUBSET Refs /\ IsFiniteSet(T) /\ IsFiniteSet(Refs)
  BY RefsFinite, FS_Subset DEF RowsOf
<1>2. Deltas(a) = SumOf(d, T) /\ FundedDeltas(a) = SumOf(f, T)
  BY DEF Deltas, FundedDeltas, SumFunctionOnSet, FoldFunctionOnSet, SumOf, MapThenSumSet, MapThenFoldSet
<1>3. /\ Numbers(d, T) /\ Numbers(f, T) /\ Numbers(x, T) /\ Numbers(y, T)
      /\ Numbers(x, Refs) /\ Numbers(y, Refs)
  BY DEF TypeOK, CreditTypeOK, Rows, Numbers, RowsOf, AmountOf, FundedAmountOf
<1>4. /\ \A ref \in T : d[ref] = x[ref] /\ f[ref] = y[ref]
      /\ \A ref \in Refs \ T : x[ref] = 0 /\ y[ref] = 0
  BY DEF RowsOf, AmountOf, FundedAmountOf
<1> HIDE DEF T, d, f, x, y
<1>5. SumOf(d, T) = SumOf(x, T) /\ SumOf(f, T) = SumOf(y, T)
  BY <1>1, <1>3, <1>4, SumAlike
<1>6. SumOf(x, Refs) = SumOf(x, T) /\ SumOf(y, Refs) = SumOf(y, T)
  BY <1>1, <1>3, <1>4, SumRest
<1> QED
  BY <1>2, <1>5, <1>6 DEF x, y

LEMMA TalliesMatchNext ==
    ASSUME TypeOK'
    PROVE  Tallies(balance', funded', ledger') <=> BalanceMatchesLedger'
<1>1. \A a \in Accounts : /\ AmountOf(ledger, a)' = AmountOf(ledger', a)
                          /\ FundedAmountOf(ledger, a)' = FundedAmountOf(ledger', a)
  BY DEF AmountOf, FundedAmountOf
<1>2. TypeOK' => (Tallies(balance, funded, ledger)' <=> BalanceMatchesLedger')
  BY TalliesMatch, PTL
<1> QED
  BY <1>1, <1>2 DEF Tallies

\* A new row is added to the balance of its account.
LEMMA TallyKept ==
    ASSUME NEW b \in [Accounts -> Int], NEW f \in [Accounts -> Int], NEW l \in [Refs -> Rows],
           Tallies(b, f, l), NEW ref \in Refs, l[ref] = NoRow,
           NEW x \in Accounts, NEW d \in Int, NEW fd \in Int
    PROVE  Tallies([b EXCEPT ![x] = @ + d], [f EXCEPT ![x] = @ + fd], [l EXCEPT ![ref] = Row(x, d, fd)])
<1> DEFINE k == [l EXCEPT ![ref] = Row(x, d, fd)]
           bb == [b EXCEPT ![x] = @ + d]
           ff == [f EXCEPT ![x] = @ + fd]
<1> SUFFICES ASSUME NEW a \in Accounts
             PROVE  /\ SumOf(AmountOf(k, a), Refs) = b[a] + (IF a = x THEN d ELSE 0)
                    /\ SumOf(FundedAmountOf(k, a), Refs) = f[a] + (IF a = x THEN fd ELSE 0)
  <2>1. \A c \in Accounts : bb[c] = b[c] + (IF c = x THEN d ELSE 0)
    OBVIOUS
  <2>2. \A c \in Accounts : ff[c] = f[c] + (IF c = x THEN fd ELSE 0)
    OBVIOUS
  <2> HIDE DEF k, bb, ff
  <2>3. Tallies(bb, ff, k)
    BY <2>1, <2>2 DEF Tallies
  <2> QED
    BY <2>3 DEF bb, ff, k
<1> HIDE DEF bb, ff
<1> DEFINE m == AmountOf(l, a)
           n == AmountOf(k, a)
           p == FundedAmountOf(l, a)
           q == FundedAmountOf(k, a)
<1>1. /\ Row(x, d, fd) \in Rows /\ Row(x, d, fd).account = x /\ Row(x, d, fd).delta = d
      /\ Row(x, d, fd).funded = fd /\ NoRow.account = NoAccount
  BY RowTyped DEF Row, NoRow
<1>2. k \in [Refs -> Rows] /\ k[ref] = Row(x, d, fd) /\ \A r \in Refs \ {ref} : k[r] = l[r]
  BY <1>1
<1> HIDE DEF k
<1>3. Numbers(m, Refs) /\ Numbers(n, Refs) /\ Numbers(p, Refs) /\ Numbers(q, Refs)
  BY <1>2 DEF Numbers, AmountOf, FundedAmountOf, Rows
<1>4. /\ \A r \in Refs \ {ref} : n[r] = m[r] /\ q[r] = p[r]
      /\ m[ref] = 0 /\ p[ref] = 0 /\ n[ref] = (IF a = x THEN d ELSE 0) /\ q[ref] = (IF a = x THEN fd ELSE 0)
  <2>1. \A r \in Refs \ {ref} : n[r] = m[r] /\ q[r] = p[r]
    BY <1>2 DEF AmountOf, FundedAmountOf
  <2>2. NoRow.account # a /\ l[ref].account # a
    BY <1>1
  <2>3. m[ref] = 0 /\ p[ref] = 0
    BY <2>2 DEF AmountOf, FundedAmountOf
  <2>4. n[ref] = (IF a = x THEN d ELSE 0) /\ q[ref] = (IF a = x THEN fd ELSE 0)
    BY <1>1, <1>2 DEF AmountOf, FundedAmountOf
  <2> QED
    BY <2>1, <2>3, <2>4
<1> HIDE DEF m, n, p, q
<1>5. SumOf(n, Refs) = SumOf(m, Refs) + n[ref] - m[ref] /\ SumOf(q, Refs) = SumOf(p, Refs) + q[ref] - p[ref]
  <2>1. SumOf(n, Refs) = SumOf(m, Refs) + n[ref] - m[ref]
    <3>1. \A r \in Refs \ {ref} : n[r] = m[r]
      BY <1>4
    <3> QED
      BY <1>3, <3>1, RefsFinite, SumChange
  <2>2. SumOf(q, Refs) = SumOf(p, Refs) + q[ref] - p[ref]
    BY <1>3, <1>4, RefsFinite, SumChange
  <2> QED
    BY <2>1, <2>2
<1>6. SumOf(m, Refs) \in Int /\ SumOf(p, Refs) \in Int
  BY <1>3, RefsFinite, SumTyped
<1>7. b[a] = SumOf(m, Refs) /\ f[a] = SumOf(p, Refs)
  BY DEF Tallies, m, p
<1>8. SumOf(n, Refs) = b[a] + (IF a = x THEN d ELSE 0) /\ SumOf(q, Refs) = f[a] + (IF a = x THEN fd ELSE 0)
  BY <1>4, <1>5, <1>6, <1>7
<1> QED
  BY <1>8 DEF n, q

-----------------------------------------------------------------------------
\* Rows that a merge does not write.
Booked(ref, x, d, f) ==
    /\ ref[1] \notin {"out", "in"}
    /\ ledger[ref] = NoRow
    /\ ledger' = [ledger EXCEPT ![ref] = Row(x, d, f)]
    /\ balance' = [balance EXCEPT ![x] = @ + d]
    /\ funded' = [funded EXCEPT ![x] = @ + f]

\* A step that books one row or none.
BooksOne ==
    \/ UNCHANGED <<balance, funded, ledger>>
    \/ \E ref \in Refs, x \in Accounts, d \in Int, f \in Int : Booked(ref, x, d, f)

LEMMA BookingKept ==
    ASSUME TypeOK, TypeOK', LedgerInv, canon' = canon, BooksOne
    PROVE  LedgerInv'
<1>1. CASE UNCHANGED <<balance, funded, ledger>>
  <2>1. BalanceMatchesLedger'
    BY <1>1, TalliesMatch, TalliesMatchNext DEF LedgerInv
  <2> QED
    BY <1>1, <2>1 DEF LedgerInv, Retired
<1>2. ASSUME NEW ref \in Refs, NEW x \in Accounts, NEW d \in Int, NEW f \in Int, Booked(ref, x, d, f)
      PROVE  LedgerInv'
  <2>1. /\ balance \in [Accounts -> Int] /\ funded \in [Accounts -> Int] /\ ledger \in [Refs -> Rows]
        /\ Tallies(balance, funded, ledger)
    BY TalliesMatch DEF TypeOK, CreditTypeOK, LedgerInv
  <2>2. Tallies(balance', funded', ledger')
    BY <1>2, <2>1, TallyKept DEF Booked
  <2>3. BalanceMatchesLedger'
    BY <2>2, TalliesMatchNext
  <2>4. \A a \in Accounts : /\ MergeOutRef(a) # ref /\ MergeInRef(a) # ref
                            /\ MergeOutRef(a) \in Refs /\ MergeInRef(a) \in Refs
    <3>1. \A a \in Accounts : MergeOutRef(a)[1] = "out" /\ MergeInRef(a)[1] = "in"
      BY DEF MergeOutRef, MergeInRef
    <3>2. ref[1] # "out" /\ ref[1] # "in"
      BY <1>2 DEF Booked
    <3> QED
      BY <3>1, <3>2, RefsTyped
  <2>5. \A a \in Accounts : /\ ledger'[MergeOutRef(a)] = ledger[MergeOutRef(a)]
                            /\ ledger'[MergeInRef(a)] = ledger[MergeInRef(a)]
    BY <1>2, <2>1, <2>4 DEF Booked
  <2> QED
    BY <2>3, <2>5 DEF LedgerInv, Retired
<1> QED
  BY <1>1, <1>2 DEF BooksOne

\* A credit, a debit and a refund book one row.
LEMMA CreditBooks ==
    ASSUME TypeOK, NEW a \in Accounts, NEW m \in Int, NEW f \in Int, NEW ref \in Refs,
           ref[1] \notin {"out", "in"}, CreditInSession(a, m, f, ref)
    PROVE  BooksOne
<1>1. Booked(ref, a, m, f)
  BY DEF CreditInSession, Booked
<1> QED
  BY <1>1 DEF BooksOne

LEMMA DebitBooks ==
    ASSUME TypeOK, NEW a \in Accounts, NEW m \in Int, NEW ref \in Refs,
           ref[1] \notin {"out", "in"}, DebitInSession(a, m, ref)
    PROVE  BooksOne
<1>1. balance \in [Accounts -> Int] /\ funded \in [Accounts -> Int]
  BY DEF TypeOK, CreditTypeOK
<1>2. FundedUsed(a, m) \in Int
  BY <1>1 DEF FundedUsed, Lesser
<1>3. Booked(ref, a, -m, -FundedUsed(a, m))
  <2>1. [balance EXCEPT ![a] = @ - m] = [balance EXCEPT ![a] = @ + (-m)]
    BY <1>1
  <2>2. [funded EXCEPT ![a] = @ - FundedUsed(a, m)] = [funded EXCEPT ![a] = @ + (-FundedUsed(a, m))]
    BY <1>1, <1>2
  <2> QED
    BY <2>1, <2>2 DEF DebitInSession, Booked
<1>4. -m \in Int /\ -FundedUsed(a, m) \in Int
  BY <1>2
<1> QED
  BY <1>3, <1>4 DEF BooksOne

LEMMA RefundBooks ==
    ASSUME TypeOK, NEW a \in Accounts, NEW j \in Jobs, NEW m \in Int, RefundInSession(a, j, m)
    PROVE  BooksOne
<1>1. RefundFunded(a, j, m) \in Int
  BY RefsTyped DEF TypeOK, CreditTypeOK, RefundFunded, Greater, Rows
<1>2. RefundRef(j) \in Refs /\ RefundRef(j)[1] \notin {"out", "in"}
  BY RefsTyped DEF RefundRef
<1> QED
  BY <1>1, <1>2, CreditBooks DEF RefundInSession

\* Every way to settle or release a hold books one row or none.
LEMMA ReconcileBooks ==
    ASSUME IInv, NEW j \in Jobs, NEW actual \in Nat, Held(j), Reconcile(j, actual)
    PROVE  BooksOne
<1> DEFINE a    == canon[res[j].account]
           held == PaidHeld(j)
           cost == PaidSpent(j, actual)
<1>0. TypeOK /\ a \in Accounts /\ held \in Nat
  BY HeldFacts DEF IInv
<1>1. cost \in Nat
  BY <1>0, HeldFacts, PaidSpentIs
<1>3. ExtraRef(j) \in Refs /\ ExtraRef(j)[1] \notin {"out", "in"}
  BY RefsTyped DEF ExtraRef
<1> HIDE DEF held, cost
<1>2. held - cost \in Int /\ -(held - cost) \in Int
  BY <1>0, <1>1
<1>4. \/ RefundInSession(a, j, held - cost)
      \/ TryExtraDebit(a, j, -(held - cost))
      \/ UNCHANGED <<ledger, balance, funded>>
  BY <1>2 DEF Reconcile, held, cost
<1> HIDE DEF a
<1>5. CASE RefundInSession(a, j, held - cost)
  BY <1>0, <1>2, <1>5, RefundBooks
<1>6. CASE TryExtraDebit(a, j, -(held - cost))
  <2>1. DebitInSession(a, -(held - cost), ExtraRef(j)) \/ UNCHANGED <<ledger, balance, funded>>
    BY <1>6 DEF TryExtraDebit
  <2> QED
    BY <1>0, <1>2, <1>3, <2>1, DebitBooks DEF BooksOne
<1> QED
  BY <1>4, <1>5, <1>6 DEF BooksOne

LEMMA RefundStepBooks ==
    ASSUME IInv, NEW j \in Jobs, Refund(j)
    PROVE  BooksOne
<1>1. TypeOK /\ canon[res[j].account] \in Accounts /\ PaidHeld(j) \in Int
  BY HeldFacts DEF IInv, Refund
<1> QED
  BY <1>1, RefundBooks DEF Refund, BooksOne

LEMMA ReservesBooks ==
    ASSUME IInv, NEW j \in Jobs, Reserves(j)
    PROVE  BooksOne
<1> PICK f \in FreeDraws : Hold(j, FromFree(j, f))
  BY DEF Reserves
<1> DEFINE rest == Remainder(j, FromFree(j, f))
<1>1. TypeOK /\ req[j].account \in Accounts /\ req[j].draw \in Int
  BY AccountsTyped DEF IInv, RequestInv, TypeOK, ReservationTypeOK, Requests
<1>2. rest \in Int
  <2>1. Cost[j] \in Int /\ f \in Int
    OBVIOUS
  <2>2. FromFree(j, f) \in Int
    BY <1>1, <2>1 DEF FromFree, Lesser
  <2> QED
    BY <1>1, <2>1, <2>2 DEF Remainder
<1>3. HoldRef(j) \in Refs /\ HoldRef(j)[1] \notin {"out", "in"}
  BY RefsTyped DEF HoldRef
<1>4. DebitInSession(req[j].account, rest, HoldRef(j)) \/ UNCHANGED <<balance, funded, ledger>>
  BY DEF Hold
<1> HIDE DEF rest
<1> QED
  BY <1>1, <1>2, <1>3, <1>4, DebitBooks DEF BooksOne

LEMMA JobStepBooks ==
    ASSUME IInv, NEW j \in Jobs, JobStep(j)
    PROVE  BooksOne /\ canon' = canon
<1>1. CASE Reserves(j)
  BY <1>1, ReservesBooks DEF Reserves, Hold
<1>2. CASE Completes(j)
  <2> PICK actual \in Actuals \cup {Cost[j]} : CompleteAndSettle(j, actual)
    BY <1>2 DEF Completes
  <2>1. Held(j) /\ canon' = canon /\ actual \in Nat
    BY DEF CompleteAndSettle, MayComplete, Held
  <2> QED
    BY <2>1, ReconcileBooks DEF CompleteAndSettle, KeepExact, BooksOne
<1>3. CASE SweepSettles(j)
  <2> PICK actual \in Actuals \cup {Cost[j]} : SweepSettle(j, actual)
    BY <1>3 DEF SweepSettles
  <2>1. canon' = canon /\ actual \in Nat
    BY DEF SweepSettle
  <2> QED
    BY <2>1, ReconcileBooks DEF SweepSettle, KeepExact, BooksOne
<1>4. CASE ReleaseJob(j) \/ SweepRelease(j)
  <2>1. canon' = canon
    BY <1>4 DEF ReleaseJob, SweepRelease, Refund, creditVars
  <2>2. Refund(j) \/ UNCHANGED <<balance, funded, ledger>>
    BY <1>4 DEF ReleaseJob, SweepRelease, creditVars
  <2> QED
    BY <2>1, <2>2, RefundStepBooks DEF BooksOne
<1>5. ASSUME ~Reserves(j), ~Completes(j), ~SweepSettles(j), ~ReleaseJob(j), ~SweepRelease(j)
      PROVE  UNCHANGED creditVars
  BY <1>5 DEF JobStep, Request, RequestUncharged, DrawPromo, DrawFails, HoldRefused, UndoDraw,
     RequestCrash, CompleteUnreserved, RunAfter, LoseAfter, SweepList, SweepLookup, SpendAges,
     PromoSweepRead, PromoSweepAct
<1> QED
  BY <1>1, <1>2, <1>3, <1>4, <1>5 DEF BooksOne, creditVars

-----------------------------------------------------------------------------
LEMMA MergeBooks ==
    ASSUME IInv, TypeOK', LedgerInv, NEW d \in Accounts, NEW s \in Accounts, MergeAccounts(d, s)
    PROVE  LedgerInv'
<1>1. /\ balance \in [Accounts -> Int] /\ funded \in [Accounts -> Int] /\ ledger \in [Refs -> Rows]
      /\ Tallies(balance, funded, ledger) /\ canon \in [Accounts -> Accounts]
  BY TalliesMatch DEF TypeOK, CreditTypeOK, LedgerInv, IInv
<1>2. d # s /\ canon[d] = d /\ canon[s] = s /\ MoveBalance(d, s)
  BY DEF MergeAccounts, MergeAllowed, Retired
<1>3. /\ \A a \in Accounts : MergeOutRef(a) \in Refs /\ MergeInRef(a) \in Refs
      /\ \A a, b : MergeOutRef(a) # MergeInRef(b)
      /\ \A a, b : a # b => MergeOutRef(a) # MergeOutRef(b) /\ MergeInRef(a) # MergeInRef(b)
  BY RefsTyped DEF MergeOutRef, MergeInRef
<1>4. ledger[MergeOutRef(s)] = NoRow /\ ledger[MergeInRef(s)] = NoRow
  BY <1>2 DEF LedgerInv, Retired
<1>5. \A a \in Accounts : ~Retired(a)' => ~Retired(a) /\ a # s
  BY <1>1, <1>2 DEF Retired, MoveBalance
<1>6. CASE balance[s] > 0
  <2> DEFINE m == balance[s]
             f == funded[s]
             b1 == [balance EXCEPT ![s] = @ + (-m)]
             f1 == [funded EXCEPT ![s] = @ + (-f)]
             l1 == [ledger EXCEPT ![MergeOutRef(s)] = Row(s, -m, -f)]
             b2 == [b1 EXCEPT ![d] = @ + m]
             f2 == [f1 EXCEPT ![d] = @ + f]
             l2 == [l1 EXCEPT ![MergeInRef(s)] = Row(d, m, f)]
  <2>1. m \in Int /\ f \in Int /\ -m \in Int /\ -f \in Int
    BY <1>1
  <2>2. Tallies(b1, f1, l1)
    <3> HIDE DEF m, f
    <3> QED
      BY <1>1, <1>3, <1>4, <2>1, TallyKept
  <2>3. b1 \in [Accounts -> Int] /\ f1 \in [Accounts -> Int] /\ l1 \in [Refs -> Rows]
    <3>1. Row(s, -m, -f) \in Rows
      BY <2>1, RowTyped
    <3>2. \A i, k \in Int : i + k \in Int
      OBVIOUS
    <3> HIDE DEF m, f
    <3> QED
      BY <1>1, <1>3, <2>1, <3>1, <3>2
  <2>4. l1[MergeInRef(s)] = NoRow
    BY <1>1, <1>3, <1>4
  <2>5. Tallies(b2, f2, l2)
    <3> HIDE DEF m, f, b1, f1, l1
    <3> QED
      BY <1>3, <2>1, <2>2, <2>3, <2>4, TallyKept
  <2>6. balance' = b2
    <3>1. balance' = [balance EXCEPT ![d] = @ + m, ![s] = 0]
      BY <1>2, <1>6 DEF MoveBalance
    <3>2. balance' \in [Accounts -> Int] /\ b2 \in [Accounts -> Int]
      <4>1. \A i, k \in Int : i + k \in Int
        OBVIOUS
      <4> HIDE DEF m, b1
      <4> QED
        BY <1>1, <2>1, <2>3, <3>1, <4>1
    <3>3. ASSUME NEW c \in Accounts PROVE balance'[c] = b2[c]
      <4>1. CASE c = d
        BY <1>1, <1>2, <3>1, <4>1
      <4>2. CASE c = s
        BY <1>1, <1>2, <3>1, <4>2
      <4>3. CASE c # d /\ c # s
        BY <1>1, <1>2, <3>1, <4>3
      <4> QED
        BY <4>1, <4>2, <4>3
    <3> HIDE DEF b2
    <3> QED
      BY <3>2, <3>3
  <2>7. funded' = f2
    <3>1. funded' = [funded EXCEPT ![d] = @ + f, ![s] = 0]
      BY <1>2, <1>6 DEF MoveBalance
    <3>2. funded' \in [Accounts -> Int] /\ f2 \in [Accounts -> Int]
      <4>1. \A i, k \in Int : i + k \in Int
        OBVIOUS
      <4> HIDE DEF f, f1
      <4> QED
        BY <1>1, <2>1, <2>3, <3>1, <4>1
    <3>3. ASSUME NEW c \in Accounts PROVE funded'[c] = f2[c]
      <4>1. CASE c = d
        BY <1>1, <1>2, <3>1, <4>1
      <4>2. CASE c = s
        BY <1>1, <1>2, <3>1, <4>2
      <4>3. CASE c # d /\ c # s
        BY <1>1, <1>2, <3>1, <4>3
      <4> QED
        BY <4>1, <4>2, <4>3
    <3> HIDE DEF f2
    <3> QED
      BY <3>2, <3>3
  <2>8. ledger' = l2
    BY <1>2, <1>6 DEF MoveBalance
  <2>9. BalanceMatchesLedger'
    <3> HIDE DEF b2, f2, l2
    <3> QED
      BY <2>5, <2>6, <2>7, <2>8, TalliesMatchNext
  <2>10. \A a \in Accounts : a # s => /\ ledger'[MergeOutRef(a)] = ledger[MergeOutRef(a)]
                                      /\ ledger'[MergeInRef(a)] = ledger[MergeInRef(a)]
    BY <1>1, <1>3, <2>8
  <2> QED
    BY <1>5, <2>9, <2>10 DEF LedgerInv
<1>7. CASE ~(balance[s] > 0)
  <2>1. UNCHANGED <<balance, funded, ledger>>
    BY <1>2, <1>7 DEF MoveBalance
  <2>2. BalanceMatchesLedger'
    BY <1>1, <2>1, TalliesMatchNext
  <2> QED
    BY <1>5, <2>1, <2>2 DEF LedgerInv
<1> QED
  BY <1>6, <1>7

\* What was held before the initial state was credited before it.
LEMMA PairsCancel ==
    ASSUME NEW f, Numbers(f, Refs), \A j \in Jobs : f[OpeningRef(j)] = -f[HoldRef(j)],
           \A ref \in Refs \ ({"hold", "opening"} \X Jobs) : f[ref] = 0
    PROVE  SumOf(f, Refs) = 0
<1> DEFINE P(J) == {"hold", "opening"} \X J
           C == {J \in SUBSET Jobs : SumOf(f, P(J)) # 0}
<1>1. \A J \in SUBSET Jobs : P(J) \in SUBSET Refs /\ IsFiniteSet(P(J)) /\ Numbers(f, P(J))
  <2>1. \A J \in SUBSET Jobs : P(J) \in SUBSET Refs
    BY DEF Refs, JobRefs
  <2> HIDE DEF P
  <2> QED
    BY <2>1, RefsFinite, FS_Subset DEF Numbers
<1>2. ASSUME C # {} PROVE FALSE
  <2>1. PICK J \in C : \A v \in C : v \subseteq J => v = J
    <3>1. C \in SUBSET (SUBSET Jobs)
      OBVIOUS
    <3> HIDE DEF C
    <3> QED
      BY <1>2, <3>1, LeastSubset
  <2>2. J \in SUBSET Jobs /\ SumOf(f, P(J)) # 0
    BY <2>1
  <2>3. J # {}
    <3>1. P({}) = {}
      OBVIOUS
    <3> HIDE DEF P
    <3>2. SumOf(f, P({})) = 0
      BY <1>1, <3>1, SumTyped
    <3> QED
      BY <2>2, <3>2
  <2>4. PICK j \in J : TRUE
    BY <2>3
  <2> DEFINE K == J \ {j}
             Q == P(J) \ {HoldRef(j)}
  <2>5. K \in SUBSET Jobs /\ SumOf(f, P(K)) = 0
    <3> HIDE DEF P
    <3> QED
      BY <2>1, <2>2, <2>4
  <2>6. HoldRef(j) \in P(J) /\ OpeningRef(j) \in Q /\ Q \ {OpeningRef(j)} = P(K)
    BY <2>4 DEF HoldRef, OpeningRef
  <2>7. IsFiniteSet(Q) /\ Numbers(f, Q)
    <3>1. Q \subseteq P(J) /\ IsFiniteSet(P(J)) /\ Numbers(f, P(J))
      BY <1>1, <2>2
    <3> HIDE DEF P, Q
    <3> QED
      BY <3>1, FS_Subset DEF Numbers
  <2>8. SumOf(f, P(J)) = f[HoldRef(j)] + SumOf(f, Q)
    <3> HIDE DEF P
    <3> QED
      BY <1>1, <2>2, <2>6, SumTake
  <2>9. SumOf(f, Q) = f[OpeningRef(j)] + SumOf(f, P(K))
    <3> HIDE DEF P, K, Q
    <3> QED
      BY <2>6, <2>7, SumTake
  <2>10. f[HoldRef(j)] \in Int /\ f[OpeningRef(j)] = -f[HoldRef(j)]
    <3>1. j \in Jobs /\ HoldRef(j) \in Refs
      BY <2>2, RefsTyped
    <3> QED
      BY <3>1 DEF Numbers
  <2> HIDE DEF P, K, Q
  <2> QED
    BY <2>2, <2>5, <2>8, <2>9, <2>10
<1>3. SumOf(f, P(Jobs)) = 0
  BY <1>2
<1> HIDE DEF C
<1>4. SumOf(f, Refs) = SumOf(f, P(Jobs))
  <2>1. \A ref \in Refs \ P(Jobs) : f[ref] = 0
    OBVIOUS
  <2> HIDE DEF P
  <2> QED
    BY <1>1, <2>1, RefsFinite, SumRest
<1> QED
  BY <1>3, <1>4

LEMMA LedgerStarts == ASSUME Init PROVE LedgerInv
<1>1. TypeOK
  BY InitTyped
<1>2. /\ balance = [a \in Accounts |-> 0] /\ funded = [a \in Accounts |-> 0]
      /\ ledger = [ref \in Refs |-> OpeningRow(ref)]
  BY DEF Init
<1>3. ASSUME NEW a \in Accounts
      PROVE  SumOf(AmountOf(ledger, a), Refs) = 0 /\ SumOf(FundedAmountOf(ledger, a), Refs) = 0
  <2> DEFINE x == AmountOf(ledger, a)
             y == FundedAmountOf(ledger, a)
  <2>1. Numbers(x, Refs)
    BY <1>1 DEF TypeOK, CreditTypeOK, Rows, Numbers, AmountOf
  <2>2. ASSUME NEW j \in Jobs PROVE x[OpeningRef(j)] = -x[HoldRef(j)]
    <3>1. OpeningRef(j) \in Refs /\ HoldRef(j) \in Refs
      BY DEF Refs, JobRefs, OpeningRef, HoldRef
    <3>2. /\ OpeningRow(OpeningRef(j)) = IF j \in Legacy THEN Row(Owner[j], Cost[j], 0) ELSE NoRow
          /\ OpeningRow(HoldRef(j)) = IF j \in Legacy THEN Row(Owner[j], -Cost[j], 0) ELSE NoRow
      BY DEF OpeningRow, OpeningRef, HoldRef
    <3>3. Cost[j] \in Int
      OBVIOUS
    <3> QED
      BY <1>2, <3>1, <3>2, <3>3 DEF AmountOf, Row, NoRow
  <2>3. ASSUME NEW ref \in Refs \ ({"hold", "opening"} \X Jobs) PROVE x[ref] = 0
    <3>1. ref[1] \notin {"hold", "opening"}
      BY DEF Refs, JobRefs
    <3> QED
      BY <1>2, <3>1 DEF AmountOf, OpeningRow, NoRow, Row
  <2>4. \A ref \in Refs : y[ref] = 0
    BY <1>2 DEF FundedAmountOf, OpeningRow, NoRow, Row
  <2> HIDE DEF x, y
  <2>5. SumOf(x, Refs) = 0
    BY <2>1, <2>2, <2>3, PairsCancel
  <2>6. SumOf(y, Refs) = 0
    BY <2>4, RefsFinite, SumZero
  <2> QED
    BY <2>5, <2>6 DEF x, y
<1>4. BalanceMatchesLedger
  BY <1>1, <1>2, <1>3, TalliesMatch DEF Tallies
<1>5. ASSUME NEW a \in Accounts PROVE ledger[MergeOutRef(a)] = NoRow /\ ledger[MergeInRef(a)] = NoRow
  BY <1>2, RefsTyped DEF OpeningRow, MergeOutRef, MergeInRef
<1> QED
  BY <1>4, <1>5 DEF LedgerInv

LEMMA LedgerKept == ASSUME IInv, LedgerInv, [Next]_vars PROVE LedgerInv'
<1>1. TypeOK /\ TypeOK'
  BY NextTyped DEF IInv
<1>2. CASE \E j \in Jobs : JobStep(j)
  BY <1>1, <1>2, JobStepBooks, BookingKept
<1>3. ASSUME NEW t \in TopUps, NEW a \in Accounts, NEW amount \in Amounts, NEW isFunded \in BOOLEAN,
             Fund(t, a, amount, isFunded)
      PROVE  LedgerInv'
  <2> DEFINE part == IF isFunded THEN amount ELSE 0
  <2>1. CreditInSession(canon[a], amount, part, TopUpRef(t)) /\ canon' = canon
    BY <1>3 DEF Fund, TopUp
  <2>2. canon[a] \in Accounts /\ amount \in Int /\ part \in Int
    BY <1>1 DEF TypeOK, CreditTypeOK
  <2>3. TopUpRef(t) \in Refs /\ TopUpRef(t)[1] \notin {"out", "in"}
    BY RefsTyped DEF TopUpRef
  <2> HIDE DEF part
  <2>4. BooksOne
    BY <1>1, <2>1, <2>2, <2>3, CreditBooks
  <2> QED
    BY <1>1, <2>1, <2>4, BookingKept
<1>4. CASE UNCHANGED creditVars
  BY <1>1, <1>4, BookingKept DEF BooksOne, creditVars
<1>5. ASSUME NEW g \in Accounts, Grant(g) \/ Expire(g) PROVE UNCHANGED creditVars
  BY <1>5 DEF Grant, Expire
<1>6. CASE UNCHANGED vars
  BY <1>4, <1>6 DEF vars
<1> QED
  BY <1>1, <1>2, <1>3, <1>4, <1>5, <1>6, MergeBooks DEF Next, AccountStep

(***************************************************************************)
(* Every balance, and its funded part, is the sum of its ledger rows: for  *)
(* any accounts, jobs, top-ups, amounts, merges, refunds and extra debits. *)
(***************************************************************************)
THEOREM BalancesMatchLedger == Spec => []BalanceMatchesLedger
<1>1. LedgerInv => BalanceMatchesLedger
  BY DEF LedgerInv
<1>2. Init => LedgerInv
  BY LedgerStarts
<1>3. IInv /\ LedgerInv /\ [Next]_vars => LedgerInv'
  BY LedgerKept
<1> QED
  BY <1>1, <1>2, <1>3, Inductive, PTL DEF Spec
-----------------------------------------------------------------------------
(***************************************************************************)
(* The ledger only grows, and no credit is created or lost.                *)
(***************************************************************************)
\* What a step does to the ledger: a merge's pair of rows, or one row at most.
LEMMA StepBooks ==
    ASSUME IInv, [Next]_vars
    PROVE  BooksOne \/ \E d, s \in Accounts : MergeAccounts(d, s)
<1>1. CASE \E j \in Jobs : JobStep(j)
  BY <1>1, JobStepBooks
<1>2. ASSUME NEW t \in TopUps, NEW a \in Accounts, NEW amount \in Amounts, NEW isFunded \in BOOLEAN,
             Fund(t, a, amount, isFunded)
      PROVE  BooksOne
  <2> DEFINE part == IF isFunded THEN amount ELSE 0
  <2>1. CreditInSession(canon[a], amount, part, TopUpRef(t)) /\ TypeOK
    BY <1>2 DEF Fund, TopUp, IInv
  <2>2. canon[a] \in Accounts /\ amount \in Int /\ part \in Int
    BY <2>1 DEF TypeOK, CreditTypeOK
  <2>3. TopUpRef(t) \in Refs /\ TopUpRef(t)[1] \notin {"out", "in"}
    BY RefsTyped DEF TopUpRef
  <2> HIDE DEF part
  <2> QED
    BY <2>1, <2>2, <2>3, CreditBooks
<1>3. ASSUME NEW g \in Accounts, Grant(g) \/ Expire(g) PROVE BooksOne
  BY <1>3 DEF Grant, Expire, BooksOne, creditVars
<1>4. CASE UNCHANGED vars
  BY <1>4 DEF vars, creditVars, BooksOne
<1> QED
  BY <1>1, <1>2, <1>3, <1>4 DEF Next, AccountStep

\* The rows of a merge are the source's two, which were free, or none.
LEMMA MergeRows ==
    ASSUME TypeOK, LedgerInv, NEW d \in Accounts, NEW s \in Accounts, MergeAccounts(d, s)
    PROVE  /\ \A ref \in Refs \ {MergeOutRef(s), MergeInRef(s)} : ledger'[ref] = ledger[ref]
           /\ ledger[MergeOutRef(s)] = NoRow /\ ledger[MergeInRef(s)] = NoRow
<1>1. canon[s] = s /\ MoveBalance(d, s) /\ ledger \in [Refs -> Rows]
  BY DEF MergeAccounts, MergeAllowed, Retired, TypeOK, CreditTypeOK
<1> QED
  BY <1>1 DEF MoveBalance, LedgerInv, Retired

(***************************************************************************)
(* The ledger is append-only: a used ref is never written again, whatever  *)
(* is retried, swept, refunded or merged.                                  *)
(***************************************************************************)
THEOREM LedgerOnlyGrows == Spec => LedgerIsAppendOnly
<1>1. IInv /\ LedgerInv /\ [Next]_vars => [\A ref \in Refs : ledger[ref] # NoRow => ledger'[ref] = ledger[ref]]_vars
  <2> SUFFICES ASSUME IInv, LedgerInv, [Next]_vars, NEW ref \in Refs, ledger[ref] # NoRow
               PROVE  ledger'[ref] = ledger[ref]
    OBVIOUS
  <2>0. TypeOK /\ ledger \in [Refs -> Rows]
    BY DEF IInv, TypeOK, CreditTypeOK
  <2>1. CASE BooksOne
    BY <2>0, <2>1 DEF BooksOne, Booked
  <2>2. CASE \E d, s \in Accounts : MergeAccounts(d, s)
    <3> PICK d \in Accounts, s \in Accounts : MergeAccounts(d, s)
      BY <2>2
    <3> QED
      BY <2>0, MergeRows
  <2> QED
    BY <2>1, <2>2, StepBooks
<1>2. Init => LedgerInv
  BY LedgerStarts
<1>3. IInv /\ LedgerInv /\ [Next]_vars => LedgerInv'
  BY LedgerKept
<1> QED
  BY <1>1, <1>2, <1>3, Inductive, PTL DEF Spec, LedgerIsAppendOnly

\* What is credited, and what the rows of the jobs come to, with e of each ref.
Credits(e) == [t \in TopUps |-> e[TopUpRef(t)]]
JobSums(e) == [j \in Jobs |-> e[OpeningRef(j)] + e[HoldRef(j)] + e[RefundRef(j)] + e[ExtraRef(j)]]

\* All balances together are the credits and the jobs' rows.
Conserves(b, e) == SumOf(b, Accounts) = SumOf(Credits(e), TopUps) + SumOf(JobSums(e), Jobs)

DeltaOf(l)     == [ref \in Refs |-> l[ref].delta]
FundedPartOf(l) == [ref \in Refs |-> l[ref].funded]

ConservesBoth(b, f, l) == Conserves(b, DeltaOf(l)) /\ Conserves(f, FundedPartOf(l))

\* A ref is a top-up's, a job's or a merge's.
LEMMA RefIs ==
    /\ \A ref \in Refs : ref[1] \notin {"out", "in"} =>
         \/ \E t \in TopUps : ref = TopUpRef(t)
         \/ \E j \in Jobs : ref \in {OpeningRef(j), HoldRef(j), RefundRef(j), ExtraRef(j)}
    /\ \A j \in Jobs : OpeningRef(j) \in Refs
BY DEF Refs, JobRefs, TopUpRef, OpeningRef, HoldRef, RefundRef, ExtraRef

LEMMA SumsTyped ==
    ASSUME NEW e, Numbers(e, Refs)
    PROVE  Numbers(Credits(e), TopUps) /\ Numbers(JobSums(e), Jobs)
<1>1. /\ \A t \in TopUps : e[TopUpRef(t)] \in Int
      /\ \A j \in Jobs : /\ e[OpeningRef(j)] \in Int /\ e[HoldRef(j)] \in Int
                         /\ e[RefundRef(j)] \in Int /\ e[ExtraRef(j)] \in Int
  BY RefsTyped, RefIs DEF Numbers
<1> QED
  BY <1>1 DEF Numbers, Credits, JobSums

\* A new row adds the same to both sides.
LEMMA RowConserves ==
    ASSUME NEW b \in [Accounts -> Int], NEW e, NEW k, Numbers(e, Refs), Numbers(k, Refs), Conserves(b, e),
           NEW ref \in Refs, ref[1] \notin {"out", "in"}, NEW x \in Accounts, NEW d \in Int,
           e[ref] = 0, k[ref] = d, \A r \in Refs \ {ref} : k[r] = e[r],
           NEW bb \in [Accounts -> Int], bb[x] = b[x] + d, \A y \in Accounts \ {x} : bb[y] = b[y]
    PROVE  Conserves(bb, k)
<1>1. SumOf(bb, Accounts) = SumOf(b, Accounts) + d /\ SumOf(b, Accounts) \in Int
  <2>1. Numbers(b, Accounts) /\ Numbers(bb, Accounts)
    BY DEF Numbers
  <2>2. SumOf(bb, Accounts) = SumOf(b, Accounts) + bb[x] - b[x]
    BY <2>1, SumChange
  <2>3. SumOf(b, Accounts) \in Int /\ b[x] \in Int
    BY <2>1, SumTyped
  <2> QED
    BY <2>2, <2>3
<1>2. /\ Numbers(Credits(e), TopUps) /\ Numbers(Credits(k), TopUps)
      /\ Numbers(JobSums(e), Jobs) /\ Numbers(JobSums(k), Jobs)
  BY SumsTyped
<1>3. /\ SumOf(Credits(e), TopUps) \in Int /\ SumOf(Credits(k), TopUps) \in Int
      /\ SumOf(JobSums(e), Jobs) \in Int /\ SumOf(JobSums(k), Jobs) \in Int
  BY <1>2, SumTyped
<1>4. ASSUME NEW t \in TopUps, ref = TopUpRef(t) PROVE Conserves(bb, k)
  <2>1. \A j \in Jobs : ref \notin {OpeningRef(j), HoldRef(j), RefundRef(j), ExtraRef(j)}
    BY <1>4 DEF TopUpRef, OpeningRef, HoldRef, RefundRef, ExtraRef
  <2>2. \A j \in Jobs : JobSums(k)[j] = JobSums(e)[j]
    <3> SUFFICES ASSUME NEW j \in Jobs PROVE JobSums(k)[j] = JobSums(e)[j]
      OBVIOUS
    <3>1. /\ k[OpeningRef(j)] = e[OpeningRef(j)] /\ k[HoldRef(j)] = e[HoldRef(j)]
          /\ k[RefundRef(j)] = e[RefundRef(j)] /\ k[ExtraRef(j)] = e[ExtraRef(j)]
      BY <2>1, RefsTyped, RefIs
    <3> QED
      BY <3>1 DEF JobSums
  <2>3. SumOf(JobSums(k), Jobs) = SumOf(JobSums(e), Jobs)
    BY <1>2, <2>2, SumAlike
  <2>4. ASSUME NEW s \in TopUps \ {t} PROVE Credits(k)[s] = Credits(e)[s]
    <3>1. TopUpRef(s) \in Refs /\ TopUpRef(s) # ref
      BY <1>4, RefsTyped DEF TopUpRef
    <3>2. k[TopUpRef(s)] = e[TopUpRef(s)]
      BY <3>1
    <3> QED
      BY <3>2 DEF Credits
  <2>5. Credits(k)[t] = d /\ Credits(e)[t] = 0
    BY <1>4 DEF Credits
  <2>6. SumOf(Credits(k), TopUps) = SumOf(Credits(e), TopUps) + Credits(k)[t] - Credits(e)[t]
    BY <1>2, <2>4, SumChange
  <2> QED
    BY <1>1, <1>3, <2>3, <2>5, <2>6 DEF Conserves
<1>5. ASSUME NEW j \in Jobs, ref \in {OpeningRef(j), HoldRef(j), RefundRef(j), ExtraRef(j)} PROVE Conserves(bb, k)
  <2>1. \A t \in TopUps : TopUpRef(t) # ref
    BY <1>5 DEF TopUpRef, OpeningRef, HoldRef, RefundRef, ExtraRef
  <2>2. \A t \in TopUps : Credits(k)[t] = Credits(e)[t]
    BY <2>1, RefsTyped DEF Credits
  <2>3. SumOf(Credits(k), TopUps) = SumOf(Credits(e), TopUps)
    BY <1>2, <2>2, SumAlike
  <2>4. ASSUME NEW i \in Jobs \ {j} PROVE JobSums(k)[i] = JobSums(e)[i]
    <3>1. ref \notin {OpeningRef(i), HoldRef(i), RefundRef(i), ExtraRef(i)}
      BY <1>5, <2>4 DEF OpeningRef, HoldRef, RefundRef, ExtraRef
    <3>2. /\ k[OpeningRef(i)] = e[OpeningRef(i)] /\ k[HoldRef(i)] = e[HoldRef(i)]
          /\ k[RefundRef(i)] = e[RefundRef(i)] /\ k[ExtraRef(i)] = e[ExtraRef(i)]
      BY <3>1, RefsTyped, RefIs
    <3> QED
      BY <3>2 DEF JobSums
  <2>5. JobSums(k)[j] = JobSums(e)[j] + d
    <3>1. /\ OpeningRef(j) # HoldRef(j) /\ OpeningRef(j) # RefundRef(j) /\ OpeningRef(j) # ExtraRef(j)
          /\ HoldRef(j) # RefundRef(j) /\ HoldRef(j) # ExtraRef(j) /\ RefundRef(j) # ExtraRef(j)
      BY DEF OpeningRef, HoldRef, RefundRef, ExtraRef
    <3>2. /\ e[OpeningRef(j)] \in Int /\ e[HoldRef(j)] \in Int
          /\ e[RefundRef(j)] \in Int /\ e[ExtraRef(j)] \in Int
      BY RefsTyped, RefIs DEF Numbers
    <3>3. \A r \in {OpeningRef(j), HoldRef(j), RefundRef(j), ExtraRef(j)} :
            k[r] = e[r] + (IF r = ref THEN d ELSE 0)
      <4>1. \A r \in {OpeningRef(j), HoldRef(j), RefundRef(j), ExtraRef(j)} : r \in Refs /\ e[r] \in Int
        BY <3>2, RefsTyped, RefIs
      <4> QED
        BY <4>1
    <3>4. /\ JobSums(k)[j] = k[OpeningRef(j)] + k[HoldRef(j)] + k[RefundRef(j)] + k[ExtraRef(j)]
          /\ JobSums(e)[j] = e[OpeningRef(j)] + e[HoldRef(j)] + e[RefundRef(j)] + e[ExtraRef(j)]
      BY DEF JobSums
    <3> QED
      BY <1>5, <3>1, <3>2, <3>3, <3>4
  <2>6. JobSums(e)[j] \in Int
    BY <1>2 DEF Numbers
  <2>7. SumOf(JobSums(k), Jobs) = SumOf(JobSums(e), Jobs) + JobSums(k)[j] - JobSums(e)[j]
    BY <1>2, <2>4, SumChange
  <2> QED
    BY <1>1, <1>3, <2>3, <2>5, <2>6, <2>7 DEF Conserves
<1> QED
  BY <1>4, <1>5, RefIs

\* A merge moves a balance and leaves the rows of top-ups and jobs alone.
NotMerges == {ref \in Refs : ref[1] \notin {"out", "in"}}

Agree(k, e) == \A r \in NotMerges : k[r] = e[r]

Moved(n, b, d, s) ==
    n[s] = 0 /\ n[d] = b[d] + b[s] /\ \A x \in Accounts \ {d, s} : n[x] = b[x]

LEMMA MoveConserves ==
    ASSUME NEW b \in [Accounts -> Int], NEW e, NEW k, Numbers(e, Refs), Numbers(k, Refs), Conserves(b, e),
           NEW d \in Accounts, NEW s \in Accounts, d # s,
           Agree(k, e), NEW n \in [Accounts -> Int], Moved(n, b, d, s)
    PROVE  Conserves(n, k)
<1>1. SumOf(n, Accounts) = SumOf(b, Accounts)
  <2>1. Numbers(b, Accounts) /\ Numbers(n, Accounts)
    BY DEF Numbers
  <2>2. SumOf(n, Accounts) = SumOf(b, Accounts) + (n[d] - b[d]) + (n[s] - b[s])
    <3>1. \A x \in Accounts : x = d \/ x = s \/ n[x] = b[x]
      BY DEF Moved
    <3> QED
      BY <2>1, <3>1, SumMoves
  <2>3. SumOf(b, Accounts) \in Int /\ b[s] \in Int /\ b[d] \in Int
    BY <2>1, SumTyped
  <2> QED
    BY <2>2, <2>3 DEF Moved
<1>2. Numbers(Credits(e), TopUps) /\ Numbers(JobSums(e), Jobs)
  BY SumsTyped
<1>3. /\ \A t \in TopUps : k[TopUpRef(t)] = e[TopUpRef(t)]
      /\ \A j \in Jobs : /\ k[OpeningRef(j)] = e[OpeningRef(j)] /\ k[HoldRef(j)] = e[HoldRef(j)]
                         /\ k[RefundRef(j)] = e[RefundRef(j)] /\ k[ExtraRef(j)] = e[ExtraRef(j)]
  <2>1. /\ \A t \in TopUps : TopUpRef(t)[1] = "topup"
        /\ \A j \in Jobs : /\ OpeningRef(j)[1] = "opening" /\ HoldRef(j)[1] = "hold"
                           /\ RefundRef(j)[1] = "refund" /\ ExtraRef(j)[1] = "extra"
    BY DEF TopUpRef, OpeningRef, HoldRef, RefundRef, ExtraRef
  <2> QED
    BY <2>1, RefsTyped, RefIs DEF NotMerges, Agree
<1>4. /\ \A t \in TopUps : Credits(k)[t] = Credits(e)[t]
      /\ \A j \in Jobs : JobSums(k)[j] = JobSums(e)[j]
  BY <1>3 DEF Credits, JobSums
<1>5. SumOf(Credits(k), TopUps) = SumOf(Credits(e), TopUps) /\ SumOf(JobSums(k), Jobs) = SumOf(JobSums(e), Jobs)
  BY <1>2, <1>4, SumAlike
<1> QED
  BY <1>1, <1>5 DEF Conserves

\* Deltas and funded parts are numbers, and a row sets its own.
LEMMA PartsOf ==
    ASSUME NEW l \in [Refs -> Rows]
    PROVE  Numbers(DeltaOf(l), Refs) /\ Numbers(FundedPartOf(l), Refs)
BY DEF Numbers, DeltaOf, FundedPartOf, Rows

LEMMA BothStart == ASSUME Init PROVE ConservesBoth(balance, funded, ledger)
<1>1. /\ balance = [a \in Accounts |-> 0] /\ funded = [a \in Accounts |-> 0]
      /\ ledger = [ref \in Refs |-> OpeningRow(ref)]
  BY DEF Init
<1>2. SumOf(balance, Accounts) = 0 /\ SumOf(funded, Accounts) = 0
  BY <1>1, SumZero
<1>3. /\ \A t \in TopUps : ledger[TopUpRef(t)] = NoRow
      /\ \A j \in Jobs : ledger[RefundRef(j)] = NoRow /\ ledger[ExtraRef(j)] = NoRow
  BY <1>1, RefsTyped DEF OpeningRow, TopUpRef, RefundRef, ExtraRef
<1>4. ASSUME NEW j \in Jobs
      PROVE  /\ ledger[OpeningRef(j)] = IF j \in Legacy THEN Row(Owner[j], Cost[j], 0) ELSE NoRow
             /\ ledger[HoldRef(j)] = IF j \in Legacy THEN Row(Owner[j], -Cost[j], 0) ELSE NoRow
  BY <1>1, RefsTyped, RefIs DEF OpeningRow, OpeningRef, HoldRef
<1>5. /\ NoRow.delta = 0 /\ NoRow.funded = 0
      /\ \A a, d, f : Row(a, d, f).delta = d /\ Row(a, d, f).funded = f
  BY DEF NoRow, Row
<1>6. /\ \A t \in TopUps : ledger[TopUpRef(t)].delta = 0 /\ ledger[TopUpRef(t)].funded = 0
      /\ \A j \in Jobs : /\ ledger[RefundRef(j)].delta = 0 /\ ledger[ExtraRef(j)].delta = 0
                         /\ ledger[RefundRef(j)].funded = 0 /\ ledger[ExtraRef(j)].funded = 0
  BY <1>3, <1>5
<1>7. \A j \in Jobs : /\ ledger[OpeningRef(j)].delta + ledger[HoldRef(j)].delta = 0
                      /\ ledger[OpeningRef(j)].delta \in Int /\ ledger[HoldRef(j)].delta \in Int
                      /\ ledger[OpeningRef(j)].funded = 0 /\ ledger[HoldRef(j)].funded = 0
  <2> SUFFICES ASSUME NEW j \in Jobs
               PROVE  /\ ledger[OpeningRef(j)].delta + ledger[HoldRef(j)].delta = 0
                      /\ ledger[OpeningRef(j)].delta \in Int /\ ledger[HoldRef(j)].delta \in Int
                      /\ ledger[OpeningRef(j)].funded = 0 /\ ledger[HoldRef(j)].funded = 0
    OBVIOUS
  <2>1. Cost[j] \in Int
    OBVIOUS
  <2>2. CASE j \in Legacy
    BY <1>4, <1>5, <2>1, <2>2
  <2>3. CASE j \notin Legacy
    BY <1>4, <1>5, <2>1, <2>3
  <2> QED
    BY <2>2, <2>3
<1>8. ASSUME NEW e, NEW n, e = [ref \in Refs |-> n[ref]],
             \A t \in TopUps : n[TopUpRef(t)] = 0,
             \A j \in Jobs : /\ n[OpeningRef(j)] + n[HoldRef(j)] = 0
                             /\ n[OpeningRef(j)] \in Int /\ n[HoldRef(j)] \in Int
                             /\ n[RefundRef(j)] = 0 /\ n[ExtraRef(j)] = 0
      PROVE  SumOf(Credits(e), TopUps) = 0 /\ SumOf(JobSums(e), Jobs) = 0
  <2>1. /\ \A t \in TopUps : e[TopUpRef(t)] = n[TopUpRef(t)]
        /\ \A j \in Jobs : /\ e[OpeningRef(j)] = n[OpeningRef(j)] /\ e[HoldRef(j)] = n[HoldRef(j)]
                           /\ e[RefundRef(j)] = n[RefundRef(j)] /\ e[ExtraRef(j)] = n[ExtraRef(j)]
    BY <1>8, RefsTyped, RefIs
  <2>2. \A t \in TopUps : Credits(e)[t] = 0
    BY <1>8, <2>1 DEF Credits
  <2>3. \A j \in Jobs : JobSums(e)[j] = 0
    BY <1>8, <2>1 DEF JobSums
  <2> QED
    BY <2>2, <2>3, SumZero
<1>9. Conserves(balance, DeltaOf(ledger))
  <2> DEFINE n == [ref \in Refs |-> ledger[ref].delta]
  <2>1. DeltaOf(ledger) = [ref \in Refs |-> n[ref]]
    BY DEF DeltaOf
  <2>2. \A ref \in Refs : n[ref] = ledger[ref].delta
    OBVIOUS
  <2> HIDE DEF n
  <2>3. \A t \in TopUps : n[TopUpRef(t)] = 0
    BY <1>6, <2>2, RefsTyped
  <2>4. \A j \in Jobs : /\ n[OpeningRef(j)] + n[HoldRef(j)] = 0
                        /\ n[OpeningRef(j)] \in Int /\ n[HoldRef(j)] \in Int
                        /\ n[RefundRef(j)] = 0 /\ n[ExtraRef(j)] = 0
    BY <1>6, <1>7, <2>2, RefsTyped, RefIs
  <2>5. SumOf(Credits(DeltaOf(ledger)), TopUps) = 0 /\ SumOf(JobSums(DeltaOf(ledger)), Jobs) = 0
    BY <1>8, <2>1, <2>3, <2>4
  <2> QED
    BY <1>2, <2>5 DEF Conserves
<1>10. Conserves(funded, FundedPartOf(ledger))
  <2> DEFINE n == [ref \in Refs |-> ledger[ref].funded]
  <2>1. FundedPartOf(ledger) = [ref \in Refs |-> n[ref]]
    BY DEF FundedPartOf
  <2>2. \A ref \in Refs : n[ref] = ledger[ref].funded
    OBVIOUS
  <2> HIDE DEF n
  <2>3. \A t \in TopUps : n[TopUpRef(t)] = 0
    BY <1>6, <2>2, RefsTyped
  <2>4. \A j \in Jobs : /\ n[OpeningRef(j)] + n[HoldRef(j)] = 0
                        /\ n[OpeningRef(j)] \in Int /\ n[HoldRef(j)] \in Int
                        /\ n[RefundRef(j)] = 0 /\ n[ExtraRef(j)] = 0
    BY <1>6, <1>7, <2>2, RefsTyped, RefIs
  <2>5. SumOf(Credits(FundedPartOf(ledger)), TopUps) = 0 /\ SumOf(JobSums(FundedPartOf(ledger)), Jobs) = 0
    BY <1>8, <2>1, <2>3, <2>4
  <2> QED
    BY <1>2, <2>5 DEF Conserves
<1> QED
  BY <1>9, <1>10 DEF ConservesBoth

LEMMA RowKeepsBoth ==
    ASSUME NEW b \in [Accounts -> Int], NEW f \in [Accounts -> Int], NEW l \in [Refs -> Rows],
           ConservesBoth(b, f, l), NEW ref \in Refs, ref[1] \notin {"out", "in"}, l[ref] = NoRow,
           NEW x \in Accounts, NEW d \in Int, NEW fd \in Int
    PROVE  ConservesBoth([b EXCEPT ![x] = @ + d], [f EXCEPT ![x] = @ + fd], [l EXCEPT ![ref] = Row(x, d, fd)])
<1> DEFINE k == [l EXCEPT ![ref] = Row(x, d, fd)]
<1>1. /\ Row(x, d, fd) \in Rows /\ Row(x, d, fd).delta = d /\ Row(x, d, fd).funded = fd
      /\ NoRow.delta = 0 /\ NoRow.funded = 0
  BY RowTyped DEF Row, NoRow
<1>2. k \in [Refs -> Rows] /\ k[ref] = Row(x, d, fd) /\ \A r \in Refs \ {ref} : k[r] = l[r]
  BY <1>1
<1> HIDE DEF k
<1>3. /\ Numbers(DeltaOf(l), Refs) /\ Numbers(DeltaOf(k), Refs)
      /\ Numbers(FundedPartOf(l), Refs) /\ Numbers(FundedPartOf(k), Refs)
  BY <1>2, PartsOf
<1>4. DeltaOf(l)[ref] = 0 /\ DeltaOf(k)[ref] = d /\ \A r \in Refs \ {ref} : DeltaOf(k)[r] = DeltaOf(l)[r]
  BY <1>1, <1>2 DEF DeltaOf
<1>5. /\ FundedPartOf(l)[ref] = 0 /\ FundedPartOf(k)[ref] = fd
      /\ \A r \in Refs \ {ref} : FundedPartOf(k)[r] = FundedPartOf(l)[r]
  BY <1>1, <1>2 DEF FundedPartOf
<1>6. Conserves(b, DeltaOf(l)) /\ Conserves(f, FundedPartOf(l))
  BY DEF ConservesBoth
<1> DEFINE bb == [b EXCEPT ![x] = @ + d]
           ff == [f EXCEPT ![x] = @ + fd]
<1>7. /\ bb \in [Accounts -> Int] /\ bb[x] = b[x] + d /\ \A y \in Accounts \ {x} : bb[y] = b[y]
      /\ ff \in [Accounts -> Int] /\ ff[x] = f[x] + fd /\ \A y \in Accounts \ {x} : ff[y] = f[y]
  OBVIOUS
<1> HIDE DEF bb, ff
<1>8. Conserves(bb, DeltaOf(k))
  BY <1>3, <1>4, <1>6, <1>7, RowConserves
<1>9. Conserves(ff, FundedPartOf(k))
  BY <1>3, <1>5, <1>6, <1>7, RowConserves
<1> QED
  BY <1>8, <1>9 DEF ConservesBoth, k, bb, ff

LEMMA MoveKeepsBoth ==
    ASSUME NEW b \in [Accounts -> Int], NEW f \in [Accounts -> Int], NEW l \in [Refs -> Rows],
           ConservesBoth(b, f, l), NEW d \in Accounts, NEW s \in Accounts, d # s,
           NEW k \in [Refs -> Rows], \A r \in NotMerges : k[r] = l[r]
    PROVE  ConservesBoth([b EXCEPT ![d] = @ + b[s], ![s] = 0], [f EXCEPT ![d] = @ + f[s], ![s] = 0], k)
<1> DEFINE bb == [b EXCEPT ![d] = @ + b[s], ![s] = 0]
           ff == [f EXCEPT ![d] = @ + f[s], ![s] = 0]
           e  == DeltaOf(l)
           g  == DeltaOf(k)
           p  == FundedPartOf(l)
           q  == FundedPartOf(k)
<1>1. Numbers(e, Refs) /\ Numbers(g, Refs) /\ Numbers(p, Refs) /\ Numbers(q, Refs)
  BY PartsOf
<1>2. Conserves(b, e) /\ Conserves(f, p)
  BY DEF ConservesBoth
<1>3. Agree(g, e) /\ Agree(q, p)
  BY DEF Agree, NotMerges, DeltaOf, FundedPartOf
<1>4. bb \in [Accounts -> Int] /\ Moved(bb, b, d, s)
  BY DEF Moved
<1>5. ff \in [Accounts -> Int] /\ Moved(ff, f, d, s)
  BY DEF Moved
<1> HIDE DEF bb, ff, e, g, p, q
<1>8. Conserves(bb, g)
  BY <1>1, <1>2, <1>3, <1>4, MoveConserves
<1>9. Conserves(ff, q)
  BY <1>1, <1>2, <1>3, <1>5, MoveConserves
<1> QED
  BY <1>8, <1>9 DEF ConservesBoth, bb, ff, g, q

LEMMA BothKept ==
    ASSUME IInv, LedgerInv, [Next]_vars, ConservesBoth(balance, funded, ledger)
    PROVE  ConservesBoth(balance', funded', ledger')
<1>1. balance \in [Accounts -> Int] /\ funded \in [Accounts -> Int] /\ ledger \in [Refs -> Rows] /\ TypeOK
  BY DEF IInv, TypeOK, CreditTypeOK
<1>2. CASE BooksOne
  <2>1. CASE UNCHANGED <<balance, funded, ledger>>
    BY <2>1
  <2>2. ASSUME NEW ref \in Refs, NEW x \in Accounts, NEW d \in Int, NEW f \in Int, Booked(ref, x, d, f)
        PROVE  ConservesBoth(balance', funded', ledger')
    <3>1. /\ ref[1] \notin {"out", "in"} /\ ledger[ref] = NoRow
          /\ ledger' = [ledger EXCEPT ![ref] = Row(x, d, f)]
          /\ balance' = [balance EXCEPT ![x] = @ + d] /\ funded' = [funded EXCEPT ![x] = @ + f]
      BY <2>2 DEF Booked
    <3>2. ConservesBoth([balance EXCEPT ![x] = @ + d], [funded EXCEPT ![x] = @ + f],
                        [ledger EXCEPT ![ref] = Row(x, d, f)])
      BY <1>1, <3>1, RowKeepsBoth
    <3> QED
      BY <3>1, <3>2
  <2> QED
    BY <1>2, <2>1, <2>2 DEF BooksOne
<1>3. CASE \E d, s \in Accounts : MergeAccounts(d, s)
  <2> PICK d \in Accounts, s \in Accounts : MergeAccounts(d, s)
    BY <1>3
  <2>1. d # s /\ MoveBalance(d, s)
    BY DEF MergeAccounts, MergeAllowed
  <2>2. \A r \in Refs \ {MergeOutRef(s), MergeInRef(s)} : ledger'[r] = ledger[r]
    BY <1>1, MergeRows
  <2>3. ledger' \in [Refs -> Rows]
    <3>1. TypeOK'
      BY NextSafe DEF IInv
    <3> QED
      BY <3>1 DEF TypeOK, CreditTypeOK
  <2>4. \A r \in NotMerges : ledger'[r] = ledger[r]
    BY <2>2 DEF NotMerges, MergeOutRef, MergeInRef
  <2>5. CASE balance[s] > 0
    <3>1. /\ balance' = [balance EXCEPT ![d] = @ + balance[s], ![s] = 0]
          /\ funded' = [funded EXCEPT ![d] = @ + funded[s], ![s] = 0]
      BY <2>1, <2>5 DEF MoveBalance
    <3>2. ConservesBoth([balance EXCEPT ![d] = @ + balance[s], ![s] = 0],
                        [funded EXCEPT ![d] = @ + funded[s], ![s] = 0], ledger')
      BY <1>1, <2>1, <2>3, <2>4, MoveKeepsBoth
    <3> QED
      BY <3>1, <3>2
  <2>6. CASE ~(balance[s] > 0)
    BY <2>1, <2>6 DEF MoveBalance
  <2> QED
    BY <2>5, <2>6
<1> QED
  BY <1>2, <1>3, StepBooks

LEMMA BothMatch == ASSUME TypeOK PROVE ConservesBoth(balance, funded, ledger) <=> MoneyConserved
<1> DEFINE d == DeltaOf(ledger)
           f == FundedPartOf(ledger)
           ct == [t \in TopUps |-> ledger[TopUpRef(t)].delta]
           cf == [t \in TopUps |-> ledger[TopUpRef(t)].funded]
           jd == [j \in Jobs |-> JobDelta(j)]
           jf == [j \in Jobs |-> JobFunded(j)]
<1>1. MoneyConserved <=>
        /\ SumOf(balance, Accounts) = SumOf(ct, TopUps) + SumOf(jd, Jobs)
        /\ SumOf(funded, Accounts) = SumOf(cf, TopUps) + SumOf(jf, Jobs)
  BY DEF MoneyConserved, SumFunctionOnSet, FoldFunctionOnSet, SumOf, MapThenSumSet, MapThenFoldSet
<1>2. ledger \in [Refs -> Rows]
  BY DEF TypeOK, CreditTypeOK
<1>3. /\ \A t \in TopUps : d[TopUpRef(t)] = ledger[TopUpRef(t)].delta /\ f[TopUpRef(t)] = ledger[TopUpRef(t)].funded
      /\ \A j \in Jobs : \A ref \in {OpeningRef(j), HoldRef(j), RefundRef(j), ExtraRef(j)} :
           d[ref] = ledger[ref].delta /\ f[ref] = ledger[ref].funded /\ ledger[ref].delta \in Int
  BY <1>2, RefsTyped, RefIs DEF DeltaOf, FundedPartOf, Rows
<1> HIDE DEF d, f
<1>4. Credits(d) = ct /\ Credits(f) = cf
  BY <1>3 DEF Credits
<1>5. JobSums(d) = jd
  <2>1. ASSUME NEW j \in Jobs
        PROVE  JobDelta(j) = d[OpeningRef(j)] + d[HoldRef(j)] + d[RefundRef(j)] + d[ExtraRef(j)]
    BY <1>3 DEF JobDelta, Net
  <2> QED
    BY <2>1 DEF JobSums
<1>6. JobSums(f) = jf
  BY <1>3 DEF JobSums, JobFunded
<1>7. ConservesBoth(balance, funded, ledger) <=> Conserves(balance, d) /\ Conserves(funded, f)
  BY DEF ConservesBoth, d, f
<1> HIDE DEF ct, cf, jd, jf
<1> QED
  BY <1>1, <1>4, <1>5, <1>6, <1>7 DEF Conserves

LEMMA BothMatchNext == ASSUME TypeOK' PROVE ConservesBoth(balance', funded', ledger') <=> MoneyConserved'
<1>1. TypeOK' => (ConservesBoth(balance, funded, ledger)' <=> MoneyConserved')
  BY BothMatch, PTL
<1>2. ConservesBoth(balance, funded, ledger)' <=> ConservesBoth(balance', funded', ledger')
  BY DEF ConservesBoth, Conserves, DeltaOf, FundedPartOf, Credits, JobSums
<1> QED
  BY <1>1, <1>2

(***************************************************************************)
(* No credit is created or lost, spendable or funded: over all accounts    *)
(* together, what is left is what was credited less what the jobs cost,    *)
(* in any order of holds, settlements, refunds, sweeps and merges.         *)
(***************************************************************************)
THEOREM MoneyIsConserved == Spec => []MoneyConserved
<1>1. Init => MoneyConserved
  BY InitTyped, BothStart, BothMatch
<1>2. IInv /\ LedgerInv /\ MoneyConserved /\ [Next]_vars => MoneyConserved'
  <2> SUFFICES ASSUME IInv, LedgerInv, MoneyConserved, [Next]_vars PROVE MoneyConserved'
    OBVIOUS
  <2>1. TypeOK /\ TypeOK'
    BY NextSafe DEF IInv
  <2> QED
    BY <2>1, BothMatch, BothMatchNext, BothKept
<1>3. Init => LedgerInv
  BY LedgerStarts
<1>4. IInv /\ LedgerInv /\ [Next]_vars => LedgerInv'
  BY LedgerKept
<1> QED
  BY <1>1, <1>2, <1>3, <1>4, Inductive, PTL DEF Spec

-----------------------------------------------------------------------------
(***************************************************************************)
(* The promotional pocket.                                                 *)
(***************************************************************************)
\* What the invariant says of one job, and what it depends on.
PocketJob(j) ==
    /\ SpendInv(j) /\ DrawInv(j) /\ RootInv(j) /\ PartInv(j) /\ ExactInv(j)
    /\ j \notin Retryable => OnceInv(j)

SameJob(i) ==
    /\ spends'[i] = spends[i] /\ req'[i] = req[i] /\ res'[i] = res[i]
    /\ after'[i] = after[i] /\ promoSweep'[i] = promoSweep[i] /\ (i \in aged' <=> i \in aged)

LEMMA PocketJobs == PocketInv <=> GrantsInv /\ \A j \in Jobs : PocketJob(j)
BY DEF PocketInv, PocketJob

LEMMA PocketFrame ==
    ASSUME NEW i \in Jobs, PocketJob(i), SameJob(i), canon' = canon
    PROVE  PocketJob(i)'
BY DEF PocketJob, SameJob, SpendInv, DrawInv, RootInv, PartInv, ExactInv, OnceInv, Held, PaidHeld, Retired

\* Owners and states of grants stay, and spends stay with their grants.
GrantsStay ==
    /\ canon' = canon
    /\ \A g \in Accounts : grants'[g].status = grants[g].status /\ grants'[g].owner = grants[g].owner
    /\ \A i \in Jobs : spends'[i].grant = spends[i].grant

LEMMA GrantsFrame == ASSUME GrantsInv, GrantsStay PROVE GrantsInv'
BY DEF GrantsInv, GrantsStay, Owned, Retired

LEMMA OnePocketMoves ==
    ASSUME PocketInv, NEW j \in Jobs, canon' = canon, GrantsInv',
           \A i \in Jobs \ {j} : SameJob(i), PocketJob(j)'
    PROVE  PocketInv'
<1>1. \A i \in Jobs : PocketJob(i)'
  BY PocketJobs, PocketFrame
<1> QED
  BY <1>1 DEF PocketInv, PocketJob

LEMMA PocketsRest ==
    ASSUME PocketInv, UNCHANGED <<canon, grants, spends, req, res, after, promoSweep, aged>>
    PROVE  PocketInv'
<1>1. \A j \in Jobs : PocketJob(j)'
  BY PocketJobs, PocketFrame DEF SameJob
<1>2. GrantsInv'
  BY GrantsFrame DEF GrantsStay, PocketInv
<1> QED
  BY <1>1, <1>2 DEF PocketInv, PocketJob

LEMMA JobTyped ==
    ASSUME TypeOK
    PROVE  /\ req \in [Jobs -> Requests] /\ res \in [Jobs -> Holds] /\ spends \in [Jobs -> Spends]
           /\ after \in [Jobs -> Int] /\ promoSweep \in [Jobs -> Int] /\ grants \in [Accounts -> Grants]
           /\ canon \in [Accounts -> Accounts]
BY DEF TypeOK, ReservationTypeOK, PromoTypeOK, CreditTypeOK

\* Steps of a request that draw and hold nothing.
LEMMA RequestPockets ==
    ASSUME IInv, PocketInv, NEW j \in Jobs,
           \/ Request(j) \/ RequestUncharged(j) \/ DrawFails(j) \/ HoldRefused(j) \/ RequestCrash(j)
    PROVE  PocketInv'
<1>1. UNCHANGED <<canon, grants, spends, res, after, promoSweep, aged>> /\ \E r : req' = [req EXCEPT ![j] = r]
  <2>1. CASE Request(j) \/ RequestUncharged(j)
    BY <2>1 DEF Request, RequestUncharged, creditVars, promoVars
  <2>2. CASE DrawFails(j) \/ HoldRefused(j) \/ RequestCrash(j)
    BY <2>2 DEF DrawFails, HoldRefused, RequestCrash, creditVars, promoVars
  <2> QED
    BY <2>1, <2>2
<1>2. \A i \in Jobs \ {j} : SameJob(i)
  BY <1>1, JobTyped DEF SameJob, IInv
<1>3. GrantsInv'
  BY <1>1, GrantsFrame DEF GrantsStay, PocketInv
<1>4. PocketJob(j) /\ RequestInv(j)
  BY PocketJobs DEF IInv
<1>5. req \in [Jobs -> Requests] /\ req[j] \in Requests
  BY JobTyped DEF IInv
<1>6. CASE Request(j)
  <2>1. req'[j] = [stage |-> "drawing", account |-> canon[Owner[j]], draw |-> 0, tries |-> req[j].tries + 1]
        /\ req[j].stage = "idle" /\ (j \in Retryable => ~Retired(Owner[j]))
    BY <1>5, <1>6 DEF Request
  <2>2. SpendInv(j)' /\ DrawInv(j)' /\ PartInv(j)' /\ ExactInv(j)'
    BY <1>1, <1>4, <2>1 DEF PocketJob, SpendInv, DrawInv, PartInv, ExactInv
  <2>3. RootInv(j)'
    BY <1>1, <1>4, <2>1 DEF PocketJob, RootInv, Retired, Held
  <2>4. j \notin Retryable => OnceInv(j)'
    BY <1>1, <1>4, <2>1 DEF PocketJob, OnceInv, InFlight, Held
  <2>5. PocketJob(j)'
    BY <2>2, <2>3, <2>4 DEF PocketJob
  <2> QED
    BY <1>1, <1>2, <1>3, <2>5, OnePocketMoves
<1>7. CASE ~Request(j)
  <2>1. /\ req'[j].account = req[j].account /\ req'[j].draw = req[j].draw
        /\ \/ req[j].stage = "idle" /\ req'[j].stage = "dispatched" /\ j \notin Retryable
           \/ req[j].stage = "drawing" /\ req'[j].stage = "holding"
           \/ req[j].stage = "holding" /\ req'[j].stage = "undoing"
           \/ req[j].stage \in InFlight /\ req'[j].stage = Ended(j)
    BY <1>5, <1>7 DEF RequestUncharged, DrawFails, HoldRefused, RequestCrash, Requests
  <2>2. SpendInv(j)' /\ PartInv(j)' /\ ExactInv(j)'
    BY <1>1, <1>4 DEF PocketJob, SpendInv, PartInv, ExactInv
  <2>3. DrawInv(j)'
    BY <1>1, <1>4, <2>1 DEF PocketJob, DrawInv, Ended
  <2>4. RootInv(j)'
    BY <1>1, <1>4, <2>1 DEF PocketJob, DrawInv, RootInv, Retired, Held, InFlight, Ended
  <2>5. j \notin Retryable => OnceInv(j)'
    BY <1>1, <1>4, <2>1 DEF PocketJob, OnceInv, InFlight, Held, Ended, RequestInv
  <2>6. PocketJob(j)'
    BY <2>2, <2>3, <2>4, <2>5 DEF PocketJob
  <2> QED
    BY <1>1, <1>2, <1>3, <2>6, OnePocketMoves
<1> QED
  BY <1>6, <1>7

LEMMA DrawPockets ==
    ASSUME IInv, PocketInv, NEW j \in Jobs, DrawPromo(j)
    PROVE  PocketInv'
<1> DEFINE a    == req[j].account
           take == Takes(a, Cost[j])
<1>1. UNCHANGED <<canon, res, after, promoSweep, aged>> /\ req[j].stage = "drawing"
  BY DEF DrawPromo, creditVars
<1>2. /\ PocketJob(j) /\ RequestInv(j) /\ GrantsInv /\ req[j] \in Requests /\ spends[j] \in Spends
      /\ req \in [Jobs -> Requests] /\ spends \in [Jobs -> Spends] /\ grants \in [Accounts -> Grants]
  BY PocketJobs, JobTyped DEF IInv
<1>3. /\ req' = [req EXCEPT ![j].stage = "holding", ![j].draw = Consumed(j, a, Cost[j])]
      /\ Consume(j, a, Cost[j])
  BY DEF DrawPromo
<1>4. /\ req'[j].stage = "holding" /\ req'[j].draw = Consumed(j, a, Cost[j]) /\ req'[j].account = a
      /\ \A i \in Jobs \ {j} : req'[i] = req[i]
  BY <1>2, <1>3 DEF Requests
<1>5. a \in Accounts /\ Cost[j] \in Nat
  BY <1>2 DEF Requests
<1>6. /\ take.amount \in Nat
      /\ (take.grant = NoGrant /\ take.amount = 0) \/ take.grant \in Usable(a)
  BY <1>2, <1>5, TakesIs
<1>7. /\ take.grant # NoGrant => take.grant \in Accounts /\ grants[take.grant].status = "active" /\ ~Retired(a)
      /\ take.grant \in Accounts => take.grant # NoGrant
  BY <1>2, <1>5, <1>6 DEF Usable, Owned, GrantsInv
<1>10. take.grant = NoGrant => take.amount = 0
  BY <1>6, <1>7 DEF Usable, Owned
<1>11. take.amount > 0 => ~Retired(a)
  BY <1>6, <1>7, <1>10
<1> HIDE DEF take
<1>8. CASE spends[j].status # "none"
  <2>1. UNCHANGED <<grants, spends>> /\ req'[j].draw = spends[j].amount
    BY <1>3, <1>4, <1>8 DEF Consume, Consumed
  <2>2. GrantsInv'
    BY <1>1, <1>2, <2>1, GrantsFrame DEF GrantsStay
  <2>3. \A i \in Jobs \ {j} : SameJob(i)
    BY <1>1, <1>4, <2>1 DEF SameJob
  <2>4. j \in Retryable
    BY <1>1, <1>2, <1>8 DEF PocketJob, OnceInv
  <2>5. PocketJob(j)'
    BY <1>1, <1>2, <1>4, <2>1, <2>4
    DEF PocketJob, SpendInv, DrawInv, RootInv, PartInv, ExactInv, RequestInv, InFlight, Held, Retired
  <2> QED
    BY <1>1, <2>2, <2>3, <2>5, OnePocketMoves
<1>9. CASE spends[j].status = "none"
  <2> DEFINE new == [status |-> "held", owner |-> a, grant |-> take.grant, amount |-> take.amount, kept |-> take.amount]
  <2>1. /\ spends' = [spends EXCEPT ![j] = new] /\ req'[j].draw = take.amount
        /\ grants' = IF take.grant = NoGrant THEN grants
                     ELSE [grants EXCEPT ![take.grant].remaining = @ - take.amount]
    BY <1>3, <1>4, <1>9 DEF Consume, Consumed, take
  <2>2. spends'[j] = new /\ \A i \in Jobs \ {j} : spends'[i] = spends[i]
    BY <1>2, <2>1
  <2>3. \A g \in Accounts : grants'[g].status = grants[g].status /\ grants'[g].owner = grants[g].owner
    BY <1>2, <1>7, <2>1 DEF Grants
  <2>4. GrantsInv'
    <3>1. \A b \in Accounts : Owned(b)' = Owned(b) /\ Retired(b)' = Retired(b)
      BY <1>1, <2>3 DEF Owned, Retired
    <3>2. \A i \in Jobs : spends'[i].grant \in Accounts => grants'[spends'[i].grant].status # "none"
      BY <1>2, <1>7, <2>2, <2>3 DEF GrantsInv
    <3> QED
      BY <1>2, <2>3, <3>1, <3>2 DEF GrantsInv
  <2>5. \A i \in Jobs \ {j} : SameJob(i)
    BY <1>1, <1>4, <2>2 DEF SameJob
  <2>6. SpendInv(j)' /\ PartInv(j)' /\ ExactInv(j)'
    BY <1>1, <1>2, <1>6, <1>10, <2>2 DEF PocketJob, SpendInv, PartInv, ExactInv
  <2>7. DrawInv(j)'
    BY <1>1, <1>2, <1>4, <1>6, <1>9, <2>1, <2>2 DEF PocketJob, DrawInv, RequestInv
  <2>8. RootInv(j)'
    BY <1>1, <1>2, <1>4, <1>6, <1>11, <2>1 DEF PocketJob, RootInv, RequestInv, InFlight, Held, Retired
  <2>9. j \notin Retryable => OnceInv(j)'
    BY <1>1, <1>2, <1>4, <2>2 DEF PocketJob, OnceInv, InFlight, Held, RequestInv
  <2>10. PocketJob(j)'
    BY <2>6, <2>7, <2>8, <2>9 DEF PocketJob
  <2> QED
    BY <1>1, <2>4, <2>5, <2>10, OnePocketMoves
<1> QED
  BY <1>8, <1>9

LEMMA ReservesPockets ==
    ASSUME IInv, PocketInv, NEW j \in Jobs, Reserves(j)
    PROVE  PocketInv'
<1> PICK f \in FreeDraws : Hold(j, FromFree(j, f))
  BY DEF Reserves
<1>1. /\ PocketJob(j) /\ RequestInv(j) /\ GrantsInv /\ req[j] \in Requests
      /\ req \in [Jobs -> Requests] /\ res \in [Jobs -> Holds]
  BY PocketJobs, JobTyped DEF IInv
<1>2. /\ UNCHANGED <<canon, grants, spends, after, promoSweep, aged>> /\ req[j].stage = "holding"
      /\ res'[j].status = "held" /\ res'[j].account = req[j].account /\ res'[j].promo = req[j].draw
      /\ req'[j].stage = "dispatched" /\ req'[j].draw = req[j].draw
      /\ \A i \in Jobs \ {j} : req'[i] = req[i] /\ res'[i] = res[i]
  BY <1>1 DEF Hold, promoVars, Requests
<1>3. GrantsInv'
  BY <1>1, <1>2, GrantsFrame DEF GrantsStay
<1>4. \A i \in Jobs \ {j} : SameJob(i)
  BY <1>2 DEF SameJob
<1>5. SpendInv(j)' /\ DrawInv(j)' /\ RootInv(j)' /\ PartInv(j)' /\ ExactInv(j)'
  BY <1>1, <1>2 DEF PocketJob, SpendInv, DrawInv, RootInv, PartInv, ExactInv, RequestInv, InFlight, Held, Retired
<1>6. j \notin Retryable => OnceInv(j)'
  BY <1>1, <1>2 DEF PocketJob, OnceInv, InFlight, Held
<1>7. PocketJob(j)'
  BY <1>5, <1>6 DEF PocketJob
<1> QED
  BY <1>2, <1>3, <1>4, <1>7, OnePocketMoves

\* A hold is closed: what is to be kept of the spend is decided.
LEMMA ClosePockets ==
    ASSUME IInv, PocketInv, NEW j \in Jobs, Held(j), NEW act, Close(j, act),
           UNCHANGED <<canon, promoVars, req, promoSweep, aged>>,
           NEW keep \in Int, after' = [after EXCEPT ![j] = keep],
           keep = Nothing \/ keep \in 0..res[j].promo, j \in Exact => keep \in {Nothing, 0, res[j].promo}
    PROVE  PocketInv'
<1>1. /\ PocketJob(j) /\ GrantsInv
      /\ after \in [Jobs -> Int] /\ res \in [Jobs -> Holds] /\ req[j].stage = "dispatched"
  BY PocketJobs, JobTyped, HeldFacts DEF IInv
<1>2. /\ UNCHANGED <<canon, grants, spends, req, promoSweep, aged>>
      /\ res'[j].status = "settled" /\ res'[j].promo = res[j].promo /\ res[j].status = "held"
      /\ after'[j] = keep
      /\ \A i \in Jobs \ {j} : res'[i] = res[i] /\ after'[i] = after[i]
  BY <1>1 DEF Close, promoVars, Holds, Held
<1>3. GrantsInv'
  BY <1>1, <1>2, GrantsFrame DEF GrantsStay
<1>4. \A i \in Jobs \ {j} : SameJob(i)
  BY <1>2 DEF SameJob
<1>5. SpendInv(j)' /\ DrawInv(j)' /\ RootInv(j)' /\ PartInv(j)' /\ ExactInv(j)'
  BY <1>1, <1>2 DEF PocketJob, SpendInv, DrawInv, RootInv, PartInv, ExactInv, InFlight, Held, Retired
<1>6. j \notin Retryable => OnceInv(j)'
  BY <1>1, <1>2 DEF PocketJob, OnceInv, InFlight, Held
<1>7. PocketJob(j)'
  BY <1>5, <1>6 DEF PocketJob
<1> QED
  BY <1>2, <1>3, <1>4, <1>7, OnePocketMoves

LEMMA PromoSpentIn ==
    ASSUME NEW j \in Jobs, res[j].promo \in Nat, NEW actual \in Nat
    PROVE  PromoSpent(j, actual) \in 0..res[j].promo
BY DEF PromoSpent, Lesser

\* A settlement or a release.
LEMMA TerminalPockets ==
    ASSUME IInv, PocketInv, NEW j \in Jobs,
           Completes(j) \/ ReleaseJob(j) \/ SweepRelease(j) \/ SweepSettles(j)
    PROVE  PocketInv'
<1>1. CASE Completes(j)
  <2> PICK actual \in Actuals \cup {Cost[j]} : CompleteAndSettle(j, actual)
    BY <1>1 DEF Completes
  <2>1. /\ Held(j) /\ Close(j, actual) /\ actual \in Nat /\ res[j].promo \in Nat
        /\ UNCHANGED <<canon, promoVars, req, promoSweep, aged>>
    BY HeldFacts DEF CompleteAndSettle, MayComplete, Held
  <2>2. PromoSpent(j, actual) \in 0..res[j].promo
    BY <2>1, PromoSpentIn
  <2>3. CASE j \in Exact
    <3> PICK keep \in Int : keep = IF res[j].promo > 0 THEN res[j].promo ELSE Nothing
      BY <2>1 DEF Nothing
    <3>1. after' = [after EXCEPT ![j] = keep]
      BY <2>3 DEF CompleteAndSettle, KeepExact
    <3>2. keep = Nothing \/ (keep \in 0..res[j].promo /\ keep = res[j].promo)
      BY <2>1
    <3> QED
      BY <2>1, <3>1, <3>2, ClosePockets
  <2>4. CASE j \notin Exact
    <3> PICK keep \in Int :
            keep = IF res[j].promo > PromoSpent(j, actual) THEN PromoSpent(j, actual) ELSE Nothing
      BY <2>2 DEF Nothing
    <3>1. after' = [after EXCEPT ![j] = keep]
      BY <2>4 DEF CompleteAndSettle, Reconcile
    <3>2. keep = Nothing \/ keep \in 0..res[j].promo
      BY <2>2
    <3> QED
      BY <2>1, <2>4, <3>1, <3>2, ClosePockets
  <2> QED
    BY <2>3, <2>4
<1>2. CASE SweepSettles(j) /\ Held(j)
  <2> PICK actual \in Actuals \cup {Cost[j]} : SweepSettle(j, actual)
    BY <1>2 DEF SweepSettles
  <2>1. /\ actual \in Nat /\ res[j].promo \in Nat
        /\ UNCHANGED <<canon, promoVars, req, promoSweep, aged>>
    BY <1>2, HeldFacts DEF SweepSettle
  <2>2. PromoSpent(j, actual) \in 0..res[j].promo
    BY <2>1, PromoSpentIn
  <2>3. CASE j \in Exact
    <3> PICK keep \in Int : keep = IF res[j].promo > 0 THEN res[j].promo ELSE Nothing
      BY <2>1 DEF Nothing
    <3>1. Close(j, actual) /\ after' = [after EXCEPT ![j] = keep]
      BY <1>2, <2>3 DEF SweepSettle, KeepExact
    <3>2. keep = Nothing \/ (keep \in 0..res[j].promo /\ keep = res[j].promo)
      BY <2>1
    <3> QED
      BY <1>2, <2>1, <3>1, <3>2, ClosePockets
  <2>4. CASE j \notin Exact
    <3> PICK keep \in Int :
            keep = IF res[j].promo > PromoSpent(j, actual) THEN PromoSpent(j, actual) ELSE Nothing
      BY <2>2 DEF Nothing
    <3>1. Close(j, res[j].actual) /\ after' = [after EXCEPT ![j] = keep]
      BY <1>2, <2>4 DEF SweepSettle, Reconcile
    <3>2. keep = Nothing \/ keep \in 0..res[j].promo
      BY <2>2
    <3> QED
      BY <1>2, <2>1, <2>4, <3>1, <3>2, ClosePockets
  <2> QED
    BY <2>3, <2>4
<1>3. CASE ReleaseJob(j) \/ (SweepRelease(j) /\ Held(j))
  <2>1. Refund(j)
    BY <1>3 DEF ReleaseJob, SweepRelease
  <2>2. /\ Held(j) /\ Close(j, res[j].actual) /\ UNCHANGED <<canon, promoVars, req, promoSweep, aged>>
    BY <2>1 DEF Refund
  <2>3. res[j].promo \in Nat
    BY <2>2, HeldFacts
  <2> PICK keep \in Int : keep = IF res[j].promo > 0 THEN 0 ELSE Nothing
    BY DEF Nothing
  <2>4. after' = [after EXCEPT ![j] = keep]
    BY <2>1 DEF Refund
  <2>5. keep = Nothing \/ (keep \in 0..res[j].promo /\ keep = 0)
    BY <2>3
  <2> QED
    BY <2>2, <2>4, <2>5, ClosePockets
<1>4. CASE ~Held(j) /\ (SweepSettles(j) \/ SweepRelease(j))
  <2>1. UNCHANGED <<canon, grants, spends, req, res, after, promoSweep, aged>>
    BY <1>4 DEF SweepSettles, SweepSettle, SweepRelease, creditVars, promoVars
  <2> QED
    BY <2>1, PocketsRest
<1> QED
  BY <1>1, <1>2, <1>3, <1>4

\* A release marks the spend settled and keeps no more of it than asked.
LEMMA ReleaseSpendIs ==
    ASSUME TypeOK, NEW j \in Jobs, SpendInv(j), NEW a, NEW keep \in 0..spends[j].amount, ReleaseSpend(j, a, keep)
    PROVE  /\ \A i \in Jobs \ {j} : spends'[i] = spends[i]
           /\ spends'[j].amount = spends[j].amount /\ spends'[j].grant = spends[j].grant
           /\ spends'[j].owner = spends[j].owner
           /\ spends'[j] = spends[j] \/ (spends[j].status # "none" /\ spends'[j].status = "settled")
           /\ spends'[j].kept = spends[j].kept \/ (spends'[j].kept = keep /\ keep < spends[j].kept)
           /\ \A g \in Accounts : /\ grants'[g].status = grants[g].status
                                  /\ grants'[g].owner = grants[g].owner
                                  /\ grants'[g].amount = grants[g].amount
           /\ GrantsInv => (canon' = canon => GrantsInv')
<1>1. /\ spends \in [Jobs -> Spends] /\ spends[j] \in Spends /\ grants \in [Accounts -> Grants]
      /\ spends[j].amount \in Int /\ spends[j].kept \in Int
  BY JobTyped DEF Spends
<1>2. Lesser(keep, spends[j].amount) = keep
  BY <1>1 DEF Lesser
<1>3. /\ \A i \in Jobs \ {j} : spends'[i] = spends[i]
      /\ spends'[j].amount = spends[j].amount /\ spends'[j].grant = spends[j].grant
      /\ spends'[j].owner = spends[j].owner
      /\ spends'[j] = spends[j] \/ (spends[j].status # "none" /\ spends'[j].status = "settled")
      /\ spends'[j].kept = spends[j].kept \/ (spends'[j].kept = keep /\ keep < spends[j].kept)
  BY <1>1, <1>2 DEF ReleaseSpend, Spends
<1>4. \A g \in Accounts : /\ grants'[g].status = grants[g].status
                          /\ grants'[g].owner = grants[g].owner
                          /\ grants'[g].amount = grants[g].amount
  BY <1>1, <1>2 DEF ReleaseSpend, Grants
<1>5. \A i \in Jobs : spends'[i].grant = spends[i].grant
  BY <1>3
<1> QED
  BY <1>3, <1>4, <1>5, GrantsFrame DEF GrantsStay

\* The steps that give back promotional credit.
LEMMA GivingBackPockets ==
    ASSUME IInv, PocketInv, NEW j \in Jobs, UndoDraw(j) \/ RunAfter(j) \/ PromoSweepAct(j)
    PROVE  PocketInv'
<1>1. /\ PocketJob(j) /\ RequestInv(j) /\ GrantsInv /\ TypeOK /\ req \in [Jobs -> Requests]
      /\ after \in [Jobs -> Int] /\ promoSweep \in [Jobs -> Int] /\ spends[j] \in Spends /\ SpendInv(j)
      /\ spends[j].amount \in Int /\ spends[j].kept \in Int
  BY PocketJobs, JobTyped DEF IInv, PocketJob, Spends
<1>2. CASE UndoDraw(j)
  <2>1. /\ ReleaseSpend(j, req[j].account, 0) /\ UNCHANGED <<canon, res, after, promoSweep, aged>>
        /\ req'[j].stage = Ended(j) /\ req'[j].draw = req[j].draw
        /\ req[j].stage = "undoing" /\ \A i \in Jobs \ {j} : req'[i] = req[i]
    BY <1>1, <1>2 DEF UndoDraw, creditVars, Requests
  <2>2. 0 \in 0..spends[j].amount
    BY <1>1 DEF SpendInv
  <2>3. /\ \A i \in Jobs \ {j} : SameJob(i)
        /\ GrantsInv'
    BY <1>1, <2>1, <2>2, ReleaseSpendIs DEF SameJob
  <2>4. /\ spends'[j].amount = spends[j].amount /\ spends'[j].grant = spends[j].grant
        /\ spends'[j] = spends[j] \/ (spends[j].status # "none" /\ spends'[j].status = "settled")
        /\ spends'[j].kept = spends[j].kept \/ spends'[j].kept = 0
    BY <1>1, <2>1, <2>2, ReleaseSpendIs
  <2>5. SpendInv(j)' /\ PartInv(j)' /\ ExactInv(j)'
    BY <1>1, <2>1, <2>4 DEF PocketJob, SpendInv, PartInv, ExactInv
  <2>6. DrawInv(j)' /\ RootInv(j)'
    BY <1>1, <2>1, <2>4 DEF PocketJob, DrawInv, RootInv, Ended, InFlight, Held, Retired
  <2>7. j \notin Retryable => OnceInv(j)'
    BY <1>1, <2>1, <2>4 DEF PocketJob, OnceInv, Ended, InFlight, Held, RequestInv
  <2>8. PocketJob(j)'
    BY <2>5, <2>6, <2>7 DEF PocketJob
  <2> QED
    BY <2>1, <2>3, <2>8, OnePocketMoves
<1>3. CASE RunAfter(j)
  <2>1. /\ ReleaseSpend(j, res[j].account, after[j]) /\ UNCHANGED <<canon, req, res, promoSweep, aged>>
        /\ after[j] # Nothing /\ after'[j] = Nothing /\ \A i \in Jobs \ {j} : after'[i] = after[i]
    BY <1>1, <1>3 DEF RunAfter, creditVars
  <2>2. /\ res[j].status = "settled" /\ after[j] \in 0..res[j].promo /\ res[j].promo \in {0, spends[j].amount}
        /\ after[j] \in 0..spends[j].amount
    BY <1>1, <2>1 DEF PocketJob, DrawInv, SpendInv
  <2>3. /\ \A i \in Jobs \ {j} : SameJob(i)
        /\ GrantsInv'
    BY <1>1, <2>1, <2>2, ReleaseSpendIs DEF SameJob
  <2>4. /\ spends'[j].amount = spends[j].amount /\ spends'[j].grant = spends[j].grant
        /\ spends'[j] = spends[j] \/ (spends[j].status # "none" /\ spends'[j].status = "settled")
        /\ spends'[j].kept = spends[j].kept \/ (spends'[j].kept = after[j] /\ after[j] < spends[j].kept)
    BY <1>1, <2>1, <2>2, ReleaseSpendIs
  <2>5. SpendInv(j)' /\ ExactInv(j)'
    BY <1>1, <2>1, <2>2, <2>4 DEF PocketJob, SpendInv, ExactInv
  <2>6. PartInv(j)'
    BY <1>1, <2>1, <2>2, <2>4 DEF PocketJob, PartInv, ExactInv
  <2>7. DrawInv(j)' /\ RootInv(j)'
    BY <1>1, <2>1, <2>2, <2>4 DEF PocketJob, DrawInv, RootInv, InFlight, Held, Retired
  <2>8. j \notin Retryable => OnceInv(j)'
    BY <1>1, <2>1, <2>2, <2>4 DEF PocketJob, OnceInv, InFlight, Held, RequestInv
  <2>9. PocketJob(j)'
    BY <2>5, <2>6, <2>7, <2>8 DEF PocketJob
  <2> QED
    BY <2>1, <2>3, <2>9, OnePocketMoves
<1>4. CASE PromoSweepAct(j)
  <2>1. /\ ReleaseSpend(j, spends[j].owner, promoSweep[j]) /\ UNCHANGED <<canon, req, res, after, aged>>
        /\ promoSweep[j] # Nothing /\ promoSweep'[j] = Nothing /\ \A i \in Jobs \ {j} : promoSweep'[i] = promoSweep[i]
    BY <1>1, <1>4 DEF PromoSweepAct, creditVars
  <2>2. /\ promoSweep[j] \in {0, spends[j].amount} /\ spends[j].status # "none"
        /\ promoSweep[j] \in 0..spends[j].amount
    BY <1>1, <2>1 DEF PocketJob, DrawInv, SpendInv
  <2>3. /\ \A i \in Jobs \ {j} : SameJob(i)
        /\ GrantsInv'
    BY <1>1, <2>1, <2>2, ReleaseSpendIs DEF SameJob
  <2>4. /\ spends'[j].amount = spends[j].amount /\ spends'[j].grant = spends[j].grant
        /\ spends'[j] = spends[j] \/ (spends[j].status # "none" /\ spends'[j].status = "settled")
        /\ spends'[j].kept = spends[j].kept \/ (spends'[j].kept = promoSweep[j] /\ promoSweep[j] < spends[j].kept)
    BY <1>1, <2>1, <2>2, ReleaseSpendIs
  <2>5. SpendInv(j)' /\ ExactInv(j)' /\ PartInv(j)'
    BY <1>1, <2>1, <2>2, <2>4 DEF PocketJob, SpendInv, ExactInv, PartInv
  <2>7. DrawInv(j)' /\ RootInv(j)'
    BY <1>1, <2>1, <2>2, <2>4 DEF PocketJob, DrawInv, RootInv, InFlight, Held, Retired
  <2>8. j \notin Retryable => OnceInv(j)'
    BY <1>1, <2>1, <2>2, <2>4 DEF PocketJob, OnceInv, InFlight, Held
  <2>9. PocketJob(j)'
    BY <2>5, <2>7, <2>8 DEF PocketJob
  <2> QED
    BY <2>1, <2>3, <2>9, OnePocketMoves
<1> QED
  BY <1>2, <1>3, <1>4

\* The steps that read, age or forget.
LEMMA ReadingPockets ==
    ASSUME IInv, PocketInv, NEW j \in Jobs, LoseAfter(j) \/ SpendAges(j) \/ PromoSweepRead(j)
    PROVE  PocketInv'
<1>1. /\ PocketJob(j) /\ RequestInv(j) /\ GrantsInv /\ aged \subseteq Jobs
      /\ after \in [Jobs -> Int] /\ promoSweep \in [Jobs -> Int] /\ spends[j] \in Spends /\ spends[j].amount \in Int
  BY PocketJobs, JobTyped DEF IInv, Spends, TypeOK, ReservationTypeOK
<1>2. UNCHANGED <<canon, grants, spends, req, res>>
  BY DEF LoseAfter, SpendAges, PromoSweepRead, creditVars, promoVars
<1>3. GrantsInv'
  BY <1>1, <1>2, GrantsFrame DEF GrantsStay
<1>4. SpendInv(j)'
  BY <1>1, <1>2 DEF PocketJob, SpendInv
<1>5. CASE LoseAfter(j)
  <2>1. after'[j] = Nothing /\ UNCHANGED <<promoSweep, aged>> /\ \A i \in Jobs \ {j} : after'[i] = after[i]
    BY <1>1, <1>5 DEF LoseAfter
  <2>2. \A i \in Jobs \ {j} : SameJob(i)
    BY <1>2, <2>1 DEF SameJob
  <2>3. PocketJob(j)'
    BY <1>1, <1>2, <1>4, <2>1 DEF PocketJob, DrawInv, RootInv, PartInv, ExactInv, OnceInv, Held, Retired
  <2> QED
    BY <1>2, <1>3, <2>2, <2>3, OnePocketMoves
<1>6. CASE SpendAges(j)
  <2>1. /\ aged' = aged \cup {j} /\ UNCHANGED <<after, promoSweep>>
        /\ spends[j].status = "held" /\ req[j].stage \notin InFlight
    BY <1>6 DEF SpendAges
  <2>2. \A i \in Jobs \ {j} : SameJob(i)
    BY <1>2, <2>1 DEF SameJob
  <2>3. PocketJob(j)'
    BY <1>1, <1>2, <1>4, <2>1 DEF PocketJob, DrawInv, RootInv, PartInv, ExactInv, OnceInv, Held, Retired
  <2> QED
    BY <1>2, <1>3, <2>2, <2>3, OnePocketMoves
<1>7. CASE PromoSweepRead(j)
  <2>1. /\ UNCHANGED <<after, aged>> /\ j \in aged /\ ~Held(j) /\ spends[j].status = "held"
        /\ promoSweep'[j] = IF res[j].status = "settled" THEN spends[j].amount ELSE 0
        /\ \A i \in Jobs \ {j} : promoSweep'[i] = promoSweep[i]
    BY <1>1, <1>7 DEF PromoSweepRead
  <2>2. \A i \in Jobs \ {j} : SameJob(i)
    BY <1>2, <2>1 DEF SameJob
  <2>3. DrawInv(j)' /\ RootInv(j)' /\ PartInv(j)' /\ ExactInv(j)'
    BY <1>1, <1>2, <2>1 DEF PocketJob, DrawInv, RootInv, PartInv, ExactInv, Held, Retired
  <2>4. j \notin Retryable => OnceInv(j)'
    BY <1>1, <1>2, <2>1 DEF PocketJob, OnceInv, Held
  <2>5. PocketJob(j)'
    BY <1>4, <2>3, <2>4 DEF PocketJob
  <2> QED
    BY <1>2, <1>3, <2>2, <2>5, OnePocketMoves
<1> QED
  BY <1>5, <1>6, <1>7

-----------------------------------------------------------------------------
\* What the steps of accounts leave of the jobs' promotional state.
PocketsOfJobsStay == UNCHANGED <<spends, req, res, after, promoSweep, aged>>

\* A grant, and its expiry.
LEMMA GrantPockets ==
    ASSUME IInv, PocketInv, NEW a \in Accounts, Grant(a) \/ Expire(a)
    PROVE  PocketInv'
<1>1. /\ grants \in [Accounts -> Grants] /\ GrantsInv /\ spends \in [Jobs -> Spends]
      /\ UNCHANGED <<canon, spends, req, res, after, promoSweep, aged>>
  BY JobTyped DEF IInv, PocketInv, Grant, Expire, GrantOnce, GrantExpires, creditVars, flowVars
<1>2. \A g \in Accounts : /\ grants'[g].owner = grants[g].owner
                          /\ g # a => grants'[g].status = grants[g].status
  <2>1. CASE Grant(a)
    BY <1>1, <2>1 DEF Grant, GrantOnce, Grants
  <2>2. CASE Expire(a)
    BY <1>1, <2>2 DEF Expire, GrantExpires, Grants
  <2> QED
    BY <2>1, <2>2
<1>3. CASE Grant(a)
  <2>1. ~Retired(a) /\ grants[a].status = "none" /\ grants'[a].status = "active"
    BY <1>1, <1>3 DEF Grant, GrantOnce, Grants
  <2>2. GrantsInv'
    BY <1>1, <1>2, <2>1 DEF GrantsInv, Owned, Retired
  <2>3. \A j \in Jobs : PocketJob(j)'
    BY <1>1, PocketJobs, PocketFrame DEF SameJob
  <2> QED
    BY <2>2, <2>3 DEF PocketInv, PocketJob
<1>4. CASE Expire(a)
  <2>1. grants'[a].status = grants[a].status
    BY <1>1, <1>4 DEF Expire, GrantExpires, Grants
  <2>2. GrantsInv'
    BY <1>1, <1>2, <2>1 DEF GrantsInv, Owned, Retired
  <2>3. \A j \in Jobs : PocketJob(j)'
    BY <1>1, PocketJobs, PocketFrame DEF SameJob
  <2> QED
    BY <2>2, <2>3 DEF PocketInv, PocketJob
<1> QED
  BY <1>3, <1>4

\* A merge moves or collapses the grants of the source.
LEMMA CollapsedIs ==
    ASSUME PromoTypeOK, NEW d \in Accounts, NEW s \in Accounts, NEW g \in Accounts
    PROVE  LET c == Collapsed(d, s, g) IN
           /\ grants[g].status = "none" => c = grants[g]
           /\ grants[g].status # "none" => c.status # "none"
           /\ c.status = "active" => /\ grants[g].status = "active"
                                     /\ c.owner = IF grants[g].owner = s THEN d ELSE grants[g].owner
<1> USE DEF PromoTypeOK
<1>1. CASE Owned(d) # {} /\ g \in Owned(s)
  BY <1>1 DEF Collapsed, Grants, Owned
<1>2. CASE ~(Owned(d) # {} /\ g \in Owned(s)) /\ Owned(s) # {} /\ g \in Owned(d)
  <2>1. grants[g].status = "active" /\ grants[g].owner = d /\ grants[g] \in Grants
    BY <1>2 DEF Owned
  <2>2. Collapsed(d, s, g).status = "active" /\ Collapsed(d, s, g).owner = d
    BY <1>2, <2>1 DEF Collapsed, Grants
  <2> QED
    BY <2>1, <2>2
<1>3. CASE ~(Owned(d) # {} /\ g \in Owned(s)) /\ ~(Owned(s) # {} /\ g \in Owned(d))
  <2>1. grants[g] \in Grants
    OBVIOUS
  <2> QED
    BY <1>3, <2>1 DEF Collapsed, Grants, Owned
<1> QED
  BY <1>1, <1>2, <1>3

LEMMA MergePockets ==
    ASSUME IInv, PocketInv, NEW d \in Accounts, NEW s \in Accounts, MergeAccounts(d, s)
    PROVE  PocketInv'
<1>1. /\ TypeOK /\ PromoTypeOK /\ GrantsInv /\ grants \in [Accounts -> Grants] /\ spends \in [Jobs -> Spends]
      /\ canon \in [Accounts -> Accounts] /\ req \in [Jobs -> Requests] /\ res \in [Jobs -> Holds]
      /\ \A j \in Jobs : PocketJob(j)
  BY JobTyped, PocketJobs DEF IInv, PocketInv, TypeOK
<1>2. /\ UNCHANGED <<spends, req, res, after, promoSweep, aged>>
      /\ MergeAllowed(d, s)
      /\ canon' = [a \in Accounts |-> IF canon[a] = s THEN d ELSE canon[a]]
      /\ grants' = [g \in Accounts |-> Collapsed(d, s, g)]
  BY DEF MergeAccounts, MoveBalance, MergeGrants, flowVars
<1>3. d # s /\ ~Retired(d) /\ ~Retired(s)
  BY <1>2 DEF MergeAllowed
<1>4. \A a \in Accounts : Retired(a)' <=> Retired(a) \/ a = s
  BY <1>1, <1>2, <1>3 DEF Retired
<1>5. GrantsInv'
  <2>1. ASSUME NEW a \in Accounts, Retired(a)' PROVE Owned(a)' = {}
    <3>1. ~Retired(a) => a = s
      BY <1>4, <2>1
    <3>2. a # d
      BY <1>2, <1>3, <2>1, <1>1 DEF Retired
    <3>3. ASSUME NEW g \in Accounts, grants'[g].owner = a, grants'[g].status = "active" PROVE FALSE
      <4>1. grants'[g] = Collapsed(d, s, g)
        BY <1>2
      <4>2. grants[g].status = "active" /\ a = IF grants[g].owner = s THEN d ELSE grants[g].owner
        BY <1>1, <3>3, <4>1, CollapsedIs
      <4>3. grants[g].owner = a /\ a # s
        BY <3>2, <4>2
      <4> QED
        BY <1>1, <3>1, <4>2, <4>3 DEF GrantsInv, Owned
    <3> QED
      BY <3>3 DEF Owned
  <2>2. ASSUME NEW g \in Accounts PROVE grants'[g].status = "none" => grants'[g].owner = g
    <3>1. grants'[g] = Collapsed(d, s, g)
      BY <1>2
    <3>2. grants'[g].status = "none" => grants[g].status = "none" /\ grants'[g] = grants[g]
      BY <1>1, <3>1, CollapsedIs
    <3> QED
      BY <1>1, <3>2 DEF GrantsInv
  <2>3. ASSUME NEW j \in Jobs, spends'[j].grant \in Accounts PROVE grants'[spends'[j].grant].status # "none"
    <3>1. spends'[j].grant = spends[j].grant /\ grants[spends[j].grant].status # "none"
      BY <1>1, <1>2, <2>3 DEF GrantsInv
    <3>2. grants'[spends'[j].grant] = Collapsed(d, s, spends[j].grant)
      BY <1>2, <2>3, <3>1
    <3> QED
      BY <1>1, <2>3, <3>1, <3>2, CollapsedIs
  <2> QED
    BY <2>1, <2>2, <2>3 DEF GrantsInv
<1>6. ASSUME NEW j \in Jobs PROVE PocketJob(j)'
  <2>1. PocketJob(j) /\ RequestInv(j) /\ req[j].account \in Accounts /\ res[j].account \in Accounts
    BY <1>1 DEF IInv, Requests, Holds
  <2>2. SpendInv(j)' /\ DrawInv(j)' /\ PartInv(j)' /\ ExactInv(j)'
    BY <1>2, <2>1 DEF PocketJob, SpendInv, DrawInv, PartInv, ExactInv
  <2>3. j \notin Retryable => OnceInv(j)'
    BY <1>2, <2>1 DEF PocketJob, OnceInv, Held
  <2>4. ~Retired(req[j].account) /\ req[j].account # s 
                => canon'[req'[j].account] = req'[j].account
    BY <1>1, <1>2, <2>1 DEF Retired
  <2>5. ~Retired(res[j].account) /\ res[j].account # s 
                => canon'[res'[j].account] = res'[j].account
    BY <1>1, <1>2, <2>1 DEF Retired
  <2>6. Held(j) => res[j].account # s
    BY <1>2 DEF MergeAllowed, Involves
  <2>7. j \in Retryable /\ req[j].stage \in InFlight => req[j].account # s
    BY <1>2 DEF MergeAllowed, Involves
  <2>8. j \notin Retryable /\ req[j].stage = "holding" /\ req[j].draw > 0 => req[j].account # s
    <3>1. CASE spends[j].status = "held"
      BY <1>2, <2>1, <3>1 DEF MergeAllowed, Involves, PocketJob, OnceInv
    <3>2. CASE spends[j].status # "held"
      BY <2>1, <3>2 DEF PocketJob, OnceInv, SpendInv, DrawInv
    <3> QED
      BY <3>1, <3>2
  <2>9. RootInv(j)'
    BY <1>2, <2>1, <2>4, <2>5, <2>6, <2>7, <2>8 DEF PocketJob, RootInv, InFlight, Held, Retired
  <2> QED
    BY <2>2, <2>3, <2>9 DEF PocketJob
<1> QED
  BY <1>5, <1>6 DEF PocketInv, PocketJob

\* The steps that touch neither the pocket nor what it depends on.
LEMMA OtherPockets ==
    ASSUME IInv, PocketInv,
           \/ \E t \in TopUps, a \in Accounts, amount \in Amounts, isFunded \in BOOLEAN :
                    Fund(t, a, amount, isFunded)
           \/ \E j \in Jobs : CompleteUnreserved(j) \/ SweepList(j) \/ SweepLookup(j)
           \/ UNCHANGED vars
    PROVE  PocketInv'
<1>1. UNCHANGED <<canon, grants, spends, req, res, after, promoSweep, aged>>
  BY DEF Fund, TopUp, CompleteUnreserved, SweepList, SweepLookup, vars, flowVars, promoVars, creditVars
<1> QED
  BY <1>1, PocketsRest

LEMMA PocketStarts == Init => PocketInv
<1> SUFFICES ASSUME Init PROVE PocketInv
  OBVIOUS
<1>1. GrantsInv
  BY DEF Init, GrantsInv, Owned, Retired
<1>2. ASSUME NEW j \in Jobs PROVE PocketJob(j)
  <2>1. /\ spends[j] = [status |-> "none", owner |-> Owner[j], grant |-> NoGrant, amount |-> 0, kept |-> 0]
        /\ req[j].stage = (IF j \in Legacy THEN "dispatched" ELSE "idle") /\ req[j].draw = 0
        /\ after[j] = Nothing /\ promoSweep[j] = Nothing /\ j \notin aged
    BY DEF Init
  <2>2. res[j].promo = 0 /\ res[j].status = IF j \in Legacy THEN "held" ELSE "none"
    BY DEF Init, NoHold
  <2>3. SpendInv(j) /\ DrawInv(j) /\ PartInv(j) /\ ExactInv(j)
    BY <2>1, <2>2 DEF SpendInv, DrawInv, PartInv, ExactInv
  <2>4. RootInv(j)
    BY <2>1, <2>2 DEF RootInv, InFlight, Held
  <2>5. OnceInv(j)
    BY <2>1, <2>2 DEF OnceInv, InFlight, Held
  <2> QED
    BY <2>3, <2>4, <2>5 DEF PocketJob
<1> QED
  BY <1>1, <1>2 DEF PocketInv, PocketJob

LEMMA PocketKept == IInv /\ PocketInv /\ [Next]_vars => PocketInv'
<1> SUFFICES ASSUME IInv, PocketInv, [Next]_vars PROVE PocketInv'
  OBVIOUS
<1>1. CASE AccountStep
  <2>1. CASE \E t \in TopUps, a \in Accounts, amount \in Amounts, isFunded \in BOOLEAN :
                    Fund(t, a, amount, isFunded)
    BY <2>1, OtherPockets
  <2>2. CASE \E a \in Accounts : Grant(a) \/ Expire(a)
    BY <2>2, GrantPockets
  <2>3. CASE \E d, s \in Accounts : MergeAccounts(d, s)
    BY <2>3, MergePockets
  <2> QED
    BY <1>1, <2>1, <2>2, <2>3, Zenon DEF AccountStep
<1>2. ASSUME NEW j \in Jobs, JobStep(j) PROVE PocketInv'
  <2>1. CASE \/ Request(j) \/ RequestUncharged(j) \/ DrawFails(j) \/ HoldRefused(j) \/ RequestCrash(j)
    BY <2>1, RequestPockets
  <2>2. CASE DrawPromo(j) \/ Reserves(j)
    BY <2>2, DrawPockets, ReservesPockets
  <2>3. CASE Completes(j) \/ ReleaseJob(j) \/ SweepRelease(j) \/ SweepSettles(j)
    BY <2>3, TerminalPockets
  <2>4. CASE UndoDraw(j) \/ RunAfter(j) \/ PromoSweepAct(j)
    BY <2>4, GivingBackPockets
  <2>5. CASE LoseAfter(j) \/ SpendAges(j) \/ PromoSweepRead(j)
    BY <2>5, ReadingPockets
  <2>6. CASE CompleteUnreserved(j) \/ SweepList(j) \/ SweepLookup(j)
    BY <2>6, OtherPockets
  <2> QED
    BY <1>2, <2>1, <2>2, <2>3, <2>4, <2>5, <2>6, Zenon DEF JobStep
<1>3. CASE UNCHANGED vars
  BY <1>3, OtherPockets
<1> QED
  BY <1>1, <1>2, <1>3 DEF Next

(***************************************************************************)
(* The promotional pocket's invariant holds in every reachable state: what *)
(* requests, reservations, pending terminals and sweeps count as           *)
(* promotional is what the spend of their job took, or nothing.            *)
(***************************************************************************)
THEOREM PocketInductive == Spec => [](IInv /\ PocketInv)
<1>1. Init => IInv /\ PocketInv
  BY InitSafe, PocketStarts
<1>2. IInv /\ PocketInv /\ [Next]_vars => IInv' /\ PocketInv'
  BY NextSafe, PocketKept
<1> QED
  BY <1>1, <1>2, PTL DEF Spec

(***************************************************************************)
(* A merged account never gets a balance, a grant or an open hold of       *)
(* purchased or promotional credit again, whatever ids requests            *)
(* authenticated before the merge still carry.                             *)
(***************************************************************************)
THEOREM RetiredStayEmpty == Spec => []RetiredIsEmpty
<1>1. IInv /\ PocketInv => RetiredIsEmpty
  BY DEF IInv, PocketInv, AccountsInv, GrantsInv, RootInv, RetiredIsEmpty
<1> QED
  BY <1>1, PocketInductive, PTL

(***************************************************************************)
(* A job that is admitted once: neither the undoing of its request, nor a  *)
(* terminal, nor the stale-spend sweep gives back what its open hold       *)
(* counts on.                                                              *)
(***************************************************************************)
THEOREM OnceAdmittedIsBacked == Spec => [](\A j \in Jobs \ Retryable : Backed(j))
<1>1. IInv /\ PocketInv => \A j \in Jobs \ Retryable : Backed(j)
  <2> SUFFICES ASSUME IInv, PocketInv, NEW j \in Jobs \ Retryable, Held(j)
               PROVE  res[j].promo <= spends[j].kept
    BY DEF Backed
  <2>1. /\ OnceInv(j) /\ SpendInv(j) /\ DrawInv(j) /\ spends[j].amount \in 0..Cost[j]
    BY DEF IInv, PocketInv, RequestInv
  <2>2. res[j].promo \in {0, spends[j].amount} /\ spends[j].status \in {"none", "held"}
    BY <2>1 DEF OnceInv, DrawInv
  <2>3. spends[j].kept = spends[j].amount
    BY <2>1, <2>2 DEF SpendInv
  <2> QED
    BY <2>1, <2>2, <2>3
<1> QED
  BY <1>1, PocketInductive, PTL

(***************************************************************************)
(* So where no job is retried under its id, every open hold is backed.     *)
(***************************************************************************)
THEOREM PromoIsBacked == ASSUME Retryable = {} PROVE Spec => []PromoBacked
<1>1. (\A j \in Jobs \ Retryable : Backed(j)) => PromoBacked
  BY DEF PromoBacked
<1> QED
  BY <1>1, OnceAdmittedIsBacked, PTL
-----------------------------------------------------------------------------
\* What each job keeps of a grant.
KeptBy(s, g) == [j \in Jobs |-> IF s[j].grant = g THEN s[j].kept ELSE 0]

\* The remainder of a grant and what is kept of it fit into it.
Fits(g, gs, s) ==
    0 <= gs[g].remaining /\ gs[g].remaining + SumOf(KeptBy(s, g), Jobs) <= gs[g].amount

LEMMA KeptTyped ==
    ASSUME NEW s \in [Jobs -> Spends], NEW g
    PROVE  Numbers(KeptBy(s, g), Jobs) /\ SumOf(KeptBy(s, g), Jobs) \in Int
<1>1. Numbers(KeptBy(s, g), Jobs)
  BY DEF Numbers, KeptBy, Spends
<1> QED
  BY <1>1, SumTyped

\* One job changes what it keeps; and a grant nobody keeps anything of.
LEMMA KeptChange ==
    ASSUME NEW s \in [Jobs -> Spends], NEW u \in [Jobs -> Spends], NEW g, NEW j \in Jobs,
           \A i \in Jobs \ {j} : u[i] = s[i]
    PROVE  SumOf(KeptBy(u, g), Jobs) = SumOf(KeptBy(s, g), Jobs) + KeptBy(u, g)[j] - KeptBy(s, g)[j]
<1> PICK f : f = KeptBy(s, g)
  OBVIOUS
<1> PICK h : h = KeptBy(u, g)
  OBVIOUS
<1>1. Numbers(f, Jobs) /\ Numbers(h, Jobs)
  BY KeptTyped
<1>2. \A i \in Jobs \ {j} : h[i] = f[i]
  BY DEF KeptBy
<1>3. SumOf(h, Jobs) = SumOf(f, Jobs) + h[j] - f[j]
  BY <1>1, <1>2, SumChange
<1> QED
  BY <1>3

LEMMA NothingKept ==
    ASSUME NEW s, NEW g, \A j \in Jobs : KeptBy(s, g)[j] = 0
    PROVE  SumOf(KeptBy(s, g), Jobs) = 0
<1> PICK f : f = KeptBy(s, g)
  OBVIOUS
<1>1. \A j \in Jobs : f[j] = 0
  OBVIOUS
<1>2. SumOf(f, Jobs) = 0
  BY <1>1, SumZero
<1> QED
  BY <1>2

\* A step leaves what fits fitting.
StayFit == \A g \in Accounts : Fits(g, grants, spends) => Fits(g, grants', spends')

LEMMA FitsIs ==
    GrantsFit <=> \A g \in Accounts : ~CollapsedInto(g) => Fits(g, grants, spends)
<1>1. ASSUME NEW g \in Accounts PROVE KeptFrom(g) = SumOf(KeptBy(spends, g), Jobs)
  BY DEF KeptFrom, KeptBy, SumFunctionOnSet, FoldFunctionOnSet, SumOf, MapThenSumSet, MapThenFoldSet
<1> QED
  BY <1>1 DEF GrantsFit, Fits

LEMMA FitsNext ==
    ASSUME \A g \in Accounts : ~CollapsedInto(g)' => Fits(g, grants', spends')
    PROVE  GrantsFit'
<1>1. ASSUME NEW g \in Accounts PROVE KeptFrom(g)' = SumOf(KeptBy(spends', g), Jobs)
  BY DEF KeptFrom, KeptBy, SumFunctionOnSet, FoldFunctionOnSet, SumOf, MapThenSumSet, MapThenFoldSet
<1> QED
  BY <1>1 DEF GrantsFit, Fits

\* A step that collapses nothing and leaves what fits fitting.
LEMMA FitsOn ==
    ASSUME GrantsFit, StayFit, canon' = canon,
           \A g \in Accounts : /\ grants'[g].owner = grants[g].owner
                               /\ grants[g].status = "merged" => grants'[g].status = "merged"
    PROVE  GrantsFit'
<1>1. ASSUME NEW g \in Accounts, ~CollapsedInto(g)' PROVE ~CollapsedInto(g)
  BY <1>1 DEF CollapsedInto
<1>2. ASSUME NEW g \in Accounts, ~CollapsedInto(g)' PROVE Fits(g, grants', spends')
  <2>1. Fits(g, grants, spends)
    BY <1>1, <1>2, FitsIs
  <2> QED
    BY <2>1 DEF StayFit
<1> QED
  BY <1>2, FitsNext

\* A step that keeps the remainders and what is kept of them.
LEMMA FitsRest ==
    ASSUME \A g \in Accounts : grants'[g].remaining = grants[g].remaining /\ grants'[g].amount = grants[g].amount,
           \A j \in Jobs : spends'[j].grant = spends[j].grant /\ spends'[j].kept = spends[j].kept
    PROVE  StayFit
<1>1. ASSUME NEW g \in Accounts PROVE KeptBy(spends', g) = KeptBy(spends, g)
  BY DEF KeptBy
<1> QED
  BY <1>1 DEF Fits, StayFit

\* One job changes what it keeps of one grant.
LEMMA OneSpendMoves ==
    ASSUME TypeOK, TypeOK', NEW j \in Jobs, NEW x \in Accounts,
           \A i \in Jobs \ {j} : spends'[i] = spends[i],
           spends'[j].grant = x, spends[j].grant \in {NoGrant, x},
           \A g \in Accounts : grants'[g].amount = grants[g].amount,
           \A g \in Accounts \ {x} : grants'[g].remaining = grants[g].remaining,
           0 <= grants[x].remaining => 0 <= grants'[x].remaining,
           grants'[x].remaining + spends'[j].kept
                <= grants[x].remaining + (IF spends[j].grant = x THEN spends[j].kept ELSE 0)
    PROVE  StayFit
<1>1. /\ spends \in [Jobs -> Spends] /\ spends' \in [Jobs -> Spends]
      /\ grants \in [Accounts -> Grants] /\ grants' \in [Accounts -> Grants]
  BY DEF TypeOK, PromoTypeOK
<1>2. ASSUME NEW g \in Accounts, Fits(g, grants, spends) PROVE Fits(g, grants', spends')
  <2> DEFINE f == KeptBy(spends, g)
             h == KeptBy(spends', g)
  <2>1. Numbers(f, Jobs) /\ Numbers(h, Jobs) /\ SumOf(f, Jobs) \in Int /\ SumOf(h, Jobs) \in Int
    BY <1>1, KeptTyped
  <2>3. /\ f[j] = IF spends[j].grant = g THEN spends[j].kept ELSE 0
        /\ h[j] = IF x = g THEN spends'[j].kept ELSE 0
    BY DEF KeptBy
  <2>4. /\ grants[g].remaining \in Int /\ grants'[g].remaining \in Int /\ grants[g].amount \in Int
        /\ spends[j].kept \in Int /\ spends'[j].kept \in Int
    BY <1>1 DEF Grants, Spends
  <2>6. SumOf(h, Jobs) = SumOf(f, Jobs) + h[j] - f[j]
    BY <1>1, KeptChange
  <2> HIDE DEF f, h
  <2>7. 0 <= grants[g].remaining /\ grants[g].remaining + SumOf(f, Jobs) <= grants[g].amount
    BY <1>2 DEF Fits, f
  <2>8. 0 <= grants'[g].remaining /\ grants'[g].remaining + SumOf(h, Jobs) <= grants'[g].amount
    <3>1. CASE g = x
      BY <2>1, <2>3, <2>4, <2>6, <2>7, <3>1
    <3>2. CASE g # x
      <4>1. spends[j].grant # g
        BY <3>2
      <4> QED
        BY <2>1, <2>3, <2>4, <2>6, <2>7, <3>2, <4>1
    <3> QED
      BY <3>1, <3>2
  <2> QED
    BY <2>8 DEF Fits, h
<1> QED
  BY <1>2 DEF StayFit

\* A release that takes a whole spend down, or nothing of it.
LEMMA ReleaseFits ==
    ASSUME TypeOK, TypeOK', NEW j \in Jobs, SpendInv(j), NEW a,
           NEW keep \in 0..spends[j].amount,
           keep >= spends[j].kept \/ spends[j].kept = spends[j].amount,
           ReleaseSpend(j, a, keep)
    PROVE  StayFit
<1>1. /\ spends \in [Jobs -> Spends] /\ spends[j] \in Spends /\ grants \in [Accounts -> Grants]
      /\ spends[j].amount \in Int /\ spends[j].kept \in Int /\ keep \in Int
      /\ spends[j].kept \in 0..spends[j].amount
      /\ spends[j].grant \in Accounts \cup {NoGrant}
  BY JobTyped DEF Spends, SpendInv
<1>2. Lesser(keep, spends[j].amount) = keep
  BY <1>1 DEF Lesser
<1>3. CASE spends[j].status = "none" \/ spends[j].owner # a \/ keep >= spends[j].kept
  <2>1. grants' = grants /\ \A i \in Jobs : spends'[i].grant = spends[i].grant /\ spends'[i].kept = spends[i].kept
    BY <1>1, <1>2, <1>3 DEF ReleaseSpend, Spends
  <2> QED
    BY <2>1, FitsRest
<1>4. CASE ~ (spends[j].status = "none" \/ spends[j].owner # a \/ keep >= spends[j].kept)
  <2> DEFINE x == spends[j].grant
  <2>1. /\ spends' = [spends EXCEPT ![j].status = "settled", ![j].kept = keep]
        /\ grants' = IF x # NoGrant /\ Restorable(x)
                     THEN [grants EXCEPT ![x].remaining = @ + (spends[j].amount - keep)]
                     ELSE grants
    BY <1>2, <1>4 DEF ReleaseSpend
  <2>2. spends[j].kept = spends[j].amount /\ keep < spends[j].kept
    BY <1>1, <1>4
  <2>3. x \in Accounts
    BY <1>1, <2>2 DEF SpendInv
  <2>4. /\ spends'[j].grant = x /\ spends'[j].kept = keep
        /\ \A i \in Jobs \ {j} : spends'[i] = spends[i]
    BY <1>1, <2>1 DEF Spends
  <2>5. /\ \A g \in Accounts : grants'[g].amount = grants[g].amount
        /\ \A g \in Accounts \ {x} : grants'[g].remaining = grants[g].remaining
        /\ grants'[x].remaining \in {grants[x].remaining, grants[x].remaining + (spends[j].amount - keep)}
    BY <1>1, <2>1, <2>3 DEF Grants
  <2>6. grants[x].remaining \in Int
    BY <1>1, <2>3 DEF Grants
  <2>7. /\ 0 <= grants[x].remaining => 0 <= grants'[x].remaining
        /\ grants'[x].remaining + spends'[j].kept <= grants[x].remaining + spends[j].kept
    BY <1>1, <2>2, <2>4, <2>5, <2>6
  <2> QED
    BY <2>3, <2>4, <2>5, <2>7, OneSpendMoves
<1> QED
  BY <1>3, <1>4

\* A draw takes from the remainder what the spend keeps.
LEMMA DrawFits ==
    ASSUME IInv, IInv', PocketInv, NEW j \in Jobs, DrawPromo(j)
    PROVE  StayFit
<1> DEFINE a    == req[j].account
           take == Takes(a, Cost[j])
<1>1. /\ TypeOK /\ TypeOK' /\ SpendInv(j) /\ Consume(j, a, Cost[j]) /\ Cost[j] \in Nat
      /\ spends \in [Jobs -> Spends] /\ grants \in [Accounts -> Grants]
  BY JobTyped, PocketJobs DEF IInv, PocketJob, DrawPromo
<1>2. \/ take.grant = NoGrant
      \/ /\ take.grant \in Accounts /\ grants[take.grant].remaining \in Int
         /\ 0 <= take.amount /\ take.amount <= grants[take.grant].remaining /\ take.amount \in Int
  <2>1. take.grant \in Usable(a) => take.grant \in Accounts
    BY DEF Usable, Owned
  <2>2. take.grant \in Accounts => grants[take.grant].remaining \in Int
    BY <1>1 DEF Grants
  <2> QED
    BY <1>1, <2>1, <2>2, TakesIs
<1> HIDE DEF take
<1>3. CASE spends[j].status # "none"
  <2>1. UNCHANGED <<grants, spends>>
    BY <1>1, <1>3 DEF Consume
  <2> QED
    BY <2>1, FitsRest
<1>4. CASE spends[j].status = "none"
  <2> DEFINE new == [status |-> "held", owner |-> a, grant |-> take.grant, amount |-> take.amount, kept |-> take.amount]
  <2>1. /\ spends' = [spends EXCEPT ![j] = new]
        /\ grants' = IF take.grant = NoGrant THEN grants
                     ELSE [grants EXCEPT ![take.grant].remaining = @ - take.amount]
    BY <1>1, <1>4 DEF Consume, take
  <2>2. /\ spends'[j].grant = take.grant /\ spends'[j].kept = take.amount
        /\ spends[j].grant = NoGrant /\ \A i \in Jobs \ {j} : spends'[i] = spends[i]
    BY <1>1, <1>4, <2>1 DEF SpendInv
  <2>3. CASE take.grant = NoGrant
    <3>1. grants' = grants
      BY <2>1, <2>3
    <3>2. \A g \in Accounts : KeptBy(spends', g) = KeptBy(spends, g)
      BY <2>2, <2>3 DEF KeptBy
    <3> QED
      BY <3>1, <3>2 DEF Fits, StayFit
  <2>4. CASE take.grant # NoGrant
    <3>1. /\ \A g \in Accounts : grants'[g].amount = grants[g].amount
          /\ \A g \in Accounts \ {take.grant} : grants'[g].remaining = grants[g].remaining
          /\ grants'[take.grant].remaining = grants[take.grant].remaining - take.amount
          /\ take.grant \in Accounts
      BY <1>1, <1>2, <2>1, <2>4 DEF Grants
    <3>2. /\ 0 <= grants'[take.grant].remaining /\ spends[j].grant # take.grant
          /\ grants'[take.grant].remaining + spends'[j].kept <= grants[take.grant].remaining + 0
      BY <1>2, <2>2, <2>4, <3>1
    <3> QED
      BY <1>1, <2>2, <3>1, <3>2, OneSpendMoves
  <2> QED
    BY <2>3, <2>4
<1> QED
  BY <1>3, <1>4

\* A grant is issued in full, and no spend draws on it yet.
LEMMA GrantFits ==
    ASSUME IInv, PocketInv, NEW a \in Accounts, Grant(a) \/ Expire(a)
    PROVE  StayFit
<1>1. grants \in [Accounts -> Grants] /\ GrantsInv /\ spends' = spends
  BY JobTyped DEF IInv, PocketInv, Grant, Expire, GrantOnce, GrantExpires
<1>2. CASE Expire(a)
  <2>1. \A g \in Accounts : grants'[g].remaining = grants[g].remaining /\ grants'[g].amount = grants[g].amount
    BY <1>1, <1>2 DEF Expire, GrantExpires, Grants
  <2> QED
    BY <1>1, <2>1, FitsRest
<1>3. CASE Grant(a)
  <2>1. /\ grants[a].status = "none" /\ grants'[a].remaining = GrantMicro /\ grants'[a].amount = GrantMicro
        /\ \A g \in Accounts \ {a} : grants'[g] = grants[g]
    BY <1>1, <1>3 DEF Grant, GrantOnce, Grants
  <2>2. \A j \in Jobs : KeptBy(spends, a)[j] = 0
    BY <1>1, <2>1 DEF GrantsInv, KeptBy
  <2>3. SumOf(KeptBy(spends, a), Jobs) = 0
    BY <2>2, NothingKept
  <2>4. \A g \in Accounts : Fits(g, grants, spends) => Fits(g, grants', spends')
    BY <1>1, <2>1, <2>3 DEF Fits
  <2> QED
    BY <2>4 DEF StayFit
<1> QED
  BY <1>2, <1>3

LEMMA FitStarts == Init => GrantsFit
<1> SUFFICES ASSUME Init PROVE GrantsFit
  OBVIOUS
<1>1. ASSUME NEW g \in Accounts PROVE Fits(g, grants, spends)
  <2>1. \A j \in Jobs : KeptBy(spends, g)[j] = 0
    BY DEF Init, KeptBy
  <2>2. SumOf(KeptBy(spends, g), Jobs) = 0
    BY <2>1, NothingKept
  <2>3. grants[g].remaining = 0 /\ grants[g].amount = 0
    BY DEF Init
  <2> QED
    BY <2>2, <2>3 DEF Fits
<1> QED
  BY <1>1, FitsIs

\* A merge that collapses nothing into a grant leaves its amounts alone.
LEMMA MergeFits ==
    ASSUME IInv, GrantsFit, NEW d \in Accounts, NEW s \in Accounts, MergeAccounts(d, s)
    PROVE  GrantsFit'
<1>1. /\ canon \in [Accounts -> Accounts] /\ grants \in [Accounts -> Grants]
      /\ canon[s] = s /\ canon[d] = d /\ spends' = spends
      /\ canon' = [a \in Accounts |-> IF canon[a] = s THEN d ELSE canon[a]]
      /\ grants' = [g \in Accounts |-> Collapsed(d, s, g)]
  BY JobTyped DEF IInv, TypeOK, CreditTypeOK, PromoTypeOK, MergeAccounts, MergeAllowed, MoveBalance, MergeGrants, Retired
<1>2. ASSUME NEW g \in Accounts
      PROVE  /\ grants[g].owner \in Accounts /\ grants'[g].owner \in Accounts
             /\ canon'[grants'[g].owner] = IF canon[grants[g].owner] = s THEN d ELSE canon[grants[g].owner]
             /\ grants[g].status = "merged" => grants'[g].status = "merged"
             /\ \/ g \in Owned(s) /\ Owned(d) # {} /\ grants'[g].status = "merged"
                \/ g \in Owned(d) /\ Owned(s) # {}
                \/ grants'[g].remaining = grants[g].remaining /\ grants'[g].amount = grants[g].amount
  <2>1. grants[g] \in Grants /\ grants'[g] = Collapsed(d, s, g)
    BY <1>1
  <2>2. CASE Owned(d) # {} /\ g \in Owned(s)
    <3>1. /\ grants'[g] = [grants[g] EXCEPT !.status = "merged", !.remaining = 0]
          /\ grants[g].owner = s
      BY <2>1, <2>2 DEF Collapsed, Owned
    <3>2. grants'[g].status = "merged" /\ grants'[g].owner = s
      BY <2>1, <3>1 DEF Grants
    <3> QED
      BY <1>1, <2>2, <3>1, <3>2
  <2>3. CASE ~ (Owned(d) # {} /\ g \in Owned(s)) /\ Owned(s) # {} /\ g \in Owned(d)
    <3>1. PICK m, n : grants'[g] = [grants[g] EXCEPT !.amount = m, !.remaining = n]
      BY <2>1, <2>3 DEF Collapsed
    <3>2. grants[g].owner = d /\ grants[g].status = "active"
      BY <2>3 DEF Owned
    <3>3. grants'[g].owner = d
      BY <2>1, <3>1, <3>2 DEF Grants
    <3> QED
      BY <1>1, <2>3, <3>2, <3>3
  <2>4. CASE ~ (Owned(d) # {} /\ g \in Owned(s)) /\ ~ (Owned(s) # {} /\ g \in Owned(d)) /\ g \in Owned(s)
    <3>1. grants'[g] = [grants[g] EXCEPT !.owner = d] /\ grants[g].owner = s /\ grants[g].status = "active"
      BY <2>1, <2>4 DEF Collapsed, Owned
    <3>2. grants'[g].owner = d /\ grants'[g].remaining = grants[g].remaining /\ grants'[g].amount = grants[g].amount
      BY <2>1, <3>1 DEF Grants
    <3> QED
      BY <1>1, <3>1, <3>2
  <2>5. CASE g \notin Owned(s) /\ ~ (Owned(s) # {} /\ g \in Owned(d))
    <3>1. grants'[g] = grants[g]
      BY <2>1, <2>5 DEF Collapsed
    <3>2. grants[g].owner \in Accounts
      BY <2>1 DEF Grants
    <3> QED
      BY <1>1, <3>1, <3>2
  <2> QED
    BY <2>2, <2>3, <2>4, <2>5
<1>3. ASSUME NEW g \in Accounts, ~CollapsedInto(g)' PROVE Fits(g, grants', spends')
  <2>1. ASSUME NEW h \in Accounts, grants'[h].status = "merged" PROVE canon'[grants'[h].owner] # canon'[grants'[g].owner]
    BY <1>3, <2>1 DEF CollapsedInto
  <2>2. ~CollapsedInto(g)
    <3> SUFFICES ASSUME NEW h \in Accounts, grants[h].status = "merged",
                        canon[grants[h].owner] = canon[grants[g].owner]
                 PROVE  FALSE
      BY DEF CollapsedInto
    <3> QED
      BY <1>2, <2>1
  <2>3. ~ (g \in Owned(s) /\ Owned(d) # {} /\ grants'[g].status = "merged")
    BY <2>1
  <2>4. ~ (g \in Owned(d) /\ Owned(s) # {})
    <3> SUFFICES ASSUME g \in Owned(d), NEW h \in Owned(s) PROVE FALSE
      OBVIOUS
    <3>1. h \in Accounts /\ grants[h].owner = s /\ grants[g].owner = d
      BY DEF Owned
    <3>2. grants'[h].status = "merged"
      <4>1. grants'[h] = [grants[h] EXCEPT !.status = "merged", !.remaining = 0] /\ grants[h] \in Grants
        BY <1>1, <3>1 DEF Collapsed
      <4> QED
        BY <4>1 DEF Grants
    <3>3. canon'[grants'[h].owner] = d /\ canon'[grants'[g].owner] = d
      BY <1>1, <1>2, <3>1
    <3> QED
      BY <2>1, <3>1, <3>2, <3>3
  <2>5. grants'[g].remaining = grants[g].remaining /\ grants'[g].amount = grants[g].amount
    BY <1>2, <2>3, <2>4
  <2>6. Fits(g, grants, spends)
    BY <2>2, FitsIs
  <2> QED
    BY <1>1, <2>5, <2>6 DEF Fits
<1> QED
  BY <1>3, FitsNext

\* A step of a job changes neither the owner nor the status of a grant.
LEMMA JobStepGrants ==
    ASSUME TypeOK, NEW j \in Jobs, JobStep(j)
    PROVE  \A g \in Accounts : grants'[g].owner = grants[g].owner /\ grants'[g].status = grants[g].status
<1>1. grants \in [Accounts -> Grants]
  BY JobTyped
<1>2. CASE \E a, keep : ReleaseSpend(j, a, keep)
  BY <1>1, <1>2 DEF ReleaseSpend, Grants
<1>3. CASE \E a, want : Consume(j, a, want)
  BY <1>1, <1>3 DEF Consume, Grants
<1>4. CASE UNCHANGED grants
  BY <1>4
<1>5. CASE DrawPromo(j)
  BY <1>3, <1>5 DEF DrawPromo
<1>6. CASE UndoDraw(j) \/ RunAfter(j) \/ PromoSweepAct(j)
  BY <1>2, <1>6 DEF UndoDraw, RunAfter, PromoSweepAct
<1>7. ASSUME ~ (DrawPromo(j) \/ UndoDraw(j) \/ RunAfter(j) \/ PromoSweepAct(j)) PROVE UNCHANGED grants
  BY <1>7 DEF JobStep, Request, RequestUncharged, DrawFails, Reserves, Hold, HoldRefused, RequestCrash,
     Completes, CompleteAndSettle, CompleteUnreserved, ReleaseJob, Refund, LoseAfter, SweepList, SweepLookup,
     SweepRelease, SweepSettles, SweepSettle, SpendAges, PromoSweepRead, promoVars
<1> QED
  BY <1>4, <1>5, <1>6, <1>7

LEMMA FitKept == IInv /\ PocketInv /\ GrantsFit /\ [Next]_vars => GrantsFit'
<1> SUFFICES ASSUME IInv, PocketInv, GrantsFit, [Next]_vars PROVE GrantsFit'
  OBVIOUS
<1>1. IInv' /\ TypeOK /\ TypeOK'
  BY NextSafe DEF IInv
<1>2. CASE AccountStep
  <2>1. ASSUME NEW a \in Accounts, Grant(a) \/ Expire(a) PROVE GrantsFit'
    <3>1. canon' = canon /\ grants \in [Accounts -> Grants]
      BY <2>1, JobTyped DEF Grant, Expire, creditVars, IInv
    <3>2. \A g \in Accounts : /\ grants'[g].owner = grants[g].owner
                              /\ grants[g].status = "merged" => grants'[g].status = "merged"
      <4> SUFFICES ASSUME NEW g \in Accounts
                   PROVE  /\ grants'[g].owner = grants[g].owner
                          /\ grants[g].status = "merged" => grants'[g].status = "merged"
        OBVIOUS
      <4>1. grants[g] \in Grants /\ grants[a] \in Grants
        BY <3>1
      <4>2. CASE Grant(a)
        <5>1. grants[a].status = "none" /\ grants' = [grants EXCEPT ![a] =
                [@ EXCEPT !.status = "active", !.amount = GrantMicro, !.remaining = GrantMicro]]
          BY <4>2 DEF Grant, GrantOnce
        <5> QED
          BY <3>1, <4>1, <5>1 DEF Grants
      <4>3. CASE Expire(a)
        <5>1. grants' = [grants EXCEPT ![a].expired = TRUE]
          BY <4>3 DEF Expire, GrantExpires
        <5> QED
          BY <3>1, <4>1, <5>1 DEF Grants
      <4> QED
        BY <2>1, <4>2, <4>3
    <3> QED
      BY <2>1, <3>1, <3>2, GrantFits, FitsOn
  <2>2. CASE \E t \in TopUps, a \in Accounts, amount \in Amounts, isFunded \in BOOLEAN :
                    Fund(t, a, amount, isFunded)
    <3>1. UNCHANGED <<canon, grants, spends>>
      BY <2>2 DEF Fund, TopUp, CreditInSession, promoVars
    <3> QED
      BY <3>1, FitsRest, FitsOn
  <2>3. CASE \E d, s \in Accounts : MergeAccounts(d, s)
    BY <2>3, MergeFits
  <2> QED
    BY <1>2, <2>1, <2>2, <2>3, Zenon DEF AccountStep
<1>3. ASSUME NEW j \in Jobs, JobStep(j) PROVE StayFit
  <2>1. PocketJob(j) /\ SpendInv(j) /\ RequestInv(j)
    BY PocketJobs DEF IInv, PocketJob
  <2>2. CASE DrawPromo(j)
    BY <1>1, <2>2, DrawFits
  <2>3. CASE UndoDraw(j)
    <3>1. spends[j].kept \in {0, spends[j].amount} /\ ReleaseSpend(j, req[j].account, 0)
      BY <2>1, <2>3 DEF UndoDraw, PocketJob, PartInv, RequestInv
    <3>2. 0 \in 0..spends[j].amount /\ (0 >= spends[j].kept \/ spends[j].kept = spends[j].amount)
      BY <2>1, <3>1 DEF RequestInv
    <3> QED
      BY <1>1, <2>1, <3>1, <3>2, ReleaseFits
  <2>4. CASE RunAfter(j)
    <3>1. /\ spends[j].kept \in {0, spends[j].amount} /\ ReleaseSpend(j, res[j].account, after[j])
          /\ after[j] # Nothing /\ after[j] \in 0..res[j].promo /\ res[j].promo \in {0, spends[j].amount}
      BY <2>1, <2>4 DEF RunAfter, PocketJob, PartInv, DrawInv
    <3>2. after[j] \in 0..spends[j].amount /\ (after[j] >= spends[j].kept \/ spends[j].kept = spends[j].amount)
      BY <2>1, <3>1 DEF RequestInv
    <3> QED
      BY <1>1, <2>1, <3>1, <3>2, ReleaseFits
  <2>5. CASE PromoSweepAct(j)
    <3>1. /\ promoSweep[j] \in {0, spends[j].amount} /\ ReleaseSpend(j, spends[j].owner, promoSweep[j])
          /\ spends[j].kept \in {0, spends[j].amount} \/ promoSweep[j] = spends[j].amount
      <4>1. promoSweep[j] \in {0, spends[j].amount} /\ ReleaseSpend(j, spends[j].owner, promoSweep[j]) /\ promoSweep[j] # Nothing
        BY <2>1, <2>5 DEF PromoSweepAct, PocketJob, DrawInv
      <4>2. CASE j \in Retryable
        BY <2>1, <4>1, <4>2 DEF PocketJob, PartInv
      <4>3. CASE j \notin Retryable
        BY <2>1, <4>1, <4>3 DEF PocketJob, PartInv, OnceInv
      <4> QED
        BY <4>1, <4>2, <4>3
    <3>2. /\ promoSweep[j] \in 0..spends[j].amount
          /\ promoSweep[j] >= spends[j].kept \/ spends[j].kept = spends[j].amount
      BY <2>1, <3>1 DEF RequestInv, SpendInv
    <3> QED
      BY <1>1, <2>1, <3>1, <3>2, ReleaseFits
  <2>6. CASE ~ (DrawPromo(j) \/ UndoDraw(j) \/ RunAfter(j) \/ PromoSweepAct(j))
    <3>1. UNCHANGED <<grants, spends>>
      BY <1>3, <2>6 DEF JobStep, Request, RequestUncharged, DrawFails, Reserves, Hold, HoldRefused, RequestCrash,
         Completes, CompleteAndSettle, CompleteUnreserved, ReleaseJob, Refund, LoseAfter, SweepList, SweepLookup,
         SweepRelease, SweepSettles, SweepSettle, SpendAges, PromoSweepRead, promoVars
    <3> QED
      BY <3>1, FitsRest
  <2> QED
    BY <2>2, <2>3, <2>4, <2>5, <2>6
<1>4. ASSUME NEW j \in Jobs, JobStep(j) PROVE GrantsFit'
  <2>1. canon' = canon
    BY <1>4, JobStepBooks
  <2>2. \A g \in Accounts : grants'[g].owner = grants[g].owner /\ grants'[g].status = grants[g].status
    BY <1>1, <1>4, JobStepGrants
  <2> QED
    BY <1>3, <1>4, <2>1, <2>2, FitsOn
<1>5. CASE UNCHANGED vars
  <2>1. UNCHANGED <<canon, grants, spends>>
    BY <1>5 DEF vars, promoVars, creditVars
  <2> QED
    BY <2>1, FitsRest, FitsOn
<1> QED
  BY <1>2, <1>4, <1>5 DEF Next

(***************************************************************************)
(* A grant that no other was collapsed into never holds more than it was   *)
(* issued for and is never overdrawn, in whatever order its spends are     *)
(* released, however often, and whoever owns it after merges.              *)
(***************************************************************************)
THEOREM OnlyCollapsesOverfill == Spec => [](\A g \in Accounts : ~CollapsedInto(g) => WithinGrant(g))
<1>1. Init => IInv /\ PocketInv /\ GrantsFit
  BY InitSafe, PocketStarts, FitStarts
<1>2. IInv /\ PocketInv /\ GrantsFit /\ [Next]_vars => IInv' /\ PocketInv' /\ GrantsFit'
  BY NextSafe, PocketKept, FitKept
<1>3. IInv /\ PocketInv /\ GrantsFit => \A g \in Accounts : ~CollapsedInto(g) => WithinGrant(g)
  <2> SUFFICES ASSUME IInv, PocketInv, GrantsFit, NEW g \in Accounts, ~CollapsedInto(g)
               PROVE  0 <= grants[g].remaining /\ grants[g].remaining <= grants[g].amount
    BY DEF WithinGrant
  <2>1. /\ grants[g].remaining \in Int /\ grants[g].amount \in Int /\ spends \in [Jobs -> Spends]
    BY JobTyped DEF IInv, Grants
  <2>2. \A j \in Jobs : KeptBy(spends, g)[j] \in Nat
    <3> SUFFICES ASSUME NEW j \in Jobs PROVE spends[j].kept \in Nat
      BY DEF KeptBy
    <3> QED
      BY DEF PocketInv, SpendInv, IInv, RequestInv
  <2>3. SumOf(KeptBy(spends, g), Jobs) \in Nat
    BY <2>2, SumNat
  <2>4. Fits(g, grants, spends)
    BY FitsIs
  <2> QED
    BY <2>1, <2>3, <2>4 DEF Fits
<1> QED
  BY <1>1, <1>2, <1>3, PTL DEF Spec

(***************************************************************************)
(* As long as no two grants were collapsed into one by a merge, a grant    *)
(* never holds more than it was issued for and is never overdrawn.         *)
(***************************************************************************)
THEOREM GrantsAreNeverOverfilled ==
    Spec => []((\A g \in Accounts : grants[g].status # "merged") => GrantNeverOverfilled)
<1>1. (\A g \in Accounts : ~CollapsedInto(g) => WithinGrant(g))
        => ((\A g \in Accounts : grants[g].status # "merged") => GrantNeverOverfilled)
  BY DEF CollapsedInto, GrantNeverOverfilled
<1> QED
  BY <1>1, OnlyCollapsesOverfill, PTL
=============================================================================
