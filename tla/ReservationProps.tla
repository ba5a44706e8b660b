-------------------------- MODULE ReservationProps --------------------------
(***************************************************************************)
(* What the reservation lifecycle promises, and the fairness its liveness  *)
(* needs: request and terminal coroutines keep running and the sweeper     *)
(* loop of main.py (_reservation_sweeper) never stops.                     *)
(***************************************************************************)
EXTENDS Reservations, Functions

\* What a job has cost the purchased pocket so far.
Net(j) == -(ledger[HoldRef(j)].delta + ledger[RefundRef(j)].delta + ledger[ExtraRef(j)].delta)

JobRows(j) == <<ledger[HoldRef(j)], ledger[RefundRef(j)], ledger[ExtraRef(j)]>>

(***************************************************************************)
(* The funded part of a balance is a subset of it, never negative          *)
(* (ck_grid_credits_funded_subset): no order of debits, refunds, extra     *)
(* debits and merges makes a refund return more funded value than it may.  *)
(***************************************************************************)
FundedSubset == \A a \in Accounts : 0 <= funded[a] /\ funded[a] <= balance[a]

(***************************************************************************)
(* A debit exists exactly when its durable reservation row does and holds  *)
(* purchased credit, in the same amount and for the same account: the      *)
(* "reservation_inconsistent" alert of authorize_request never fires.      *)
(***************************************************************************)
DebitHasReservation == \A j \in Jobs :
    LET hold == ledger[HoldRef(j)] IN
    /\ hold # NoRow <=> res[j].status # "none" /\ PaidHeld(j) > 0
    /\ hold # NoRow => hold.account = res[j].account /\ hold.delta = -PaidHeld(j)

(***************************************************************************)
(* A refund goes to the account the hold was taken from, returns no more   *)
(* than the hold and no more funded value than the hold consumed, even     *)
(* when accounts were merged in between.                                   *)
(***************************************************************************)
RefundMeetsDebit == \A j \in Jobs :
    LET hold   == ledger[HoldRef(j)]
        refund == ledger[RefundRef(j)]
    IN  refund # NoRow =>
            /\ refund.account = hold.account
            /\ refund.delta <= -hold.delta
            /\ 0 <= refund.funded /\ refund.funded <= -hold.funded

(***************************************************************************)
(* Funded value is consumed first: over its hold and its refund a job has  *)
(* consumed as much funded value as it could, and a grant is never turned  *)
(* into funded value by a refund.                                          *)
(***************************************************************************)
FundedFirst == \A j \in Jobs :
    LET hold   == ledger[HoldRef(j)]
        refund == ledger[RefundRef(j)]
    IN  refund # NoRow =>
            -(hold.funded + refund.funded) = Lesser(-hold.funded, -(hold.delta + refund.delta))

(***************************************************************************)
(* A closed reservation whose worker is not paid cost its account nothing: *)
(* a release returns every micro-USD that was held, once, whichever of the *)
(* terminals, late completions and sweeps came first.                      *)
(***************************************************************************)
UnpaidCostsNothing == \A j \in Jobs :
    res[j].status = "settled" /\ ~paid[j] => Net(j) = 0

(***************************************************************************)
(* A paid worker's job is charged what was counted.  The purchased pocket  *)
(* pays the part the promotional and free holds do not cover, and less     *)
(* only when the balance could not cover an overrun of the hold.           *)
(***************************************************************************)
Charged(j) ==
    res[j].status = "settled" /\ paid[j] /\ res[j].actual # Nothing =>
        \/ Net(j) = res[j].actual - Lesser(res[j].promo + res[j].free, res[j].actual)
        \/ res[j].actual > res[j].reserved /\ Net(j) = PaidHeld(j)

PaidIsCharged == \A j \in Jobs : Charged(j)

(***************************************************************************)
(* Terminal states are final: after a reservation is closed no duplicate   *)
(* completion, late release or sweep moves money of that job or pays its   *)
(* worker.                                                                 *)
(***************************************************************************)
TerminalIsFinal == [][\A j \in Jobs : res[j].status = "settled" =>
                        /\ res'[j] = res[j]
                        /\ paid'[j] = paid[j]
                        /\ JobRows(j)' = JobRows(j)]_vars

(***************************************************************************)
(* A job whose worker is paid is never refunded by the stale-hold sweeper, *)
(* although the sweeper decides on a read of the worker ledger that may be *)
(* out of date by the time it acts.                                        *)
(***************************************************************************)
SweepNeverRefundsPaidWork == [][\A j \in Jobs :
    sweep[j] = "release" /\ sweep'[j] = "idle" /\ res'[j] # res[j] => ~paid[j]]_vars

(***************************************************************************)
(* Promotional value is its own pocket: what an open reservation counts as *)
(* promotional is really kept from a grant.                                *)
(***************************************************************************)
Backed(j)   == Held(j) => res[j].promo <= spends[j].kept
PromoBacked == \A j \in Jobs : Backed(j)

(***************************************************************************)
(* A grant never holds more than it was issued for, however often spends   *)
(* of it are released by terminals, undone requests and the sweeper.       *)
(***************************************************************************)
WithinGrant(g) == 0 <= grants[g].remaining /\ grants[g].remaining <= grants[g].amount

GrantNeverOverfilled == \A g \in Accounts : WithinGrant(g)

(***************************************************************************)
(* A merged account is empty for good: no top-up, refund, grant or open    *)
(* hold of purchased or promotional credit lands on it, although requests  *)
(* authenticated before the merge still carry its id.  (A hold that the    *)
(* daily allowance covers in full may: it has nothing to give back.)       *)
(***************************************************************************)
RetiredIsEmpty == \A a \in Accounts : Retired(a) =>
    /\ balance[a] = 0
    /\ Owned(a) = {}
    /\ \A j \in Jobs : Held(j) /\ (PaidHeld(j) > 0 \/ res[j].promo > 0) => res[j].account # a

RowsOf(a)       == {ref \in Refs : ledger[ref].account = a}
Deltas(a)       == SumFunctionOnSet([ref \in Refs |-> ledger[ref].delta], RowsOf(a))
FundedDeltas(a) == SumFunctionOnSet([ref \in Refs |-> ledger[ref].funded], RowsOf(a))

(***************************************************************************)
(* The balances are a cache of the ledger: billing_health counts no        *)
(* mismatched account, for spendable and for funded credit.                *)
(***************************************************************************)
BalanceMatchesLedger == \A a \in Accounts :
    balance[a] = Deltas(a) /\ funded[a] = FundedDeltas(a)

(***************************************************************************)
(* A ledger row, once written, stays as it is, for good: no refund, sweep, *)
(* merge or repeated call ever writes to a ref that was used.              *)
(***************************************************************************)
LedgerIsAppendOnly == [][\A ref \in Refs : ledger[ref] # NoRow => ledger'[ref] = ledger[ref]]_vars

\* What the rows of a job come to, the credit behind an old hold included.
JobDelta(j)  == ledger[OpeningRef(j)].delta - Net(j)
JobFunded(j) == ledger[OpeningRef(j)].funded + ledger[HoldRef(j)].funded
                + ledger[RefundRef(j)].funded + ledger[ExtraRef(j)].funded

(***************************************************************************)
(* No credit is created or lost: all balances together are what was        *)
(* credited less what the jobs cost net, and all funded balances what was  *)
(* deposited less the funded value the jobs consumed.  A merge moves both  *)
(* and changes neither.                                                    *)
(***************************************************************************)
MoneyConserved ==
    /\ SumFunctionOnSet(balance, Accounts)
         = SumFunctionOnSet([t \in TopUps |-> ledger[TopUpRef(t)].delta], TopUps)
           + SumFunctionOnSet([j \in Jobs |-> JobDelta(j)], Jobs)
    /\ SumFunctionOnSet(funded, Accounts)
         = SumFunctionOnSet([t \in TopUps |-> ledger[TopUpRef(t)].funded], TopUps)
           + SumFunctionOnSet([j \in Jobs |-> JobFunded(j)], Jobs)

-----------------------------------------------------------------------------
(***************************************************************************)
(* The inductive invariant behind the theorems of ReservationSafety.       *)
(***************************************************************************)

\* Aliases lead to a root, retired accounts are drained, and an open hold of
\* purchased credit belongs to a root: a merge waits for it.
AccountsInv ==
    /\ \A a \in Accounts : canon[canon[a]] = canon[a]
    /\ \A a \in Accounts : Retired(a) => balance[a] = 0
    /\ \A j \in Jobs : Held(j) /\ PaidHeld(j) > 0 => ~Retired(res[j].account)

\* The request has at most the price from the grants, and no row before its end.
RequestInv(j) ==
    /\ spends[j].amount \in 0..Cost[j]
    /\ req[j].draw \in 0..Cost[j]
    /\ req[j].stage # "dispatched" => res[j].status = "none" /\ ~paid[j]

\* What the sweeper read of the worker ledger stays true: rows are never
\* deleted, and only a legacy hold is open while its worker row exists.
SweepInv(j) ==
    /\ sweep[j] = "settle" => paid[j]
    /\ sweep[j] = "release" => j \notin Legacy
    /\ j \in Legacy => paid[j]
    /\ Held(j) /\ paid[j] => j \in Legacy

IsHoldRow(j, row) ==
    IF PaidHeld(j) > 0
    THEN row.account = res[j].account /\ row.delta = -PaidHeld(j) /\ row.funded \in -PaidHeld(j)..0
    ELSE row = NoRow

\* A refund returns at most the hold, to its account, and the funded value
\* that what stays spent did not consume.
IsRefundOf(hold, row) ==
    /\ row.account = hold.account
    /\ row.delta \in 1..-hold.delta
    /\ row.funded = Greater(0, -hold.funded - (-hold.delta - row.delta))

RowsInv(j) ==
    LET hold   == ledger[HoldRef(j)]
        refund == ledger[RefundRef(j)]
        extra  == ledger[ExtraRef(j)]
    IN  /\ res[j].promo >= 0 /\ res[j].free >= 0 /\ PaidHeld(j) >= 0
        /\ res[j].status = "none" => PaidHeld(j) = 0
        /\ IsHoldRow(j, hold)
        /\ refund # NoRow => IsRefundOf(hold, refund)
        /\ refund = NoRow \/ extra = NoRow
        /\ extra.delta <= 0
        /\ res[j].status # "settled" => refund = NoRow /\ extra = NoRow /\ res[j].actual = Nothing
        /\ res[j].status = "settled" /\ ~paid[j] => refund.delta = PaidHeld(j) /\ extra = NoRow

IInv ==
    /\ TypeOK
    /\ FundedSubset
    /\ AccountsInv
    /\ \A j \in Jobs : RequestInv(j) /\ SweepInv(j) /\ RowsInv(j) /\ Charged(j)

\* The balances are what the ledger says, and a merge finds its two refs free.
LedgerInv ==
    /\ BalanceMatchesLedger
    /\ \A a \in Accounts : ~Retired(a) => ledger[MergeOutRef(a)] = NoRow /\ ledger[MergeInRef(a)] = NoRow

-----------------------------------------------------------------------------
(***************************************************************************)
(* The inductive invariant of the promotional pocket, with IInv.           *)
(***************************************************************************)

\* A grant has an owner that is not retired; before its issue it is of the
\* account it is named by, and no spend draws on it.
GrantsInv ==
    /\ \A a \in Accounts : Retired(a) => Owned(a) = {}
    /\ \A g \in Accounts : grants[g].status = "none" => grants[g].owner = g
    /\ \A j \in Jobs : spends[j].grant \in Accounts => grants[spends[j].grant].status # "none"

\* A spend keeps all it took until its first release.
SpendInv(j) ==
    /\ spends[j].kept \in 0..spends[j].amount
    /\ spends[j].status = "none" => spends[j].amount = 0 /\ spends[j].grant = NoGrant
    /\ spends[j].status = "held" => spends[j].kept = spends[j].amount
    /\ spends[j].grant = NoGrant => spends[j].amount = 0

\* What the request and its reservation count as promotional is what the spend
\* took, or nothing.
DrawInv(j) ==
    /\ req[j].draw \in {0, spends[j].amount}
    /\ req[j].stage = "drawing" => req[j].draw = 0
    /\ res[j].promo \in {0, spends[j].amount}
    /\ res[j].status = "none" => res[j].promo = 0
    /\ after[j] # Nothing => res[j].status = "settled" /\ after[j] \in 0..res[j].promo
    /\ promoSweep[j] \in {Nothing, 0, spends[j].amount}
    /\ j \in aged \/ promoSweep[j] # Nothing => spends[j].status # "none"

\* An account is not retired while a retryable job is admitted to it, or while a
\* request has promotional credit of it in hand.
RootInv(j) ==
    /\ j \in Retryable /\ req[j].stage \in InFlight => ~Retired(req[j].account)
    /\ req[j].stage = "holding" /\ req[j].draw > 0 => ~Retired(req[j].account)
    /\ Held(j) /\ res[j].promo > 0 => ~Retired(res[j].account)

\* A job that is admitted once: its spend is not swept while its request runs or
\* its reservation is open, so that a sweep afterwards gives nothing back.
OnceInv(j) ==
    /\ req[j].stage \in {"idle", "drawing"} => spends[j].status = "none"
    /\ req[j].stage = "holding" => spends[j].status \in {"none", "held"}
    /\ req[j].stage = "holding" /\ spends[j].status = "held" => spends[j].owner = req[j].account
    /\ req[j].stage \in {"idle"} \cup InFlight => j \notin aged /\ promoSweep[j] = Nothing
    /\ req[j].stage = "dispatched" /\ res[j].status = "none" => spends[j].status = "none"
    /\ Held(j) => spends[j].status \in {"none", "held"} /\ promoSweep[j] = Nothing
    /\ res[j].status = "settled" => promoSweep[j] \in {Nothing, spends[j].amount}

\* A part of a spend is kept only by the terminal of a job that is admitted
\* once, and nothing that is still to come would give back more.
PartInv(j) ==
    \/ spends[j].kept \in {0, spends[j].amount}
    \/ j \notin Exact /\ res[j].status = "settled" /\ after[j] = Nothing

\* A job of an exact price keeps all of its promotional part or none.
ExactInv(j) == j \in Exact => after[j] \in {Nothing, 0, res[j].promo}

PocketInv ==
    /\ GrantsInv
    /\ \A j \in Jobs : SpendInv(j) /\ DrawInv(j) /\ RootInv(j) /\ PartInv(j) /\ ExactInv(j)
    /\ \A j \in Jobs \ Retryable : OnceInv(j)

\* Another grant of the account, or this one, was collapsed in a merge.
CollapsedInto(g) == \E h \in Accounts :
    grants[h].status = "merged" /\ canon[grants[h].owner] = canon[grants[g].owner]

\* A grant's remainder and what its spends keep fit into it.  A collapse takes
\* the larger of two remainders and leaves the spends with their grants, so this
\* is kept only of grants nothing was collapsed into.
KeptFrom(g) == SumFunctionOnSet(
    [j \in Jobs |-> IF spends[j].grant = g THEN spends[j].kept ELSE 0], Jobs)

GrantsFit == \A g \in Accounts : ~CollapsedInto(g) =>
    /\ 0 <= grants[g].remaining
    /\ grants[g].remaining + KeptFrom(g) <= grants[g].amount

-----------------------------------------------------------------------------
(***************************************************************************)
(* The lifecycle implements JobMoney.  The phase of a closed reservation   *)
(* is read off the worker ledger: charged if and only if the worker is     *)
(* paid.                                                                   *)
(***************************************************************************)
Phase(j) == CASE res[j].status = "none" -> "open"
              [] res[j].status = "held" -> "held"
              [] OTHER -> IF paid[j] THEN "charged" ELSE "refunded"

Money == INSTANCE JobMoney WITH
            phase  <- [j \in Jobs |-> Phase(j)],
            worker <- paid,
            cost   <- [j \in Jobs |-> Net(j)]

ImplementsJobMoney == Money!MoneySpec

-----------------------------------------------------------------------------
Fairness == \A j \in Jobs :
    /\ WF_vars(DrawPromo(j) \/ DrawFails(j)) /\ WF_vars(Reserves(j) \/ HoldRefused(j))
    /\ WF_vars(UndoDraw(j))
    /\ WF_vars(RunAfter(j))
    /\ WF_vars(SweepList(j)) /\ WF_vars(SweepLookup(j))
    /\ WF_vars(SweepRelease(j)) /\ WF_vars(SweepSettles(j))
    /\ WF_vars(SpendAges(j)) /\ WF_vars(PromoSweepRead(j)) /\ WF_vars(PromoSweepAct(j))

FairSpec == Spec /\ Fairness

(***************************************************************************)
(* Every hold is eventually closed and every promotional spend eventually  *)
(* settled, whatever crashed: nothing a request takes is stranded.         *)
(***************************************************************************)
HoldsAreClosed  == \A j \in Jobs : Held(j) ~> res[j].status = "settled"
SpendsAreClosed == \A j \in Jobs : spends[j].status = "held" ~> spends[j].status = "settled"
=============================================================================
