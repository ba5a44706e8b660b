---------------------------- MODULE Reservations ----------------------------
(***************************************************************************)
(* The life of a reservation (grid_api/services/credits.py): a request     *)
(* draws promotional credit and holds purchased credit before dispatch; a  *)
(* worker terminal, a release or the stale-hold sweeper closes it.  Each   *)
(* SQL transaction is one action.  What the code does in separate commits  *)
(* is separate actions, and a crash may fall between any two of them.      *)
(***************************************************************************)
EXTENDS CreditLedger, Promotions

CONSTANTS
    Owner,      \* the account that submits each job
    Cost,       \* the price authorized for each job
    Exact,      \* media jobs: the price held is the price charged
    Retryable,  \* async video jobs: the job id is derived from the idempotency
                \* key, so a failed admission is retried under the same id
    Legacy,     \* holds whose worker row was written before the atomic terminal
    Amounts,    \* amounts of top-ups
    Actuals,    \* grid-counted costs of text completions
    FreeDraws,  \* what the daily free allowance (Redis, see FreeCredits) can give
    MaxTries,   \* bound: admissions of one retryable job
    MaxCrashes  \* bound: crashes of an API process

ASSUME JobsAssumption ==
    /\ Owner \in [Jobs -> Accounts]
    /\ Cost \in [Jobs -> Nat \ {0}]
    /\ Exact \subseteq Jobs /\ Retryable \subseteq Exact
    /\ Legacy \subseteq Jobs \ Retryable
    /\ Amounts \subseteq Nat \ {0} /\ Actuals \subseteq Nat
    /\ FreeDraws \subseteq Nat
    /\ MaxTries \in Nat /\ MaxCrashes \in Nat

VARIABLES
    req,        \* the request handler of each job: its step and its locals
    res,        \* grid_reservations
    paid,       \* grid_ledger: does the worker-payout row of the job exist
    after,      \* the promo amount to keep that a committed terminal has yet to apply
    sweep,      \* sweep_stale_reservations: its position for each job
    promoSweep, \* sweep_stale_spends: the promo amount to keep it has decided
    aged,       \* spends older than the sweep's cutoff
    crashes

flowVars == <<req, res, paid, after, sweep, promoSweep, aged, crashes>>
vars     == <<creditVars, promoVars, flowVars>>

Nothing == -1   \* no amount: SQL NULL, or no pending step

Stages       == {"idle", "drawing", "holding", "undoing", "dispatched", "closed"}
InFlight     == {"drawing", "holding", "undoing"}
Requests     == [stage : Stages, account : Accounts, draw : Int, tries : Nat]
Holds        == [status : {"none", "held", "settled"}, account : Accounts,
                 reserved : Nat, promo : Int, free : Int, actual : Int]

ReservationTypeOK ==
    /\ req \in [Jobs -> Requests]
    /\ res \in [Jobs -> Holds]
    /\ paid \in [Jobs -> BOOLEAN]
    /\ after \in [Jobs -> Int]
    /\ sweep \in [Jobs -> {"idle", "listed", "release", "settle"}]
    /\ promoSweep \in [Jobs -> Int]
    /\ aged \subseteq Jobs
    /\ crashes \in Nat

TypeOK == CreditTypeOK /\ PromoTypeOK /\ ReservationTypeOK

NoHold(j)   == [status |-> "none", account |-> Owner[j], reserved |-> 0,
                promo |-> 0, free |-> 0, actual |-> Nothing]
Held(j)     == res[j].status = "held"
PaidHeld(j) == res[j].reserved - res[j].free - res[j].promo

OpeningRow(ref) ==
    LET j == ref[2] IN
    CASE ref[1] = "opening" /\ j \in Legacy -> Row(Owner[j], Cost[j], 0)
      [] ref[1] = "hold" /\ j \in Legacy    -> Row(Owner[j], -Cost[j], 0)
      [] OTHER -> NoRow

Init ==
    /\ balance = [a \in Accounts |-> 0]
    /\ funded  = [a \in Accounts |-> 0]
    /\ ledger  = [ref \in Refs |-> OpeningRow(ref)]
    /\ canon   = [a \in Accounts |-> a]
    /\ grants  = [a \in Accounts |-> [status |-> "none", owner |-> a, amount |-> 0,
                                      remaining |-> 0, expired |-> FALSE]]
    /\ grantedMicro = 0
    /\ spends = [j \in Jobs |-> [status |-> "none", owner |-> Owner[j], grant |-> NoGrant,
                                 amount |-> 0, kept |-> 0]]
    /\ req = [j \in Jobs |-> [stage |-> IF j \in Legacy THEN "dispatched" ELSE "idle",
                              account |-> Owner[j], draw |-> 0, tries |-> 0]]
    /\ res = [j \in Jobs |-> IF j \in Legacy
                             THEN [NoHold(j) EXCEPT !.status = "held", !.reserved = Cost[j]]
                             ELSE NoHold(j)]
    /\ paid = [j \in Jobs |-> j \in Legacy]
    /\ after = [j \in Jobs |-> Nothing]
    /\ sweep = [j \in Jobs |-> "idle"]
    /\ promoSweep = [j \in Jobs |-> Nothing]
    /\ aged = {}
    /\ crashes = 0

-----------------------------------------------------------------------------
(***************************************************************************)
(* Admission: authorize_request and authorize_media with                   *)
(* record_reservation=True.  Text and synchronous media jobs have a fresh  *)
(* uuid4; media_jobs.reserve admits a retryable job only for an account    *)
(* that is still canonical and answers an existing journal row itself.     *)
(***************************************************************************)
Request(j) ==
    /\ req[j].stage = "idle" /\ req[j].tries < MaxTries
    /\ IF j \in Retryable THEN ~Retired(Owner[j]) ELSE req[j].tries = 0
    /\ req' = [req EXCEPT ![j] = [stage |-> "drawing", account |-> canon[Owner[j]],
                                  draw |-> 0, tries |-> @.tries + 1]]
    /\ UNCHANGED <<creditVars, promoVars, res, paid, after, sweep, promoSweep, aged, crashes>>

\* Charging is off, or the model is free: dispatched with nothing held.
RequestUncharged(j) ==
    /\ req[j].stage = "idle" /\ req[j].tries = 0 /\ j \notin Retryable
    /\ req' = [req EXCEPT ![j].stage = "dispatched"]
    /\ UNCHANGED <<creditVars, promoVars, res, paid, after, sweep, promoSweep, aged, crashes>>

DrawPromo(j) ==
    /\ req[j].stage = "drawing"
    /\ Consume(j, req[j].account, Cost[j])
    /\ req' = [req EXCEPT ![j].stage = "holding",
                          ![j].draw = Consumed(j, req[j].account, Cost[j])]
    /\ UNCHANGED <<creditVars, res, paid, after, sweep, promoSweep, aged, crashes>>

\* _promo_first: a failed draw falls through to the purchased pocket.
DrawFails(j) ==
    /\ req[j].stage = "drawing"
    /\ req' = [req EXCEPT ![j].stage = "holding"]
    /\ UNCHANGED <<creditVars, promoVars, res, paid, after, sweep, promoSweep, aged, crashes>>

\* _free_first: the daily allowance gives what it can of what is left.
FromFree(j, allowance) == Lesser(allowance, Cost[j] - req[j].draw)

Remainder(j, free) == Cost[j] - req[j].draw - free

\* One transaction: the debit of the remainder and the reservation row.
Hold(j, free) ==
    /\ req[j].stage = "holding"
    /\ IF Remainder(j, free) > 0
       THEN DebitInSession(req[j].account, Remainder(j, free), HoldRef(j))
       ELSE UNCHANGED <<balance, funded, ledger>>
    /\ res' = [res EXCEPT ![j] = [status |-> "held", account |-> req[j].account,
                                  reserved |-> Cost[j], promo |-> req[j].draw,
                                  free |-> free, actual |-> Nothing]]
    /\ req' = [req EXCEPT ![j].stage = "dispatched"]
    /\ UNCHANGED <<canon, promoVars, paid, after, sweep, promoSweep, aged, crashes>>

\* The balance does not cover the remainder, or the insert fails: rolled back.
HoldRefused(j) ==
    /\ req[j].stage = "holding"
    /\ req' = [req EXCEPT ![j].stage = "undoing"]
    /\ UNCHANGED <<creditVars, promoVars, res, paid, after, sweep, promoSweep, aged, crashes>>

Ended(j) == IF j \in Retryable THEN "idle" ELSE "closed"

\* ... and the promotional draw is given back in a transaction of its own.
UndoDraw(j) ==
    /\ req[j].stage = "undoing"
    /\ ReleaseSpend(j, req[j].account, 0)
    /\ req' = [req EXCEPT ![j].stage = Ended(j)]
    /\ UNCHANGED <<creditVars, res, paid, after, sweep, promoSweep, aged, crashes>>

RequestCrash(j) ==
    /\ req[j].stage \in InFlight /\ crashes < MaxCrashes
    /\ req' = [req EXCEPT ![j].stage = Ended(j)]
    /\ crashes' = crashes + 1
    /\ UNCHANGED <<creditVars, promoVars, res, paid, after, sweep, promoSweep, aged>>

-----------------------------------------------------------------------------
(***************************************************************************)
(* Closing a held reservation.  A charge is attributed to the promotional  *)
(* pocket first, then to the daily allowance; the purchased pocket gives    *)
(* back or pays the difference in the same transaction, the promotional    *)
(* one after the commit (the Redis allowance is not part of this module).  *)
(***************************************************************************)
PromoSpent(j, actual) == Lesser(res[j].promo, actual)
FreeSpent(j, actual)  == Lesser(res[j].free, actual - PromoSpent(j, actual))
PaidSpentFirst(j, actual) == Lesser(PaidHeld(j), actual)   \* (mutant) purchased pocket first
PaidSpent(j, actual)  == actual - PromoSpent(j, actual) - FreeSpent(j, actual)

Reconcile(j, actual) ==
    LET a    == canon[res[j].account]
        diff == PaidHeld(j) - PaidSpent(j, actual)
    IN  /\ CASE diff > 0 -> RefundInSession(a, j, diff)
             [] diff < 0 -> TryExtraDebit(a, j, -diff)
             [] OTHER    -> UNCHANGED <<ledger, balance, funded>>
        /\ after' = [after EXCEPT ![j] =
                IF res[j].promo > PromoSpent(j, actual) THEN PromoSpent(j, actual) ELSE Nothing]

\* The exact price stands: nothing moves, the promo hold is only finalized.
KeepExact(j) ==
    /\ after' = [after EXCEPT ![j] = IF res[j].promo > 0 THEN res[j].promo ELSE Nothing]
    /\ UNCHANGED <<ledger, balance, funded>>

\* (mutant) a status the terminals' guard does not know
CloseUnknown(j, actual) ==
    res' = [res EXCEPT ![j].status = "released", ![j].actual = actual]

Close(j, actual) ==
    res' = [res EXCEPT ![j].status = "settled", ![j].actual = actual]

(***************************************************************************)
(* record_and_settle: the worker-payout row and the settlement commit      *)
(* together.  A used job id (duplicate) and a reservation that is no       *)
(* longer held (stale_no_payout) roll the whole transaction back, so they  *)
(* are no step at all; without a reservation the row stands alone.         *)
(***************************************************************************)
MayCompleteClosed(j) == ~paid[j]    \* (mutant) a late success does not check "held"

MayComplete(j) == ~paid[j] /\ res[j].status \in {"none", "held"}

CompleteAndSettle(j, actual) ==
    /\ req[j].stage = "dispatched"
    /\ MayComplete(j) /\ res[j].status # "none"
    /\ actual \in IF j \in Exact THEN {res[j].reserved} ELSE Actuals
    /\ paid' = [paid EXCEPT ![j] = TRUE]
    /\ Close(j, actual)
    /\ IF j \in Exact THEN KeepExact(j) ELSE Reconcile(j, actual)
    /\ UNCHANGED <<canon, promoVars, req, sweep, promoSweep, aged, crashes>>

CompleteUnreserved(j) ==
    /\ req[j].stage = "dispatched"
    /\ MayComplete(j) /\ res[j].status = "none"
    /\ paid' = [paid EXCEPT ![j] = TRUE]
    /\ UNCHANGED <<creditVars, promoVars, req, res, after, sweep, promoSweep, aged, crashes>>

\* (mutant) one pocket is given back, not both
RefundOnePocket(j) ==
    /\ Held(j)
    /\ Close(j, res[j].actual)
    /\ IF PaidHeld(j) > 0 /\ res[j].promo = 0
       THEN RefundInSession(canon[res[j].account], j, PaidHeld(j))
       ELSE UNCHANGED <<ledger, balance, funded>>
    /\ after' = [after EXCEPT ![j] = IF res[j].promo > 0 THEN 0 ELSE Nothing]
    /\ UNCHANGED <<canon, promoVars, req, paid, promoSweep, aged, crashes>>

\* settle_job(status="failed"): the whole hold goes back to its pockets.
Refund(j) ==
    /\ Held(j)
    /\ Close(j, res[j].actual)
    /\ IF PaidHeld(j) > 0
       THEN RefundInSession(canon[res[j].account], j, PaidHeld(j))
       ELSE UNCHANGED <<ledger, balance, funded>>
    /\ after' = [after EXCEPT ![j] = IF res[j].promo > 0 THEN 0 ELSE Nothing]
    /\ UNCHANGED <<canon, promoVars, req, paid, promoSweep, aged, crashes>>

\* release_job, by the request handler or a worker's.  No handler of a legacy
\* hold is left: the process that wrote its worker row is gone.
ReleaseJob(j) ==
    /\ req[j].stage = "dispatched" /\ j \notin Legacy
    /\ Refund(j) /\ UNCHANGED sweep

\* The promotional step of a terminal, after its commit; a crash loses it.
RunAfter(j) ==
    /\ after[j] # Nothing
    /\ ReleaseSpend(j, res[j].account, after[j])
    /\ after' = [after EXCEPT ![j] = Nothing]
    /\ UNCHANGED <<creditVars, req, res, paid, sweep, promoSweep, aged, crashes>>

LoseAfter(j) ==
    /\ after[j] # Nothing /\ crashes < MaxCrashes
    /\ after' = [after EXCEPT ![j] = Nothing]
    /\ crashes' = crashes + 1
    /\ UNCHANGED <<creditVars, promoVars, req, res, paid, sweep, promoSweep, aged>>

-----------------------------------------------------------------------------
(***************************************************************************)
(* sweep_stale_reservations: list the held rows, look each one up in the   *)
(* worker ledger, then settle or release it: three reads and writes that   *)
(* anything may come between.                                              *)
(***************************************************************************)
SweepList(j) ==
    /\ sweep[j] = "idle" /\ Held(j)
    /\ sweep' = [sweep EXCEPT ![j] = "listed"]
    /\ UNCHANGED <<creditVars, promoVars, req, res, paid, after, promoSweep, aged, crashes>>

\* (mutant) the sweeper refunds without looking at the worker ledger
SweepLookupBlind(j) ==
    /\ sweep[j] = "listed"
    /\ sweep' = [sweep EXCEPT ![j] = "release"]
    /\ UNCHANGED <<creditVars, promoVars, req, res, paid, after, promoSweep, aged, crashes>>

\* (mutant) the sweeper skips holds without a worker row
SweepLookupPaidOnly(j) ==
    /\ sweep[j] = "listed"
    /\ sweep' = [sweep EXCEPT ![j] = IF paid[j] THEN "settle" ELSE "idle"]
    /\ UNCHANGED <<creditVars, promoVars, req, res, paid, after, promoSweep, aged, crashes>>

SweepLookup(j) ==
    /\ sweep[j] = "listed"
    /\ sweep' = [sweep EXCEPT ![j] = IF paid[j] THEN "settle" ELSE "release"]
    /\ UNCHANGED <<creditVars, promoVars, req, res, paid, after, promoSweep, aged, crashes>>

SweepRelease(j) ==
    /\ sweep[j] = "release"
    /\ sweep' = [sweep EXCEPT ![j] = "idle"]
    /\ IF Held(j) THEN Refund(j)
       ELSE UNCHANGED <<creditVars, promoVars, req, res, paid, after, promoSweep, aged, crashes>>

\* settle_exact records the price, settle_job of purchased credit does not.
SweepSettle(j, actual) ==
    /\ sweep[j] = "settle"
    /\ actual \in IF j \in Exact THEN {res[j].reserved} ELSE Actuals
    /\ sweep' = [sweep EXCEPT ![j] = "idle"]
    /\ IF ~Held(j) THEN UNCHANGED <<balance, funded, ledger, res, after>>
       ELSE IF j \in Exact THEN Close(j, actual) /\ KeepExact(j)
       ELSE Close(j, res[j].actual) /\ Reconcile(j, actual)
    /\ UNCHANGED <<canon, promoVars, req, paid, promoSweep, aged, crashes>>

(***************************************************************************)
(* sweep_stale_spends: promo holds older than the cutoff.  The cutoff (an  *)
(* hour) exceeds the duration of one request, so a spend never ages while  *)
(* the request that created it runs.                                       *)
(***************************************************************************)
\* (mutant) the cutoff is shorter than a request
SpendAgesAtOnce(j) ==
    /\ spends[j].status = "held" /\ j \notin aged
    /\ aged' = aged \cup {j}
    /\ UNCHANGED <<creditVars, promoVars, req, res, paid, after, sweep, promoSweep, crashes>>

SpendAges(j) ==
    /\ spends[j].status = "held" /\ j \notin aged
    /\ req[j].stage \notin InFlight
    /\ aged' = aged \cup {j}
    /\ UNCHANGED <<creditVars, promoVars, req, res, paid, after, sweep, promoSweep, crashes>>

\* (mutant) spends of settled reservations are left alone
PromoSweepReadOrphans(j) ==
    /\ j \in aged /\ spends[j].status = "held" /\ promoSweep[j] = Nothing
    /\ res[j].status = "none"
    /\ promoSweep' = [promoSweep EXCEPT ![j] = 0]
    /\ UNCHANGED <<creditVars, promoVars, req, res, paid, after, sweep, aged, crashes>>

PromoSweepRead(j) ==
    /\ j \in aged /\ spends[j].status = "held" /\ promoSweep[j] = Nothing
    /\ ~Held(j)
    /\ promoSweep' = [promoSweep EXCEPT ![j] =
            IF res[j].status = "settled" THEN spends[j].amount ELSE 0]
    /\ UNCHANGED <<creditVars, promoVars, req, res, paid, after, sweep, aged, crashes>>

PromoSweepAct(j) ==
    /\ promoSweep[j] # Nothing
    /\ ReleaseSpend(j, spends[j].owner, promoSweep[j])
    /\ promoSweep' = [promoSweep EXCEPT ![j] = Nothing]
    /\ UNCHANGED <<creditVars, req, res, paid, after, sweep, aged, crashes>>

-----------------------------------------------------------------------------
(***************************************************************************)
(* Accounts: top-ups, grants and merges.  merge_accounts holds the row     *)
(* locks of both accounts, which media_jobs.reserve also takes, and        *)
(* refuses while either account has a held reservation or promo spend.     *)
(***************************************************************************)
Involves(d, s, a) == a \in {d, s}

\* (mutant) open reservations do not block a merge
MergeAllowedOpen(d, s) ==
    d # s /\ ~Retired(d) /\ ~Retired(s)

MergeAllowed(d, s) ==
    /\ d # s /\ ~Retired(d) /\ ~Retired(s)
    /\ \A j \in Jobs :
        /\ Held(j) => ~Involves(d, s, res[j].account)
        /\ spends[j].status = "held" => ~Involves(d, s, spends[j].owner)
        /\ j \in Retryable /\ req[j].stage \in InFlight => ~Involves(d, s, req[j].account)

MergeAccounts(d, s) ==
    /\ MergeAllowed(d, s)
    /\ MoveBalance(d, s)
    /\ MergeGrants(d, s)
    /\ UNCHANGED flowVars

Fund(t, a, amount, isFunded) ==
    TopUp(t, a, amount, isFunded) /\ UNCHANGED <<promoVars, flowVars>>

Grant(a) == ~Retired(a) /\ GrantOnce(a) /\ UNCHANGED <<creditVars, flowVars>>

Expire(g) == GrantExpires(g) /\ UNCHANGED <<creditVars, flowVars>>

AccountStep ==
    \/ \E t \in TopUps, a \in Accounts, amount \in Amounts, isFunded \in BOOLEAN :
            Fund(t, a, amount, isFunded)
    \/ \E a \in Accounts : Grant(a)
    \/ \E g \in Accounts : Expire(g)
    \/ \E d, s \in Accounts : MergeAccounts(d, s)

Reserves(j)     == \E f \in FreeDraws : Hold(j, FromFree(j, f))
SweepSettles(j) == \E actual \in Actuals \cup {Cost[j]} : SweepSettle(j, actual)
Completes(j)    == \E actual \in Actuals \cup {Cost[j]} : CompleteAndSettle(j, actual)

JobStep(j) ==
    \/ Request(j) \/ RequestUncharged(j) \/ DrawPromo(j) \/ DrawFails(j)
    \/ Reserves(j) \/ HoldRefused(j) \/ UndoDraw(j) \/ RequestCrash(j)
    \/ Completes(j) \/ CompleteUnreserved(j) \/ ReleaseJob(j)
    \/ RunAfter(j) \/ LoseAfter(j)
    \/ SweepList(j) \/ SweepLookup(j) \/ SweepRelease(j) \/ SweepSettles(j)
    \/ SpendAges(j) \/ PromoSweepRead(j) \/ PromoSweepAct(j)

Next == AccountStep \/ \E j \in Jobs : JobStep(j)

Spec == Init /\ [][Next]_vars
=============================================================================
