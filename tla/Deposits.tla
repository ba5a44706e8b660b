------------------------------ MODULE Deposits ------------------------------
(***************************************************************************)
(* Crediting confirmed on-chain transfers to accounts.  A claim verifies   *)
(* the transfer, locks its canonical account, then the caps of the asset,  *)
(* and writes receipt and credit in one transaction.  Claims run in any    *)
(* number of processes; accounts merge and the day changes between their   *)
(* steps.  One asset is modelled: receipts, caps and locks are per asset.   *)
(***************************************************************************)
EXTENDS Integers, FiniteSetsExt

CONSTANTS
    Transfers,      \* confirmed transfers to the treasury
    Funders,        \* accounts
    SentBy,         \* the account whose verified wallet sent a transfer
    Claims,         \* claims in progress
    Credits,        \* what a claim may be worth at the price it reads
    DepositMax, AccountDayMax, NetworkDayMax,
    FinalDate,      \* bound of this model
    NoTx, NoFunder

ASSUME DepositAssumption ==
    /\ SentBy \in [Transfers -> Funders] /\ Credits \subseteq Nat \ {0}
    /\ DepositMax \in Nat /\ AccountDayMax \in Nat /\ NetworkDayMax \in Nat
    /\ FinalDate \in Nat /\ IsFiniteSet(Funders)
    /\ NoTx \notin Transfers /\ NoFunder \notin Funders

VARIABLES
    date,           \* the UTC day
    canonical,      \* the account an account was merged into, or itself
    funded,         \* the funded balance of an account
    deposits,       \* grid_deposits: the receipts
    claim           \* what a claim has done, for whom and what it credits

depositVars == <<date, canonical, funded, deposits, claim>>

NoClaim == [phase |-> "idle", funder |-> NoFunder, tx |-> NoTx, micro |-> 0]

DepositTypeOK ==
    /\ date \in 0..FinalDate /\ canonical \in [Funders -> Funders]
    /\ funded \in [Funders -> Nat]
    /\ deposits \subseteq [tx : Transfers, account : Funders, micro : Credits, on : 0..FinalDate]
    /\ claim \in [Claims -> [phase : {"idle", "verified", "locked", "capped"},
                             funder : Funders \union {NoFunder},
                             tx : Transfers \union {NoTx}, micro : Credits \union {0}]]

DepositInit ==
    /\ date = 0
    /\ canonical = [f \in Funders |-> f]
    /\ funded = [f \in Funders |-> 0]
    /\ deposits = {}
    /\ claim = [c \in Claims |-> NoClaim]

DepositSum(rows) == MapThenSumSet(LAMBDA d : d.micro, rows)

\* The chain confirms the transfer, a wallet of the account sent it, and the
\* price of the moment values it.
Verify(c, f, t) ==
    /\ claim[c].phase = "idle"
    /\ canonical[f] = f /\ canonical[SentBy[t]] = f
    /\ \E micro \in Credits :
         claim' = [claim EXCEPT ![c] = [phase |-> "verified", funder |-> f, tx |-> t, micro |-> micro]]
    /\ UNCHANGED <<date, canonical, funded, deposits>>

\* Rows a claim keeps locked until it commits: its account and the canonical one.
LockedBy(c) == IF claim[c].phase \in {"locked", "capped"}
               THEN {claim[c].funder, canonical[claim[c].funder]} ELSE {}

Receipted(t, f) == \E d \in deposits : d.tx = t

\* _locked_canonical_account; a receipt that is already there ends the claim.
LockAccount(c) ==
    LET f == claim[c].funder IN
    /\ claim[c].phase = "verified"
    /\ \A e \in Claims \ {c} : {f, canonical[f]} \intersect LockedBy(e) = {}
    /\ claim' = IF Receipted(claim[c].tx, canonical[f])
                THEN [claim EXCEPT ![c] = NoClaim]
                ELSE [claim EXCEPT ![c].phase = "locked"]
    /\ UNCHANGED <<date, canonical, funded, deposits>>

\* (mutant) the asset's caps are checked without a lock
CapsUnlocked == TRUE

CapsFree == \A c \in Claims : claim[c].phase # "capped"

\* _enforce_daily_caps: the lock of the asset, and then the sums of today.
EnforceCaps(c) ==
    LET micro == claim[c].micro
        today == {d \in deposits : d.on = date}
        own   == {d \in today : d.account = canonical[claim[c].funder]} IN
    /\ claim[c].phase = "locked" /\ CapsFree
    /\ claim' = IF /\ micro <= DepositMax
                   /\ DepositSum(own) + micro <= AccountDayMax
                   /\ DepositSum(today) + micro <= NetworkDayMax
                THEN [claim EXCEPT ![c].phase = "capped"]
                ELSE [claim EXCEPT ![c] = NoClaim]
    /\ UNCHANGED <<date, canonical, funded, deposits>>

\* Receipt, ledger entry and balance, and the commit; the unique key of the
\* transfer would break it.
RecordAndCredit(c) ==
    LET f == canonical[claim[c].funder] IN
    /\ claim[c].phase = "capped"
    /\ IF Receipted(claim[c].tx, f)
       THEN UNCHANGED <<funded, deposits>>
       ELSE /\ deposits' = deposits \union {[tx |-> claim[c].tx, account |-> f,
                                             micro |-> claim[c].micro, on |-> date]}
            /\ funded' = [funded EXCEPT ![f] = @ + claim[c].micro]
    /\ claim' = [claim EXCEPT ![c] = NoClaim]
    /\ UNCHANGED <<date, canonical>>

\* The process or its database session dies: nothing was written.
ClaimDies(c) ==
    /\ claim[c].phase # "idle"
    /\ claim' = [claim EXCEPT ![c] = NoClaim]
    /\ UNCHANGED <<date, canonical, funded, deposits>>

\* merge_accounts moves the balance and leaves the receipts where they are.
MergeFunders(dst, src) ==
    /\ dst # src /\ canonical[dst] = dst /\ canonical[src] = src
    /\ \A c \in Claims : {dst, src} \intersect LockedBy(c) = {}
    /\ canonical' = [f \in Funders |-> IF canonical[f] = src THEN dst ELSE canonical[f]]
    /\ funded' = [funded EXCEPT ![dst] = @ + funded[src], ![src] = 0]
    /\ UNCHANGED <<date, deposits, claim>>

NextDate ==
    /\ date < FinalDate /\ date' = date + 1
    /\ UNCHANGED <<canonical, funded, deposits, claim>>

DepositNext ==
    \/ \E c \in Claims :
         \/ LockAccount(c) \/ EnforceCaps(c) \/ RecordAndCredit(c) \/ ClaimDies(c)
         \/ \E f \in Funders, t \in Transfers : Verify(c, f, t)
    \/ \E dst, src \in Funders : MergeFunders(dst, src)
    \/ NextDate

DepositSpec == DepositInit /\ [][DepositNext]_depositVars

(***************************************************************************)
(* A transfer is credited once, whoever claims it, at once, again, or      *)
(* after a merge; the balances are what the receipts say; and on no day    *)
(* have an account's or the network's receipts exceeded their caps, though *)
(* claims sum and insert in different statements and may do so on          *)
(* different days (deposits.py, _record_and_credit).                       *)
(***************************************************************************)
DepositsExact ==
    /\ \A d, e \in deposits : d.tx = e.tx => d = e
    /\ MapThenSumSet(LAMBDA f : funded[f], Funders) = DepositSum(deposits)
    /\ \A n \in 0..FinalDate :
         LET rows == {d \in deposits : d.on = n} IN
         /\ DepositSum(rows) <= NetworkDayMax
         /\ \A f \in Funders : DepositSum({d \in rows : d.account = f}) <= AccountDayMax
=============================================================================
