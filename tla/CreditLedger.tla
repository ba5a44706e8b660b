---------------------------- MODULE CreditLedger ----------------------------
(***************************************************************************)
(* The prepaid credit pocket (grid_api/services/credits.py, first half):   *)
(* the cached balance of every account, the append-only credit ledger that *)
(* is the truth behind it, and the funded (externally paid) subset of both *)
(* (docs/architecture/FUNDED_CREDIT_LINEAGE.md).                           *)
(*                                                                         *)
(* The module has the state and the operations; Reservations calls them    *)
(* from the transactions of the program.  Amounts are integer micro-USD.   *)
(***************************************************************************)
EXTENDS Billing, FiniteSets

CONSTANTS
    TopUps,     \* external refs of credit(): deposits and operator grants
    NoAccount   \* the account of a ledger row that was never written

ASSUME NoAccountAssumption == NoAccount \notin Accounts
ASSUME LedgerAssumption == IsFiniteSet(Accounts) /\ IsFiniteSet(Jobs) /\ IsFiniteSet(TopUps)

VARIABLES
    balance,    \* grid_credits.balance_micro
    funded,     \* grid_credits.funded_balance_micro
    ledger,     \* grid_credit_ledger, one row per UNIQUE ref
    canon       \* canonical_account_id: the root of every alias chain

creditVars == <<balance, funded, ledger, canon>>

(***************************************************************************)
(* The refs of the ledger rows.  The suffixes of the code (":refund",      *)
(* ":extra", "merge:...:out") are the first component.                     *)
(***************************************************************************)
HoldRef(j)     == <<"hold", j>>
RefundRef(j)   == <<"refund", j>>
ExtraRef(j)    == <<"extra", j>>
TopUpRef(t)    == <<"topup", t>>
MergeOutRef(a) == <<"out", a>>
MergeInRef(a)  == <<"in", a>>
OpeningRef(j)  == <<"opening", j>>  \* the credit behind a hold older than Init

JobRefs == {"hold", "refund", "extra", "opening"} \X Jobs
Refs    == JobRefs \cup ({"topup"} \X TopUps) \cup ({"out", "in"} \X Accounts)

Row(a, delta, fdelta) == [account |-> a, delta |-> delta, funded |-> fdelta]
NoRow == Row(NoAccount, 0, 0)
Rows  == [account : Accounts \cup {NoAccount}, delta : Int, funded : Int]

CreditTypeOK ==
    /\ balance \in [Accounts -> Int]
    /\ funded  \in [Accounts -> Int]
    /\ ledger  \in [Refs -> Rows]
    /\ canon   \in [Accounts -> Accounts]

Retired(a) == canon[a] # a

(***************************************************************************)
(* One credit and one debit in the caller's transaction.  A used ref is an *)
(* IntegrityError, which every caller turns into a rollback.               *)
(***************************************************************************)
CreditInSession(a, amount, fundedAmount, ref) ==
    /\ ledger[ref] = NoRow
    /\ ledger'  = [ledger EXCEPT ![ref] = Row(a, amount, fundedAmount)]
    /\ balance' = [balance EXCEPT ![a] = @ + amount]
    /\ funded'  = [funded EXCEPT ![a] = @ + fundedAmount]

\* The funded part of a balance is spent first.
FundedUsed(a, amount) == Lesser(funded[a], amount)

\* (mutant) the ledger row of a refused debit is not rolled back
DebitWithoutRollback(a, amount, ref) ==
    /\ ledger[ref] = NoRow
    /\ ledger'  = [ledger EXCEPT ![ref] = Row(a, -amount, -FundedUsed(a, amount))]
    /\ IF balance[a] >= amount
       THEN /\ balance' = [balance EXCEPT ![a] = @ - amount]
            /\ funded'  = [funded EXCEPT ![a] = @ - FundedUsed(a, amount)]
       ELSE UNCHANGED <<balance, funded>>

DebitInSession(a, amount, ref) ==
    /\ ledger[ref] = NoRow
    /\ balance[a] >= amount
    /\ ledger'  = [ledger EXCEPT ![ref] = Row(a, -amount, -FundedUsed(a, amount))]
    /\ balance' = [balance EXCEPT ![a] = @ - amount]
    /\ funded'  = [funded EXCEPT ![a] = @ - FundedUsed(a, amount)]

\* (mutant) a refund returns funded value first
RefundFundedFirst(a, j, amount) ==
    LET hold == ledger[HoldRef(j)]
    IN  IF hold.account = a /\ hold.delta < 0 THEN Lesser(-hold.funded, amount) ELSE 0

\* What part of a refund is funded: the funded part of the original debit that
\* was not spent.  The original is looked up by ref AND account.
RefundFunded(a, j, amount) ==
    LET hold == ledger[HoldRef(j)]
    IN  IF hold.account = a /\ hold.delta < 0
        THEN Greater(0, (-hold.funded) - ((-hold.delta) - amount))
        ELSE 0

RefundInSession(a, j, amount) ==
    CreditInSession(a, amount, RefundFunded(a, j, amount), RefundRef(j))

\* _try_extra_debit_in_session: the shortfall is collected only when it is covered.
TryExtraDebit(a, j, amount) ==
    IF balance[a] >= amount
    THEN DebitInSession(a, amount, ExtraRef(j))
    ELSE UNCHANGED <<ledger, balance, funded>>

\* (mutant) the account is not resolved through its aliases
TopUpUnresolved(t, a, amount, isFunded) ==
    /\ CreditInSession(a, amount, IF isFunded THEN amount ELSE 0, TopUpRef(t))
    /\ UNCHANGED canon

(***************************************************************************)
(* credit(): a top-up, idempotent on its ref, to the canonical account.  A *)
(* verified deposit is funded in full, everything else is a grant.         *)
(***************************************************************************)
TopUp(t, a, amount, isFunded) ==
    /\ CreditInSession(canon[a], amount, IF isFunded THEN amount ELSE 0, TopUpRef(t))
    /\ UNCHANGED canon

(***************************************************************************)
(* The purchased-credit part of merge_accounts: the whole balance of the   *)
(* source moves by a pair of ledger rows and the source becomes an alias.  *)
(***************************************************************************)
MoveBalance(dest, src) ==
    /\ canon' = [a \in Accounts |-> IF canon[a] = src THEN dest ELSE canon[a]]
    /\ IF balance[src] > 0
       THEN /\ balance' = [balance EXCEPT ![dest] = @ + balance[src], ![src] = 0]
            /\ funded'  = [funded EXCEPT ![dest] = @ + funded[src], ![src] = 0]
            /\ ledger'  = [ledger EXCEPT
                    ![MergeOutRef(src)] = Row(src, -balance[src], -funded[src]),
                    ![MergeInRef(src)]  = Row(dest, balance[src], funded[src])]
       ELSE UNCHANGED <<balance, funded, ledger>>
=============================================================================
