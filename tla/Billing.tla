------------------------------- MODULE Billing -------------------------------
(***************************************************************************)
(* What every money module shares: the accounts, the jobs, and the bounds  *)
(* min() and max() the code computes amounts with (integer micro-USD).     *)
(***************************************************************************)
EXTENDS Integers

CONSTANTS
    Accounts,   \* grid_accounts.id
    Jobs        \* job ids; the ref of everything a job holds or spends

Lesser(m, n)  == IF m <= n THEN m ELSE n
Greater(m, n) == IF m >= n THEN m ELSE n
=============================================================================
