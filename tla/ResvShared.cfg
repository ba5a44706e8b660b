SPECIFICATION Spec
CONSTANTS
    a1 = a1
    a2 = a2
    j1 = j1
    j2 = j2
    Accounts <- OneAccount
    Jobs <- TwoJobs
    Owner <- OwnedByA1
    Cost <- CostTwo
    TopUps = {1, 2}
    Exact = {j1}
    Retryable = {j1}
    Legacy = {}
    Amounts = {2}
    Actuals = {1}
    GrantMicro = 3
    BudgetMicro = 3
    FreeDraws = {0}
    MaxTries = 2
    MaxCrashes = 0
    NoAccount = NoAccount
    NoGrant = NoGrant
INVARIANTS
    GrantNeverOverfilled
    BalanceMatchesLedger
PROPERTY
    ImplementsJobMoney
CHECK_DEADLOCK FALSE
