SPECIFICATION Spec
CONSTANTS
    a1 = a1
    a2 = a2
    j1 = j1
    j2 = j2
    Accounts <- TwoAccounts
    Jobs <- OneJob
    Owner <- OwnedByA1
    Cost <- CostTwo
    TopUps = {1}
    Exact = {}
    Retryable = {}
    Legacy = {}
    Amounts = {1}
    Actuals = {0, 2}
    GrantMicro = 1
    BudgetMicro = 2
    FreeDraws = {0}
    MaxTries = 1
    MaxCrashes = 0
    NoAccount = NoAccount
    NoGrant = NoGrant
INVARIANT
    GrantNeverOverfilled
CHECK_DEADLOCK FALSE
