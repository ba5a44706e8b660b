SPECIFICATION Spec
CONSTANTS
    a1 = a1
    a2 = a2
    j1 = j1
    j2 = j2
    Accounts <- OneAccount
    Jobs <- OneJob
    Owner <- OwnedByA1
    Cost <- CostTwo
    TopUps = {1}
    Exact = {j1}
    Retryable = {j1}
    Legacy = {}
    Amounts = {2}
    Actuals = {0}
    GrantMicro = 1
    BudgetMicro = 1
    FreeDraws = {0}
    MaxTries = 2
    MaxCrashes = 1
    NoAccount = NoAccount
    NoGrant = NoGrant
INVARIANT
    PromoBacked
CHECK_DEADLOCK FALSE
