SPECIFICATION Spec
CONSTANTS
    a1 = a1
    a2 = a2
    j1 = j1
    j2 = j2
    Accounts <- TwoAccounts
    Jobs <- OneJob
    Owner <- OwnedByA1
    Cost <- CostTwo
    TopUps = {1, 2}
    Exact = {}
    Retryable = {}
    Legacy = {}
    Amounts = {1, 2}
    Actuals = {0, 1, 3}
    GrantMicro = 1
    BudgetMicro = 2
    FreeDraws = {0, 1, 2}
    MaxTries = 1
    MaxCrashes = 1
    NoAccount = NoAccount
    NoGrant = NoGrant
INVARIANTS
    IInv
    RefundMeetsDebit
    FundedFirst
    UnpaidCostsNothing
    PaidIsCharged
    PromoBacked
    
CHECK_DEADLOCK FALSE
