SPECIFICATION StreamSpec
CONSTANTS
    Carriers = {c1}
    MaxEntries = 2
    MaxRelayed = 1
INVARIANT
    SuccessIsSettled
CHECK_DEADLOCK FALSE
