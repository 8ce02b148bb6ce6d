SPECIFICATION FairSpec
CONSTANTS
    None = None
    Users = {u1}
    Orders = {o1, o2}
    OrderUser <- OneBuyer
    Plans = {o1}
    Recurring = {o1}
    Attached0 = {o1, o2}
    Pages = {page}
    Sweep = sweep
    StoreConfigured = FALSE
    MaxAttempts = 1
    MaxRestarts = 0
CHECK_DEADLOCK FALSE
PROPERTY PaidIsCredited
