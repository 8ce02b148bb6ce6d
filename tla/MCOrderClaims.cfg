SPECIFICATION Spec
CONSTANTS
    None = None
    Users = {u1}
    Orders = {o1, o2}
    OrderUser <- OneBuyer
    Plans = {o1, o2}
    Recurring = {o1, o2}
    Attached0 = {o1}
    Pages = {page}
    Sweep = sweep
    StoreConfigured = TRUE
    MaxAttempts = 2
    MaxRestarts = 1
CHECK_DEADLOCK FALSE
INVARIANTS GrantedOnce RowsArePaid LiveIsBilled
PROPERTY PaysOut
