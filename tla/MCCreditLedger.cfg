SPECIFICATION Spec
CONSTANTS
    u1 = u1
    c1 = c1  c2 = c2  c3 = c3
    order1 = order1
    jobA = jobA  jobB = jobB
    None = None
    Users <- MCUsers
    Calls <- MCCalls
    Receipts <- MCReceipts
    CallUser <- MCCallUser
    CallJob <- MCCallJob
    CallCost <- MCCallCost
    ReceiptUser <- MCReceiptUser
    ReceiptCredits <- MCReceiptCredits
    SignupBonus = 2
    MaxAttempts = 2
CHECK_DEADLOCK FALSE
INVARIANTS NeverNegative LedgerAccounts PaidOnce AnswerMatchesLedger
