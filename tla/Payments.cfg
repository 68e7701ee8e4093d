SPECIFICATION PaymentsSpec
CONSTANTS
    Calls = {r1, r2, r3}
    Channels = {c1, c2}
    Price = 1
    Deposit = 2
    MaxAmount = 2
    Deployments = {
        {},
        {"durable", "closes alone"},
        {"reliable", "opens alone"},
        {"in budget"},
        {"settles last"},
        {"reliable", "waiting", "one at a time", "in budget", "closes last"}}
    a1 = a1
    move = move
    usdc = usdc
    Accounts = {a1}
    Native = move
    Tokens = {usdc}
    Spellings = {"short", "padded"}
    Short = "short"
    Sums = {1}
    Requests <- MCRequests
    Seconds = {0}
    ChargeDeployments = {
        {"one at a time", "legible", "expecting", "lasting"},
        {"lasting", "patient", "waiting", "current", "connected"},
        {"own", "no twins"},
        {"own", "lasting", "patient", "waiting", "current", "connected"}}
SYMMETRY Symmetry
INVARIANTS
    TypeOK
    ServedIsPaid
    HighestIsCounted
    OpenedIsTracked
    InStep
    SettledIsOwed
    HandlersTypeOK
    VouchersCovered
    ServiceCovered
    HighestIsSigned
    ChargesTypeOK
    ChargeIsPaid
    OwnTransfer
    PaidIsServed
CHECK_DEADLOCK FALSE
