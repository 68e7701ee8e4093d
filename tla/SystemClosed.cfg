SPECIFICATION SettlingSpec
CONSTANTS
    Calls = {r1, r2, r3}
    Channels = {c1}
    Price = 1
    Deposit = 2
    MaxAmount = 3
    Deployments = {
        {"reliable", "waiting", "one at a time", "in budget", "closes last", "settles last"}}
PROPERTIES
    ClosedIsSettled
CHECK_DEADLOCK FALSE
