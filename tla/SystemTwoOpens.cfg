SPECIFICATION DeployedSpec
CONSTANTS
    Calls = {r1, r2}
    Channels = {c1, c2}
    Price = 1
    Deposit = 2
    MaxAmount = 2
    Deployments = {{"reliable"}}
INVARIANTS
    FundedIsTracked
CHECK_DEADLOCK FALSE
