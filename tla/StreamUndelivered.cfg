SPECIFICATION DeployedSpec
CONSTANTS
    MaxRequests = 2
    Price = 2
    Deltas = {4}
    Deposits = {8}
    Text = 4
    SettleEvery = 2
    Deployments = {{}}
INVARIANTS
    ClaimedIsStreamed
CHECK_DEADLOCK FALSE
