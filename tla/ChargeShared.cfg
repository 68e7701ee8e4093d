SPECIFICATION DeployedSpec
CONSTANTS
    a1 = a1
    move = move
    usdc = usdc
    Accounts = {a1}
    Native = move
    Tokens = {usdc}
    Spellings = {"short", "padded"}
    Short = "short"
    Sums = {1}
    Calls = {r1, r2}
    Requests <- MCRequests
    Seconds = {0}
    Deployments = {
        {"own", "lasting", "patient", "waiting", "current", "connected"}}
INVARIANTS
    OneTransferEach
CHECK_DEADLOCK FALSE
