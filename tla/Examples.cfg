SPECIFICATION ExamplesSpec
CONSTANTS
    MaxRequests = 3
    Price = 2
    Deltas = {2, 3, 4}
    Deposits = {6, 9}
    Text = 3
    SettleEvery = 2
    Deployments = {{}, {"reliable"}}
    Visits = {v1, v2, v3, v4}
    Sources = {s1, s2}
    Limits = {0, 1, 2}
    Window = 1
    MaxTime = 2
    ServiceDeployments = {
        {"quick", "patient", "few"},
        {"quick", "smooth", "few"},
        {"quick", "patient", "in turn"},
        {"alone"},
        {"alone", "smooth"}}
    Calls = {"c1", "c2"}
    Initial = 1
    Delta = 1
    Deposit = 2
    TopUp = 1
    MaxDeposit = 3
    PagesDeployments = {
        {"alone", "executed"},
        {"alone", "undisturbed", "granted"},
        {"alone", "executed", "undisturbed", "granted"},
        {"brief", "executed", "undisturbed", "granted"}}
INVARIANTS
    TypeOK
    CountIsFair
    NothingSoldTwice
    StreamedIsSettled
    LimitHolds
    CompletedIsDone
    PaidIsServed
    PagesTypeOK
    EarnedIsKept
CHECK_DEADLOCK FALSE
