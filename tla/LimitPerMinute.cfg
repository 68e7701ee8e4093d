SPECIFICATION DeployedSpec
CONSTANTS
    Calls = {v1, v2, v3, v4}
    Sources = {s1}
    Limits = {2}
    Window = 2
    MaxTime = 3
    Deployments = {{"quick", "patient", "in turn"}}
INVARIANTS
    LimitPerMinute
CHECK_DEADLOCK FALSE
