\* Two calls and two connections: under no premise, and under each premise of a
\* property by itself.
SPECIFICATION FairSpec
CONSTANTS
    Hosts = {h1}
    Calls = {c1, c2}
    Sockets = {s1, s2}
    Deployments = {{}, {"takes turns", "registers free"}, {"hangs up"}}
INVARIANTS
    TypeOK
    OneCallEach
    BusyForAReason
    SubscribedIsKept
PROPERTIES
    UnansweredIsSwept
CHECK_DEADLOCK FALSE
