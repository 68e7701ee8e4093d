\* A party of a call disconnects: its receiver stays as long as the call.
SPECIFICATION FairSpec
CONSTANTS
    Hosts = {h1}
    Calls = {c1}
    Sockets = {s1, s2}
    Deployments = {{"takes turns", "registers free"}}
PROPERTIES
    AbandonedIsSwept
CHECK_DEADLOCK FALSE
