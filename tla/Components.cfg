SPECIFICATION FairSpec
CONSTANTS
    Channels = {"ch"}
    Keys = {"k1", "k2"}
    Tasks = {"t1", "t2"}
    MaxAmount = 4
    MinDelta = 1
    SystemDeployments = {
        {"reliable", "waiting", "one at a time", "in budget", "closes last", "settles last"}}
    ChargeDeployments = {
        {"own", "one at a time", "lasting", "waiting", "current", "reliable"}}
    StoreDeployments = {{}, {"one at a time", "whole writes", "files last", "own files"}}
    ServedRequests <- MCServedRequests
    Configs <- MCConfigs
    Servers <- MCServers
INVARIANTS
    SignedBySigner
    
    AmountsAreExact
    AcceptedIsSigned
    RoutedAsAddressed
    ReadIsMade
    BoundToMaker
PROPERTIES
    ImplementsPaymentChannel
    CallsServed
    ImplementsKeyValue
CHECK_DEADLOCK FALSE
