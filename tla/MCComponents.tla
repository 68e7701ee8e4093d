------------------------------ MODULE MCComponents ------------------------------
(***************************************************************************)
(* Components side by side that share no state: a behavior is one of one   *)
(* of them.  The first three are the session and charge modules under      *)
(* their most orderly premises, where they keep their strongest promises;  *)
(* the others are what these modules rest on.                              *)
(***************************************************************************)
EXTENDS SessionSafety

CONSTANTS
    SystemDeployments, ChargeDeployments,   \* premises
    StoreDeployments,
    ServedRequests,                         \* what ChargeFlow charges
    Configs,                                \* proxies
    Servers                                 \* of challenges

VARIABLES
    component,
    (* SessionSystem *)
    deployedChain, serverStore, serverTask, entry, sessionCall, submitted,
    settlement,
    (* ChargeFlow, and the premises of it or of SessionSystem *)
    mempool, landed, aborted, seen, chargeCall, premises,
    (* ChargeMethod *)
    request, tx, verdict,
    (* Amounts *)
    amount, places, dollars, units,
    (* VoucherBytes *)
    signed, claimed, checked,
    (* ProxyRoutes *)
    config, method, path, answered, found, discovered,
    (* Stores *)
    kept, storeCalls, contents, torn, circumstances,
    (* ChallengeWire *)
    clock, phase, maker, challenge, answer, read, judgement

-----------------------------------------------------------------------------
System == INSTANCE SessionSystemSafety WITH
    Calls <- {"r1", "r2", "r3", "r4"}, Channels <- {"c1", "c2"},
    Price <- 1, Deposit <- 3, MaxAmount <- 4,
    Deployments <- SystemDeployments,
    chain <- deployedChain, store <- serverStore, task <- serverTask,
    call <- sessionCall

Charges == INSTANCE ChargeFlowSafety WITH
    Accounts <- {"a1"}, Native <- "move", Tokens <- {"usdc"},
    Spellings <- {"short", "padded"}, Short <- "short", Sums <- {1},
    Calls <- {"r1", "r2", "r3"}, Requests <- ServedRequests, Seconds <- {0},
    Deployments <- ChargeDeployments, call <- chargeCall

Method == INSTANCE ChargeMethod WITH
    Accounts <- {"a1", "a2"}, Native <- "move", Tokens <- {"usdc"},
    Spellings <- {"short", "padded"}, Short <- "short", Sums <- {1, 2}

Numbers == INSTANCE Amounts WITH
    Signs <- {".", "-", "+", "space"}, Digits <- {"0", "2", "5"}, MaxLength <- 4,
    DecimalPlaces <- 0..3, MaxPlaces <- 2, Wide <- 255, Narrow <- 99

Bytes == INSTANCE VoucherBytes WITH
    Half <- 2, Width <- 2, ChannelIds <- {<<1>>, <<1, 0>>},
    Keys <- {"k1", "k2"}, MaxTotal <- 17, verdict <- checked

Proxy == INSTANCE ProxyRoutes WITH
    Methods <- {"GET", "POST", "PUT"}, Characters <- {"/", "a", "b", "s"},
    MaxLength <- 5

Storage == INSTANCE Stores WITH
    Calls <- {"p1", "p2"}, Keys <- {"k1", "k2"}, Values <- {"v1", "v2"},
    Long <- {"v2"}, FileOf <- [k \in {"k1", "k2"} |-> "k1"], Absent <- "absent",
    store <- kept, calls <- storeCalls

Wire == INSTANCE ChallengeWire WITH
    Requests <- {"q1", "q2", "q3"}, MaxSymbols <- 2, Lifetime <- 1, MaxTime <- 2,
    ChargeOf <- [q \in {"q1", "q2", "q3"} |-> IF q = "q3" THEN "other" ELSE "same"],
    Symbols <- {"'", "/", ",", "=", "CR", "BEL", "e'"}, verdict <- judgement

ASSUME NumbersAssumption == Numbers!AmountsAssumption
ASSUME VouchersAssumption == Bytes!BytesAssumption
ASSUME ProxiesAssumption == Proxy!ProxyAssumption
ASSUME StorageAssumption == Storage!StoresAssumption
ASSUME WiresAssumption == Wire!WireAssumption

-----------------------------------------------------------------------------
systemVars ==
    <<deployedChain, serverStore, serverTask, entry, sessionCall, submitted,
      settlement>>
chargesVars == <<mempool, landed, aborted, seen, chargeCall>>
methodVars == <<request, tx, verdict>>
numbersVars == <<amount, places, dollars, units>>
bytesVars == <<signed, claimed, checked>>
proxyVars == <<config, method, path, answered, found, discovered>>
storageVars == <<kept, storeCalls, contents, torn, circumstances>>
wireVars == <<clock, phase, maker, challenge, answer, read, judgement>>

everything ==
        <<component, premises, vars, systemVars, chargesVars, methodVars,
          numbersVars, bytesVars, proxyVars, storageVars, wireVars>>

Is(name) == component = name

(* The components that do not run remain in one of their initial states.   *)
AnyOf(S) == CHOOSE x \in S : TRUE

NoMethod ==
    /\ request = AnyOf(Method!ChargeRequest)
    /\ tx = AnyOf(Method!Answers(AnyOf(Method!Payload)))
    /\ verdict = "none"

NoNumbers == amount = << >> /\ places = 0 /\ Numbers!Init

NoBytes ==
    LET v == AnyOf(Bytes!Vouchers) IN
    /\ signed = [voucher |-> v, by |-> "typescript"]
    /\ claimed = v
    /\ checked = << >>

NoProxy == config = AnyOf(Configs) /\ method = "GET" /\ path = << >> /\ Proxy!Init
NoStorage == kept = "file" /\ circumstances = {} /\ Storage!Init
NoWire == maker = AnyOf(Servers) /\ Wire!Init

DeployedInit ==
    /\ Init /\ System!Init /\ Charges!Init
    /\ \/ Is("handlers") /\ premises = {}
       \/ Is("system") /\ premises \in SystemDeployments
       \/ Is("charges") /\ premises \in ChargeDeployments
       \/ /\ component \in {"method", "amounts", "bytes", "proxy", "stores", "wire"}
          /\ premises = {}
    /\ IF Is("method") THEN Method!Init ELSE NoMethod
    /\ IF Is("amounts") THEN Numbers!Init ELSE NoNumbers
    /\ IF Is("bytes") THEN Bytes!Init ELSE NoBytes
    /\ IF Is("proxy") THEN Proxy!Init ELSE NoProxy
    /\ IF Is("stores") THEN Storage!Init ELSE NoStorage
    /\ IF Is("wire") THEN Wire!Init ELSE NoWire

-----------------------------------------------------------------------------
OnlyHandlers == UNCHANGED <<component, premises, systemVars, chargesVars,
    methodVars, numbersVars, bytesVars, proxyVars, storageVars, wireVars>>

OnlySystem == UNCHANGED <<component, vars, chargesVars,
    methodVars, numbersVars, bytesVars, proxyVars, storageVars, wireVars>>

OnlyCharges == UNCHANGED <<component, vars, systemVars,
    methodVars, numbersVars, bytesVars, proxyVars, storageVars, wireVars>>

NoTask == UNCHANGED <<component, premises, vars, systemVars, chargesVars>>

(* The step of OrderlySpec. *)
OrderlyNext ==
    /\ Next /\ Durable
    /\ (OpenedOnce /\ CloseAlone)'

DeployedNext ==
    \/ Is("handlers") /\ OrderlyNext /\ OnlyHandlers
    \/ Is("system") /\ System!DeployedNext /\ OnlySystem
    \/ Is("charges") /\ Charges!DeployedNext /\ OnlyCharges
    \/ /\ Is("method") /\ Method!Next /\ NoTask
       /\ UNCHANGED <<numbersVars, bytesVars, proxyVars, storageVars, wireVars>>
    \/ /\ Is("amounts") /\ Numbers!Next /\ NoTask
       /\ UNCHANGED <<methodVars, bytesVars, proxyVars, storageVars, wireVars>>
    \/ /\ Is("bytes") /\ Bytes!Next /\ NoTask
       /\ UNCHANGED <<methodVars, numbersVars, proxyVars, storageVars, wireVars>>
    \/ /\ Is("proxy") /\ Proxy!Next /\ NoTask
       /\ UNCHANGED <<methodVars, numbersVars, bytesVars, storageVars, wireVars>>
    \/ /\ Is("stores") /\ Storage!Next /\ NoTask
       /\ UNCHANGED <<methodVars, numbersVars, bytesVars, proxyVars, wireVars>>
    \/ /\ Is("wire") /\ Wire!Next /\ NoTask
       /\ UNCHANGED <<methodVars, numbersVars, bytesVars, proxyVars, storageVars>>

ComponentsSpec == DeployedInit /\ [][DeployedNext]_everything

(* The fairness of the components that have one, as in their FairSpec. *)
SystemRest == System!Observed /\ UNCHANGED premises /\ OnlySystem
ChargesRest == Charges!Observed /\ UNCHANGED premises /\ OnlyCharges

FairSpec ==
    /\ ComponentsSpec
    /\ \A t \in Tasks :
         WF_everything(Is("handlers") /\ Proceed(t) /\ OnlyHandlers)
    /\ \A r \in {"r1", "r2", "r3", "r4"} :
         WF_everything(/\ Is("system")
                 /\ \/ System!SubmitOpen(r) \/ System!OpenInsert(r)
                    \/ System!Handler(r)
                 /\ SystemRest)
    /\ \A c \in {"c1", "c2"} :
         WF_everything(Is("system") /\ System!OpenLands(c) /\ SystemRest)
    /\ \A r \in {"r1", "r2", "r3"} :
         WF_everything(Is("charges") /\ Charges!Advancing(r) /\ ChargesRest)
    /\ WF_everything(/\ Is("charges") /\ \E t \in mempool : Charges!Execute(t)
               /\ ChargesRest)
    /\ WF_everything(/\ Is("charges") /\ \E t \in landed : Charges!See(t)
               /\ ChargesRest)

-----------------------------------------------------------------------------
(* The properties of the components.  Those of the handlers are the ones   *)
(* of SessionSafety: SignedBySigner and ImplementsPaymentChannel.          *)

(* Every request that a handler takes up is answered, and a call that a    *)
(* session or a transfer pays for comes to what it paid for.               *)
CallsServed == RequestsAnswered /\ System!CallsServed /\ Charges!CallsServed

(* verify_tx_hash accepts what an event of the transaction credits to the  *)
(* recipient, exactly when it pays the request where the payload can be    *)
(* compared; and the transfers of build_transfer_payload are accepted.     *)
AcceptedIsPaid == Method!AcceptedIsPaid /\ Method!BuiltIsAccepted

(* An amount is converted exactly or refused, both parsers agree on it,    *)
(* and what only one of them lets through is not paid.                     *)
AmountsAreExact ==
    Numbers!DollarsAreExact /\ Numbers!BothAgree /\ Numbers!NothingElseIsRead

(* A voucher is verified for the channel and key it was signed with and no *)
(* other: for the total that was signed in Rust, and in TypeScript for     *)
(* every total that is the same in the width of a u64.                     *)
AcceptedIsSigned == Bytes!AcceptedIsSigned

(* A request below the base goes where its path says, a request beside it  *)
(* nowhere, and no question about the services hides a route.              *)
RoutedAsAddressed ==
    Proxy!RoutedAsAddressed /\ Proxy!OthersAreRefused /\ Proxy!DiscoveryIsApart

(* The stores are the map of the trait, where calls and restarts leave     *)
(* them time; and everywhere a file is unreadable only while torn.         *)
ImplementsKeyValue == Storage!ImplementsKeyValue /\ []Storage!UnreadableIsTorn

(* A client reads the challenge that was made, or there is a reason in its *)
(* texts why it reads none.                                                *)
ReadIsMade == Wire!ReadIsMade /\ Wire!UnreadableHasReason

(* A challenge is taken back by its maker alone, for what it was made for, *)
(* until both ends find it expired.                                        *)
BoundToMaker == Wire!BoundToMaker /\ Wire!BothEndsAgree /\ Wire!AcceptedAsMade

-----------------------------------------------------------------------------
(* Values. *)

MCServedRequests ==
    {[currency |-> [value |-> currency, spelling |-> "padded"],
      recipient |-> [value |-> "a1", spelling |-> "short"],
      amount |-> 1] : currency \in {"move", "usdc"}}

Route(m, p) == [method |-> m, path |-> p]

(* Services whose ids begin with one another or read like a question, with *)
(* routes for one method, for any, with a parameter and without a path;    *)
(* below no base, and below bases that are written in several ways.        *)
MCServices == <<
    [id |-> <<"a">>,
     routes |-> <<Route("GET", <<<<"b">>>>), Route("POST", <<<<":", "x">>>>),
                  Route("any", <<<<"a">>, <<":">>>>)>>],
    [id |-> <<"a", "b">>,
     routes |-> <<Route("PUT", << >>), Route("GET", <<<<"b">>>>)>>],
    [id |-> <<"s">>, routes |-> <<Route("any", <<<<":">>>>)>>] >>

MCConfigs ==
    {[base |-> b, services |-> MCServices] :
        b \in {<< >>, <<<<"/", "a">>>>, <<<<"/", "b", "/">>>>, <<<<"/">>>>,
               <<<<"/", "a", "/", "b">>>>}}

MCServers ==
    {[secret |-> "k1", realm |-> <<"api">>],
     [secret |-> "k2", realm |-> <<"api">>],
     [secret |-> "k1", realm |-> <<"api", "'", "|">>]}
=============================================================================
