-------------------------- MODULE SessionSystemSafety --------------------------
(***************************************************************************)
(* What SessionSystem promises to the payer and to the payee, and under    *)
(* which premises about the application and the deployment it does.        *)
(***************************************************************************)
EXTENDS SessionSystem

CONSTANT
    Deployments   \* sets of premises, of which one holds throughout

VARIABLE premises

-----------------------------------------------------------------------------
(* Premises *)

Active(r) == call[r].phase \in {"opening", "submitted", "sent", "handling"}
Alone(r) == \A q \in Calls \ {r} : ~Active(q)

Closing(r) == Active(r) /\ call[r].phase \in {"sent", "handling"} /\ call[r].op = "close"
Closed(r) == call[r].phase = "ok" /\ call[r].op = "close"

(* The application closes when its other calls have ended. *)
ClosesAlone == \A r \in Calls : Closing(r) => Alone(r)

(* The application closes once, and calls no more. *)
ClosesLast == \A r \in Calls : Closing(r) \/ Closed(r) => Alone(r)

(* The application opens before it makes other calls. *)
OpensAlone == \A r \in Calls : call[r].phase \in {"opening", "submitted"} => Alone(r)

(* The application makes one call at a time. *)
OneAtATime == \A r \in Calls : Active(r) => Alone(r)

(* The application spends what it deposited. *)
InBudget == entry.opened => entry.cumulative <= Deposit

(* The server settles when the application is done: no call is being made  *)
(* while a settlement may land, and none once one has.                     *)
SettlesLast == \A c \in Channels : settlement[c] # NoSettlement =>
    \A r \in Calls : ~Active(r)

(* The store survives, as it does not with InMemoryChannelStore. *)
Durable == \A c \in Channels : Server!Known(c) => Server!Known(c)'

(* Nothing is lost, and nothing restarts. *)
Reliable ==
    \/ \E r \in Calls : Provider(r) \/ Handler(r)
    \/ \E c \in Channels : OpenLands(c) \/ Settle(c)

(* The provider waits for its open transaction, as the one in Rust does. *)
Landing == \A r \in Calls :
    call[r].phase = "submitted" /\ call'[r].phase = "sent"
        => chain[call[r].channel].deposit > 0

Observed ==
    /\ "durable" \in premises => Durable
    /\ "reliable" \in premises => Reliable
    /\ "waiting" \in premises => Landing
    /\ "closes alone" \in premises => ClosesAlone'
    /\ "closes last" \in premises => ClosesLast'
    /\ "opens alone" \in premises => OpensAlone'
    /\ "one at a time" \in premises => OneAtATime'
    /\ "in budget" \in premises => InBudget'
    /\ "settles last" \in premises => SettlesLast'

DeployedVars == <<vars, premises>>
DeployedInit == Init /\ premises \in Deployments
DeployedNext == Next /\ Observed /\ UNCHANGED premises
DeployedSpec == DeployedInit /\ [][DeployedNext]_DeployedVars

(* The client, the chain and the server go on with what they have begun. *)
FairSpec ==
    /\ DeployedSpec
    /\ \A r \in Calls :
           WF_DeployedVars(/\ SubmitOpen(r) \/ OpenInsert(r) \/ Handler(r)
                           /\ Observed /\ UNCHANGED premises)
    /\ \A c \in Channels :
           WF_DeployedVars(OpenLands(c) /\ Observed /\ UNCHANGED premises)

(* So does the operator, who settles what can be settled. *)
SettlingSpec ==
    /\ FairSpec
    /\ \A c \in Channels :
           /\ WF_DeployedVars(SettleStart(c) /\ Observed /\ UNCHANGED premises)
           /\ WF_DeployedVars(SettleLands(c) /\ Observed /\ UNCHANGED premises)

-----------------------------------------------------------------------------
(* Properties *)

Channel(r) == call[r].channel
Answered(c) ==
    {r \in Calls : call[r].phase \in {"content", "ok"}
                   /\ call[r].op # "close" /\ Channel(r) = c}

(* Whatever is served was paid for: each request answered on a channel is  *)
(* covered by its own share of the highest voucher, though vouchers arrive *)
(* in any order, are accepted when they are not above the highest, and     *)
(* requests and answers are lost.                                          *)
ServedIsPaid == {"durable", "closes alone"} \subseteq premises =>
    \A c \in Channels : Cardinality(Answered(c)) > 0 =>
        /\ Server!Known(c)
        /\ Price * Cardinality(Answered(c)) <= store[c].highest

(* The server never holds more of the payer's money than the provider has  *)
(* counted for the channel, whatever is lost or restarted.                 *)
HighestIsCounted == entry.opened /\ Server!Known(entry.channel) =>
    store[entry.channel].highest <= entry.cumulative

(* The provider "tracks open channels": no deposit it has made is out of   *)
(* reach of close.                                                         *)
FundedIsTracked == \A c \in Channels :
    chain[c].deposit > 0 =>
        \/ entry.opened /\ entry.channel = c
        \/ \E r \in Calls : call[r].phase = "submitted" /\ Channel(r) = c

(* It does so for an application that opens before it makes other calls,   *)
(* on a network that loses nothing.                                        *)
OpenedIsTracked ==
    {"reliable", "opens alone"} \subseteq premises => FundedIsTracked

(* Where the application calls one at a time, within its deposit, and      *)
(* nothing is lost, the provider "auto-manages the lifecycle": nothing it  *)
(* sends is refused, and between calls both sides agree on what is owed.   *)
Lifecycle == {"reliable", "waiting", "one at a time", "in budget", "closes last"}

NothingRefused == \A r \in Calls : call[r].phase # "refused"

InStep == Lifecycle \subseteq premises =>
    /\ NothingRefused
    /\ (\A r \in Calls : ~Active(r)) /\ entry.opened =>
         /\ Server!Known(entry.channel)
         /\ store[entry.channel].highest = entry.cumulative

(* No settlement, however many are under way and however late one lands,   *)
(* takes more than the deposit holds or than the provider has counted.     *)
SettledIsCounted == \A c \in Channels :
    \A a \in settlement[c].closing \cup {settlement[c].paid} :
        /\ a <= chain[c].deposit
        /\ entry.opened /\ entry.channel = c => a <= entry.cumulative

(* The on-chain close pays the highest accepted voucher, if it is made     *)
(* when the calls are done; vouchers that are accepted after the highest   *)
(* was read for it (multifetch_server.rs:261) go unpaid.                   *)
SettledIsHighest == "settles last" \in premises => \A c \in Channels :
    settlement[c].paid > 0 /\ Server!Known(c)
        => store[c].highest = settlement[c].paid

SettledIsOwed == SettledIsCounted /\ SettledIsHighest

(* "The server should then call channel::close on-chain with the highest   *)
(* voucher" (client/movement/session.rs:143), after the client's close.    *)
(* It does not: the handler of the close finalizes the channel in the      *)
(* store, and the server refuses to settle a finalized channel.            *)
ClosedIsSettled == \A c \in Channels, a \in Server!Amounts :
    /\ Server!Known(c)
    /\ store[c].finalized /\ store[c].highest = a
    ~> settlement[c].paid = a

(* A call within the deposit is answered with what it paid for. *)
CallsServed == \A r \in Calls :
    Active(r) ~> call[r].phase \in {"content", "ok"}
=============================================================================
