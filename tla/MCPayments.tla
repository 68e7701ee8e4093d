------------------------------- MODULE MCPayments -------------------------------
(***************************************************************************)
(* The payment methods side by side: a provider with its session server,   *)
(* the session server by itself with whatever a caller may send it, and    *)
(* the charge flow have nothing in common but the library, so that a       *)
(* behavior is one of one of them.                                         *)
(***************************************************************************)
EXTENDS SessionSystemSafety, ChargeRoutes, TLC

CONSTANTS
    (* ChargeFlow *)
    Seconds, ChargeDeployments,
    a1, move, usdc

VARIABLES
    component,
    (* SessionCharges *)
    channel, entries, handler, charged, openings, accepted,
    (* ChargeFlow *)
    mempool, landed, aborted, seen, payment

Handlers == INSTANCE SessionCharges WITH
    Channels <- {"ch"}, Keys <- {"k1", "k2"}, Tasks <- {"t1", "t2"},
    MinDelta <- 1, MaxOpenings <- 2,
    chain <- channel, store <- entries, task <- handler

Charges == INSTANCE ChargeFlowSafety WITH
    Deployments <- ChargeDeployments, call <- payment

\* A route charged in MOVE and one charged in another token.
Charge(currency) == [
    currency |-> [value |-> currency, spelling |-> "padded"],
    recipient |-> [value |-> a1, spelling |-> "short"],
    amount |-> 1]
MCRequests == {Charge(move), Charge(usdc)}

\* Calls run the same code.
Symmetry == Permutations(Calls)

-----------------------------------------------------------------------------
handlerVars == <<channel, entries, handler, charged, openings, accepted>>
chargeVars == <<mempool, landed, aborted, seen, payment>>

PaymentsVars == <<component, premises, vars, handlerVars, chargeVars>>

(* The components that do not run remain in their initial state. *)
PaymentsInit ==
    /\ Init /\ Handlers!Init /\ Handlers!HistoryInit /\ Charges!Init
    /\ \/ component = "system" /\ premises \in Deployments
       \/ component = "handlers" /\ premises = {}
       \/ component = "charges" /\ premises \in ChargeDeployments

PaymentsNext ==
    /\ UNCHANGED <<component, premises>>
    /\ \/ /\ component = "system" /\ DeployedNext
          /\ UNCHANGED <<handlerVars, chargeVars>>
       \/ /\ component = "handlers" /\ Handlers!CountedNext
          /\ UNCHANGED <<vars, chargeVars>>
       \/ /\ component = "charges" /\ Charges!DeployedNext
          /\ UNCHANGED <<vars, handlerVars>>

PaymentsSpec == PaymentsInit /\ [][PaymentsNext]_PaymentsVars

-----------------------------------------------------------------------------
(* TypeOK, ServedIsPaid, HighestIsCounted, OpenedIsTracked, InStep and     *)
(* SettledIsOwed are those of the provider with its server,                *)
(* SessionSystemSafety.                                                    *)

(* The handlers' tasks, the store and the chain keep their types: no       *)
(* counter overflows, deduct_from_channel's sum included.                  *)
HandlersTypeOK == Handlers!TypeOK

(* The deposit that is locked on chain covers the highest voucher of every *)
(* channel, whichever handlers overlap, whatever a caller replays and      *)
(* however often the server loses its store.                               *)
VouchersCovered == Handlers!VouchersCovered

(* What is charged to a channel, over all its replayed opens and the       *)
(* server's restarts, is no more than its largest voucher for each time it *)
(* was opened, and no more than that voucher if it was opened once.        *)
ServiceCovered == Handlers!ServiceCovered

(* The stored signature is one of the stored highest voucher, so that      *)
(* channel::close can be called with the two.                              *)
HighestIsSigned == Handlers!HighestIsSigned

(* What is built, sent, executed and shown keeps its type: no transfer is  *)
(* built without the challenge's metadata.                                 *)
ChargesTypeOK == Charges!TypeOK

(* A charge is served only when a transaction succeeded that credited what *)
(* its challenge asks, and paid it, in its currency and for the route,     *)
(* where the node is legible or the server expects it.                     *)
ChargeIsPaid == component = "charges" => Charges!ServedIsPaid

(* Calls that do not overlap with their like pay by transfers of their     *)
(* own, though they draw on one sequence number.                           *)
OwnTransfer == component = "charges" => Charges!OwnTransfer

(* No transfer is wasted where nothing is late, though calls race for the  *)
(* sequence numbers of their account.                                      *)
PaidIsServed == component = "charges" => Charges!PaidIsServed
=============================================================================
