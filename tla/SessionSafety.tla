---------------------------- MODULE SessionSafety ----------------------------
(***************************************************************************)
(* The properties of SessionMethod and the regimes they are checked under. *)
(* A regime restricts what clients and the deployment do, never what the   *)
(* handlers do: the handlers hold no lock over their awaits, so what they  *)
(* guarantee depends on which requests overlap.                            *)
(***************************************************************************)
EXTENDS SessionMethod

-----------------------------------------------------------------------------
(* Regimes *)

(* The store survives: no entry is lost (a durable ChannelStore, or no     *)
(* restart).                                                               *)
Durable == \A c \in Channels : Known(c) => Known(c)'

Open(c) == Known(c) /\ ~store[c].finalized

SameChannel(t, u) == Busy(t) /\ Busy(u) /\ task[t].channel = task[u].channel

(* A channel is opened once, as MovementSessionProvider does with a fresh  *)
(* salt for each open.                                                     *)
OpenedOnce == \A t \in Tasks : task[t].op = "open" =>
    /\ ~Known(task[t].channel)
    /\ \A u \in Tasks \ {t} : ~SameChannel(t, u)

(* The client closes only after its other requests are answered. *)
CloseAlone == \A t \in Tasks : task[t].op = "close" =>
    \A u \in Tasks \ {t} : ~SameChannel(t, u)

OnceSpec == Init /\ [][Next /\ Durable /\ OpenedOnce']_vars
OrderlySpec == Init /\ [][Next /\ Durable /\ (OpenedOnce /\ CloseAlone)']_vars
OrderlyFairSpec == OrderlySpec /\ Fairness

-----------------------------------------------------------------------------
(* Invariants under every interleaving, replayed opens and restarts included *)

(* While a channel is open, the highest accepted voucher is backed by what *)
(* the payer deposited on chain: the checks of handle_open and             *)
(* verify_and_accept_voucher use a snapshot of the deposit, and the stored *)
(* deposit may itself be set back by a stale topUp.                        *)
VouchersCovered == \A c \in Channels :
    Open(c) => store[c].highest <= chain[c].deposit

(* The stored signature is always a signature over exactly the stored      *)
(* highest amount of this channel, so the pair can be settled on chain:    *)
(* the closures of voucher and close write both or neither.                *)
HighestIsSigned == \A c \in Channels : Known(c) =>
    /\ store[c].signature.channel = c
    /\ store[c].signature.amount = store[c].highest

-----------------------------------------------------------------------------
(* What the orderly regime adds *)

(* The stored signature is by the signer the channel was opened for, so    *)
(* the contract will accept it: a voucher is verified against the key of   *)
(* the snapshot and stored beside the key of the current entry.            *)
SignedBySigner == \A c \in Channels :
    Known(c) => store[c].signature.key = store[c].signer

(* In the orderly regime the concurrent handlers implement the abstract    *)
(* payment channel.                                                        *)
Phase == [c \in Channels |->
    IF ~Known(c) THEN "none" ELSE IF store[c].finalized THEN "closed" ELSE "open"]
Authorized == [c \in Channels |-> IF Known(c) THEN store[c].highest ELSE 0]
Spent == [c \in Channels |-> IF Known(c) THEN store[c].spent ELSE 0]
Funds == [c \in Channels |-> chain[c].deposit]

Abstract == INSTANCE PaymentChannel
    WITH funds <- Funds, phase <- Phase, authorized <- Authorized, spent <- Spent

ImplementsPaymentChannel == Abstract!Spec

-----------------------------------------------------------------------------
(* What handle_close says of itself, and does not provide when a voucher    *)
(* overlaps with it                                                        *)

(* "close voucher amount must be >= highest accepted voucher": the step    *)
(* that finalizes a channel does not lower its highest voucher.            *)
CloseNeverLowers == [][\A c \in Channels :
    Open(c) /\ Known(c)' /\ store'[c].finalized
        => store'[c].highest >= store[c].highest]_vars

-----------------------------------------------------------------------------
(* Progress *)

(* Every request a task has taken up is answered: no handler waits for     *)
(* another one between its steps.                                          *)
RequestsAnswered == \A t \in Tasks : Busy(t) ~> ~Busy(t)
=============================================================================
