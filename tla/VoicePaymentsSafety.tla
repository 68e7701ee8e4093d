--------------------------- MODULE VoicePaymentsSafety ---------------------------
(***************************************************************************)
(* What the vouchers of a voice call are worth to the host: what it has    *)
(* accepted it keeps until it is paid, through calls that are hung up on   *)
(* either side, connections that break, pages that are loaded again and    *)
(* wallets that refuse; and the chain covers it.                           *)
(***************************************************************************)
EXTENDS VoicePayments

CONSTANT
    Deployments   \* sets of premises, of which one holds throughout

VARIABLES
    premises,
    earned        \* the highest amount the host has accepted from each call,
                  \* before it began to settle

-----------------------------------------------------------------------------
(* Premises *)

(* There is one caller. *)
FirstCall == CHOOSE c \in Calls : TRUE
Alone == \A c \in Calls \ {FirstCall} : UNCHANGED caller[c]

(* The callers do not add time. *)
Brief == \A c \in Calls : ~caller[c].adding'

(* What a wallet has submitted is executed. *)
Executed ==
    /\ \A c \in Calls : (Pay(c) \/ TimeAdded(c)) => chain' # chain
    /\ ((Submitted \/ Refresh) /\ Payable(host.settling)) => chain' # chain

(* No call comes in while the host's page goes live or offline. *)
Undisturbed == host.going \/ host.leaving => host'.status # "in_call"

(* The host's page has the microphone before anything else happens. *)
Granted == host.starting # {} => host'.status = host.status

Observed ==
    /\ "alone" \in premises => Alone
    /\ "brief" \in premises => Brief
    /\ "executed" \in premises => Executed
    /\ "undisturbed" \in premises => Undisturbed
    /\ "granted" \in premises => Granted

DeployedVars == <<vars, premises, earned>>
DeployedInit ==
    /\ Init
    /\ premises \in Deployments
    /\ earned = [c \in Calls |-> 0]

Held(c) ==
    IF host.voucher # NoVoucher /\ host.voucher.call = c
    THEN host.voucher.amount ELSE 0

(* What comes while the wallet settles is dropped with what it settles.    *)
Noted == earned' = [c \in Calls |->
    IF Receive(c) /\ host.handler = "none" /\ Held(c)' > earned[c]
    THEN Held(c)' ELSE earned[c]]

DeployedNext == Next /\ Observed /\ Noted /\ UNCHANGED premises
DeployedSpec == DeployedInit /\ [][DeployedNext]_DeployedVars

-----------------------------------------------------------------------------
(* Properties *)

(* A voucher that the host has accepted is held, in the page and in        *)
(* localStorage, until it is paid: neither the end of its call, nor the    *)
(* next call, nor a wallet that refuses, nor a page that is loaded again   *)
(* loses it.                                                               *)
EarnedIsHeld == \A c \in Calls : earned[c] > chain[c].paid =>
    /\ Held(c) >= earned[c]
    /\ host.stored = host.voucher

(* And what the host holds it can claim: the caller signs for no more than *)
(* its channel has, through top-ups that overlap its vouchers.             *)
HeldIsFunded == \A c \in Calls : Held(c) <= chain[c].deposit

(* "Keep voucher data so the host can retry settlement".  The premises are *)
(* needed: a top-up that aborts leaves vouchers without funds, a call that *)
(* comes in while a handleGoLive or handleGoOffline waits ends in a page   *)
(* that has a voucher and takes calls, each of which drops the voucher,    *)
(* and a microphone that is granted after the call does the same.          *)
EarnedIsKept ==
    /\ "executed" \in premises => HeldIsFunded
    /\ {"executed", "undisturbed", "granted"} \subseteq premises => EarnedIsHeld
=============================================================================
