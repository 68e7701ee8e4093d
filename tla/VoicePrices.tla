------------------------------- MODULE VoicePrices -------------------------------
(***************************************************************************)
(* What a voice call costs, in the units of its vouchers.                  *)
(***************************************************************************)
EXTENDS Naturals

CONSTANTS
    Calls,        \* calls, each from a page (and a channel) of its own
    Initial,      \* the voucher that opens the channel: one second
    Delta,        \* five seconds
    Deposit,      \* the suggested deposit
    TopUp,        \* what "+5 min" adds
    MaxDeposit    \* BOUND: up to where a caller tops up

ASSUME PaymentsAssumption ==
    /\ {Initial, Delta, TopUp} \subseteq Nat \ {0}
    /\ Deposit \in Nat \ {0}
    /\ MaxDeposit \in Nat
    /\ Initial <= Deposit /\ Deposit <= MaxDeposit
=============================================================================
