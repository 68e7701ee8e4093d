------------------------------ MODULE MCChargeFlow ------------------------------
EXTENDS ChargeFlowSafety

CONSTANTS a1, move, usdc

\* A route charged in MOVE and one charged in another token.
Charge(currency) == [
    currency |-> [value |-> currency, spelling |-> "padded"],
    recipient |-> [value |-> a1, spelling |-> "short"],
    amount |-> 1]
MCRequests == {Charge(move), Charge(usdc)}
=============================================================================
