------------------------------ MODULE ChargeRoutes ------------------------------
(***************************************************************************)
(* What the routes of a server charge.                                     *)
(***************************************************************************)
EXTENDS TransferCheck

CONSTANT
    Requests      \* the charge of each route

ASSUME ChargeAssumption == Requests \subseteq ChargeRequest
=============================================================================
