----------------------------- MODULE ChargeMethod -----------------------------
(***************************************************************************)
(* ChargeMethod::verify by itself: any charge request, and any transaction *)
(* that has succeeded on chain presented as its payment.                   *)
(***************************************************************************)
EXTENDS TransferCheck

VARIABLES
    request,      \* the charge a server expects to be paid
    tx,           \* the node's answer for the hash of a credential
    verdict       \* what ChargeMethod says of it

vars == <<request, tx, verdict>>

Init ==
    /\ request \in ChargeRequest
    /\ \E p \in Payload : tx \in Answers(p)
    /\ verdict = "none"

Verify ==
    /\ verdict = "none"
    /\ verdict' = IF Verified(tx, request) THEN "accepted" ELSE "refused"
    /\ UNCHANGED <<request, tx>>

Next == Verify

Spec == Init /\ [][Next]_vars
-----------------------------------------------------------------------------
(* Properties *)

Verdicts == {"none", "accepted", "refused"}

(* Whatever function is called, however the addresses are written and      *)
(* whichever events the node reports, ChargeMethod accepts a transaction   *)
(* only if it moved the amount to the recipient; where its currency is one *)
(* the code compares, exactly if it moved that currency too; and a known   *)
(* transfer that pays is never refused.                                    *)
AcceptedIsPaid == verdict # "none" =>
    /\ verdict = "accepted" => Credits(tx.payload, request)
    /\ Compared(tx, request) =>
           (verdict = "accepted" <=> Pays(tx.payload, request))
    /\ Pays(tx.payload, request) /\ tx.payload.function \in Transfers =>
           verdict = "accepted"

(* "This prevents paying with a worthless token instead of the requested   *)
(* one" (method.rs:111).  It does not: the currency of illegible metadata, *)
(* of a typed coin other than MOVE and of any other function is not        *)
(* compared, and the events that decide do not name one.                   *)
TokenIsRequested == verdict = "accepted" =>
    Moved(tx.payload).currency = request.currency.value

(* The transfer MovementProvider builds for a request is never refused as  *)
(* its payment.                                                            *)
BuiltIsAccepted ==
    tx.payload = BuildTransfer(request) => verdict # "refused"
=============================================================================
