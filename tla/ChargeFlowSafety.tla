---------------------------- MODULE ChargeFlowSafety ----------------------------
(***************************************************************************)
(* What ChargeFlow promises to the payer and to the payee, and under which *)
(* premises about the application and the network it does.                 *)
(***************************************************************************)
EXTENDS ChargeFlow

CONSTANT
    Deployments   \* sets of premises, of which one holds throughout

VARIABLE premises

-----------------------------------------------------------------------------
(* Premises *)

Active(r) == call[r].phase \in
    {"challenged", "built", "submitted", "sent", "verifying"}

(* The application makes one call at a time. *)
OneAtATime == \A r, q \in Calls : Active(r) /\ Active(q) => r = q

(* The application pays one thing once at a time: calls that overlap pay   *)
(* with different transfers.                                               *)
NoTwins == \A r, q \in Calls :
    /\ Active(r) /\ Active(q)
    /\ BuildTransfer(call[r].request) = BuildTransfer(call[q].request)
    => r = q

Moves(r, from, to) == call[r].phase = from /\ call'[r].phase = to

(* The application pays for each call, as send_with_payment does. *)
Own == \A r \in Calls : call'[r] \in Paying =>
    call[r] \in Paying \/ Moves(r, "challenged", "built")

(* The node renders the metadata of a transfer as a string. *)
Legible == \A r \in Calls : Moves(r, "verifying", "served") =>
    RecognisedAs(call[r].tx, TRUE, call[r].request)

(* The server compares the credential's request with the route's. *)
Expecting == \A r \in Calls : Moves(r, "sent", "verifying") =>
    call[r].request = call[r].route

(* No challenge expires. *)
Lasting == \A r \in Calls : Active(r) /\ Active(r)' => call'[r].fresh = call[r].fresh

(* wait_for_transaction gives up on a transaction only when it is gone. *)
Patient == \A r \in Calls : Moves(r, "submitted", "failed") =>
    call[r].tx \notin mempool \cup landed

(* The provider waits for its transaction, as the one in Rust does. *)
Waiting == \A r \in Calls : Moves(r, "submitted", "sent") =>
    call[r].tx \in landed

(* The server's node knows what the client's node knows, and it answers. *)
Current == \A r \in Calls : Moves(r, "verifying", "refused") =>
    /\ ~Recognised(call[r].tx, call[r].request)
    /\ call[r].tx \in landed => call[r].tx \in seen

(* Requests and answers arrive. *)
Connected == \A r \in Calls :
    call[r].phase \in {"sent", "verifying"} => call'[r].phase # "failed"

(* No request to the node fails, and every transaction succeeds in time. *)
Reliable ==
    /\ \A r \in Calls : Active(r) => call'[r].phase # "failed"
    /\ aborted' = {} /\ mempool \subseteq mempool' \cup landed'

Observed ==
    /\ "one at a time" \in premises => OneAtATime'
    /\ "no twins" \in premises => NoTwins'
    /\ "own" \in premises => Own
    /\ "legible" \in premises => Legible
    /\ "expecting" \in premises => Expecting
    /\ "lasting" \in premises => Lasting
    /\ "patient" \in premises => Patient
    /\ "waiting" \in premises => Waiting
    /\ "current" \in premises => Current
    /\ "connected" \in premises => Connected
    /\ "reliable" \in premises => Reliable

DeployedVars == <<vars, premises>>
DeployedInit == Init /\ premises \in Deployments
DeployedNext == Next /\ Observed /\ UNCHANGED premises
DeployedSpec == DeployedInit /\ [][DeployedNext]_DeployedVars

Advancing(r) == Build(r) \/ Submit(r) \/ Confirmed(r) \/ CheckChallenge(r) \/ Serve(r)

(* Clients and servers go on with what they have begun, and so do nodes. *)
FairSpec ==
    /\ DeployedSpec
    /\ \A r \in Calls :
           WF_DeployedVars(Advancing(r) /\ Observed /\ UNCHANGED premises)
    /\ WF_DeployedVars(
           (\E t \in mempool : Execute(t)) /\ Observed /\ UNCHANGED premises)
    /\ WF_DeployedVars(
           (\E t \in landed : See(t)) /\ Observed /\ UNCHANGED premises)

-----------------------------------------------------------------------------
(* Properties *)

(* A call is served only after a transaction succeeded that credited what  *)
(* its challenge asks to whom it asks, whatever is late, lost, refused or  *)
(* shown again; in the currency it asks where the node renders metadata    *)
(* legibly or the application pays for each call; and for what the route   *)
(* charges where the server expects that.                                  *)
ServedIsPaid == \A r \in Calls : call[r].phase = "served" =>
    /\ call[r].tx \in landed
    /\ Credits(call[r].tx.payload, call[r].request)
    /\ {"own", "legible"} \cap premises # {} =>
           Pays(call[r].tx.payload, call[r].request)
    /\ {"own", "expecting"} \cap premises # {} =>
           call[r].request = call[r].route

(* A charge is "a one-time payment": calls that were served were paid for  *)
(* by different transfers.                                                 *)
OneTransferEach == \A r, q \in Calls :
    call[r].phase = "served" /\ call[q].phase = "served"
        /\ call[r].tx = call[q].tx => r = q

(* It is for calls that do not overlap with their like, where each pays    *)
(* for itself, though they draw on one sequence number and leave           *)
(* transactions behind when they fail.                                     *)
OwnTransfer == {"own", "no twins"} \subseteq premises => OneTransferEach

(* No payment is wasted: a transfer that succeeded, or still may, belongs  *)
(* to a call that was served or is on its way to be.                       *)
EachTransferCounts == \A t \in mempool \cup landed : \E r \in Calls :
    /\ call[r].phase \in {"submitted", "sent", "verifying", "served"}
    /\ call[r].tx = t

(* It is so where nothing is late, though calls race for the sequence      *)
(* numbers of their account and transactions abort or are dropped.         *)
Prompt == {"own", "lasting", "patient", "waiting", "current", "connected"}
PaidIsServed == Prompt \subseteq premises => EachTransferCounts

(* A call that is made is served. *)
CallsServed == \A r \in Calls :
    call[r].phase = "challenged" ~> call[r].phase = "served"
=============================================================================
