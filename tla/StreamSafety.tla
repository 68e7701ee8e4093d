------------------------------ MODULE StreamSafety ------------------------------
(***************************************************************************)
(* What a pay-per-token stream promises to both sides, while streams       *)
(* overlap, break and are corrected, settlements are late or fail, and the *)
(* server restarts.                                                        *)
(***************************************************************************)
EXTENDS StreamSession, FiniteSets

CONSTANT
    Deployments   \* sets of premises, of which one holds throughout

VARIABLE premises

-----------------------------------------------------------------------------
(* Premises *)

(* Nothing is lost: the network and the chain work, the server stays up,   *)
(* and the client waits for its streams, and for the answer to its close.  *)
Reliable ==
    /\ \/ OpenLands \/ Start \/ SendVoucher \/ ReadToEnd
       \/ Stop /\ ~client.waiting /\ ~Affordable
       \/ CloseStart \/ CloseLands
       \/ Leave /\ closing.phase = "closed"
       \/ \E i \in Requests : Serving(i) \/ SettleLands(i) \/ SettleNoted(i)
    /\ CloseStart => chain.deposit > 0

Observed == "reliable" \in premises => Reliable

DeployedVars == <<vars, premises>>
DeployedInit == Init /\ premises \in Deployments
DeployedNext == Next /\ Observed /\ UNCHANGED premises
DeployedSpec == DeployedInit /\ [][DeployedNext]_DeployedVars

-----------------------------------------------------------------------------
(* Properties *)

(* The streams since the last restart. *)
Current == {i \in Requests : request[i].phase \in {"streaming", "done", "dropped"}}

(* How many tokens were streamed for the requests S. *)
Streamed(S) == Cardinality(UNION {{i} \X (1..request[i].streamed) : i \in S})

(* What is counted as delivered was paid for with vouchers, whichever      *)
(* streams overlap and are corrected, and though vouchers pay for parts of *)
(* tokens: so close_channel never claims more than was signed.             *)
CountedIsPaid == session.known => session.delivered * Price <= session.highest

(* No token is left out of the count, which runs ahead of the streams and  *)
(* is corrected by each of them at its end: whatever was streamed will be  *)
(* claimed.                                                                *)
StreamedIsCounted == session.known => Streamed(Current) <= session.delivered

(* When every stream was read to its end, the count is what was streamed,  *)
(* though it was ahead of some of them when the next one took its offset.  *)
CountIsExact ==
    (session.known /\ "reliable" \in premises /\ ~client.waiting)
        => session.delivered = Streamed(Current)

(* What is counted as delivered lies between what was streamed and what    *)
(* was paid for, through overlaps, corrections and restarts, and is what   *)
(* was streamed where every stream is read to its end.                     *)
CountIsFair == CountedIsPaid /\ StreamedIsCounted /\ CountIsExact

(* No token of the text is sold twice: the streams of two vouchers that    *)
(* are served side by side have no token in common.                        *)
Tokens(i) == request[i].offset + 1 .. request[i].offset + request[i].streamed
NothingSoldTwice == \A i, j \in Current :
    i # j => Tokens(i) \cap Tokens(j) = {}

(* A channel that the server has closed has paid for every token of the    *)
(* vouchers that the close knew of, though settlements land or fail beside *)
(* it and streams go on.                                                   *)
StreamedIsSettled == closing.phase = "closed" =>
    Streamed({i \in Current : Amount(i) <= closing.signed}) * Price
        <= chain.settled

(* A channel is closed for no more than the tokens that were streamed,     *)
(* once no stream is under way.                                            *)
ClaimedIsStreamed ==
    (/\ session.known
     /\ closing.phase = "closed"
     /\ \A i \in Requests : request[i].phase \notin {"sent", "streaming"})
        => closing.amount <= Streamed(Current) * Price
=============================================================================
