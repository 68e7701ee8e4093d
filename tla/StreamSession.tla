----------------------------- MODULE StreamSession -----------------------------
(***************************************************************************)
(* The pay-per-token stream: a client buys tokens with one voucher after   *)
(* another, the server streams what each voucher paid for, settles every   *)
(* few vouchers on chain in tasks of their own, and closes the channel     *)
(* when the client asks it to.                                             *)
(*                                                                         *)
(* The server keeps one entry for each channel; entries do not meet, so    *)
(* there is one channel here.  chat does not look at the chain.  All       *)
(* vouchers are signed by the key of the first request: the client sends   *)
(* its key with each of them.                                              *)
(***************************************************************************)
EXTENDS Naturals

CONSTANTS
    MaxRequests,  \* BOUND: vouchers a client may send
    Price,        \* price_per_token
    Deltas,       \* what a client may add to its total with each voucher
    Deposits,     \* what a client may deposit
    Text,         \* tokens that generate_tokens has
    SettleEvery   \* SETTLE_EVERY

VARIABLES
    session,      \* the ChannelSession of the server
    request,      \* the voucher requests and their streams
    settlement,   \* the settle task of each voucher
    closing,      \* close_channel
    chain,        \* the channel on chain
    client        \* the loop of the client

vars == <<session, request, settlement, closing, chain, client>>

ASSUME StreamAssumption ==
    /\ {MaxRequests, Text} \cup Deposits \subseteq Nat
    /\ {Price, SettleEvery} \cup Deltas \subseteq Nat \ {0}

-----------------------------------------------------------------------------
(* Data *)

Requests == 1..MaxRequests

NoSession == [known |-> FALSE]
ChannelSession ==
    [known : {TRUE}, highest : Nat, delivered : Nat, count : Nat, settled : Nat]

(* A request that was sent, is streamed, ended after the last token, was   *)
(* dropped with the connection, refused, or lost in a restart.             *)
NoRequest == [phase |-> "none"]
Pending == [phase : {"sent", "refused", "failed"}]
Stream ==
    [phase : {"streaming", "done", "dropped", "lost"},
     offset : Nat, bought : Nat \ {0}, streamed : 0..Text]

(* The settle transaction is submitted, has succeeded or failed, has been  *)
(* noted; or the server has restarted since it was submitted.              *)
Settlements == {"none", "submitted", "landed", "ended", "orphaned"}

(* close_channel has its snapshot, or has its answer; or the server has    *)
(* restarted since.                                                        *)
NotClosing == [phase |-> "none"]
Closing ==
    [phase : {"submitted", "closed", "failed", "orphaned"},
     amount : Nat, signed : Nat]

TypeOK ==
    /\ session \in ChannelSession \cup {NoSession}
    /\ request \in [Requests -> Pending \cup Stream \cup {NoRequest}]
    /\ settlement \in [Requests -> Settlements]
    /\ closing \in Closing \cup {NotClosing}
    /\ chain \in [deposit : Deposits \cup {0}, settled : Nat, closed : BOOLEAN]
    /\ client \in
         [phase : {"idle", "streaming", "stopping", "closed"},
          delta : Deltas, deposit : Deposits,
          sent : 0..MaxRequests, waiting : BOOLEAN]

Init ==
    /\ session = NoSession
    /\ request = [i \in Requests |-> NoRequest]
    /\ settlement = [i \in Requests |-> "none"]
    /\ closing = NotClosing
    /\ chain = [deposit |-> 0, settled |-> 0, closed |-> FALSE]
    /\ client \in
         [phase : {"idle"}, delta : Deltas, deposit : Deposits,
          sent : {0}, waiting : {FALSE}]

(* The total that a voucher authorizes. *)
Amount(i) == i * client.delta

-----------------------------------------------------------------------------
(* The chain (external): the Move contract behind open, settle and close.  *)
(* It pays the payee what a signed total adds to what was settled before;  *)
(* a signature counts for the total it was made for.                       *)

OpenLands ==
    /\ client.phase # "idle"
    /\ chain.deposit = 0
    /\ chain' = [chain EXCEPT !.deposit = client.deposit]
    /\ UNCHANGED <<session, request, settlement, closing, client>>

Settleable(amount, signed) ==
    ~chain.closed /\ amount = signed /\ amount <= chain.deposit

ChainSettle(amount) ==
    /\ Settleable(amount, amount)
    /\ amount > chain.settled
    /\ chain' = [chain EXCEPT !.settled = amount]

Closable(amount, signed) ==
    /\ chain.deposit > 0
    /\ ~chain.closed
    /\ amount > chain.settled => Settleable(amount, signed)

ChainClose(amount) ==
    chain' = [chain EXCEPT !.closed = TRUE,
                           !.settled = IF amount > @ THEN amount ELSE @]

-----------------------------------------------------------------------------
(* The client *)

(* The channel is opened; the browser starts two seconds later, whether    *)
(* the transaction has landed or not.                                      *)
Start ==
    /\ client.phase = "idle"
    /\ client' = [client EXCEPT !.phase = "streaming"]
    /\ UNCHANGED <<session, request, settlement, closing, chain>>

Affordable == Amount(client.sent + 1) <= client.deposit

(* The total grows before the voucher is accepted. *)
SendVoucher ==
    /\ client.phase = "streaming"
    /\ ~client.waiting
    /\ client.sent < MaxRequests
    /\ Affordable
    /\ client' = [client EXCEPT !.sent = @ + 1, !.waiting = TRUE]
    /\ request' = [request EXCEPT ![client.sent + 1] = [phase |-> "sent"]]
    /\ UNCHANGED <<session, settlement, closing, chain>>

(* The stream has been read to its end. *)
ReadToEnd ==
    /\ client.waiting
    /\ request[client.sent].phase = "done"
    /\ client' = [client EXCEPT !.waiting = FALSE]
    /\ UNCHANGED <<session, request, settlement, closing, chain>>

(* The connection breaks while tokens are read.  The Rust client goes on   *)
(* with its next voucher; the server need not know of it yet.              *)
StreamBreaks ==
    /\ client.phase = "streaming"
    /\ client.waiting
    /\ request[client.sent].phase \in {"streaming", "dropped", "lost"}
    /\ client' = [client EXCEPT !.waiting = FALSE]
    /\ UNCHANGED <<session, request, settlement, closing, chain>>

(* A GET whose connection breaks before the answer may be repeated by the  *)
(* transport (external); the stream it began is dropped.                   *)
Repeat ==
    /\ client.waiting
    /\ request[client.sent].phase \in {"streaming", "dropped"}
    /\ request[client.sent].streamed = 0
    /\ request' = [request EXCEPT ![client.sent] = [phase |-> "sent"]]
    /\ UNCHANGED <<session, settlement, closing, chain, client>>

(* A request that does not arrive. *)
RequestFails ==
    /\ client.waiting
    /\ request[client.sent].phase = "sent"
    /\ request' = [request EXCEPT ![client.sent] = [phase |-> "failed"]]
    /\ UNCHANGED <<session, settlement, closing, chain, client>>

(* The deposit is used up, the server has refused a voucher, a request has *)
(* failed, or the user stops the stream.                                   *)
Stop ==
    /\ client.phase = "streaming"
    /\ client' = [client EXCEPT !.phase = "stopping", !.waiting = FALSE]
    /\ UNCHANGED <<session, request, settlement, closing, chain>>

-----------------------------------------------------------------------------
(* chat *)

Highest == IF session.known THEN session.highest ELSE 0
Delivered == IF session.known THEN session.delivered ELSE 0
Count == IF session.known THEN session.count ELSE 0
Settled == IF session.known THEN session.settled ELSE 0

(* The tokens a voucher pays for. *)
\* Mutant of Bought: the whole total is paid out in tokens.
BoughtByTotal(amount) == amount \div Price

Bought(amount) == (amount - Highest) \div Price

(* One critical section accepts the voucher and counts its tokens before   *)
(* they are streamed.  A voucher for less than a token is stored, too, and *)
(* then refused.                                                           *)
\* Mutant of CountedAhead: tokens are counted when they have been streamed.
CountedLater(bought) == 0

CountedAhead(bought) == bought

Accept(i) ==
    LET bought == Bought(Amount(i))
        count == Count + 1
    IN
    /\ request[i].phase = "sent"
    /\ Amount(i) > Highest
    /\ session' =
         [known |-> TRUE, highest |-> Amount(i), count |-> count,
          delivered |-> Delivered + CountedAhead(bought), settled |-> Settled]
    /\ request' = [request EXCEPT ![i] =
         IF bought = 0 THEN [phase |-> "refused"]
         ELSE [phase |-> "streaming", offset |-> Delivered,
               bought |-> bought, streamed |-> 0]]
    /\ settlement' = [settlement EXCEPT ![i] =
         IF bought > 0 /\ count % SettleEvery = 0 /\ Amount(i) > Settled
         THEN "submitted" ELSE @]
    /\ UNCHANGED <<closing, chain, client>>

(* "cumulative_amount must increase" *)
Refuse(i) ==
    /\ request[i].phase = "sent"
    /\ Amount(i) <= Highest
    /\ request' = [request EXCEPT ![i] = [phase |-> "refused"]]
    /\ UNCHANGED <<session, settlement, closing, chain, client>>

(* skip(offset).take(count) of the words there are *)
\* Mutant of Available: as many as were bought, whatever there is.
AvailableAlways(i) == request[i].bought

Available(i) ==
    LET left == IF Text > request[i].offset THEN Text - request[i].offset ELSE 0
    IN IF request[i].bought < left THEN request[i].bought ELSE left

Token(i) ==
    /\ request[i].phase = "streaming"
    /\ request[i].streamed < Available(i)
    /\ request' = [request EXCEPT ![i].streamed = @ + 1]
    /\ UNCHANGED <<session, settlement, closing, chain, client>>

(* After the last token, tokens that were counted and not there are taken  *)
(* off again.                                                              *)
\* Mutants of Overshoot: all that was bought is taken off; nothing is.
OvershootAll(i) == request[i].bought

OvershootNone(i) == 0

Overshoot(i) == request[i].bought - request[i].streamed

Corrected(i) == IF session.delivered > Overshoot(i)
                THEN session.delivered - Overshoot(i) ELSE 0

LastToken(i) ==
    /\ request[i].phase = "streaming"
    /\ request[i].streamed = Available(i)
    /\ request' = [request EXCEPT ![i].phase = "done"]
    /\ session' = IF session.known
                  THEN [session EXCEPT !.delivered = Corrected(i)] ELSE session
    /\ UNCHANGED <<settlement, closing, chain, client>>

(* The client is gone: the stream is dropped where it is. *)
Dropped(i) ==
    /\ request[i].phase = "streaming"
    /\ request' = [request EXCEPT ![i].phase = "dropped"]
    /\ UNCHANGED <<session, settlement, closing, chain, client>>

-----------------------------------------------------------------------------
(* Settlement, and close_channel *)

SettleLands(i) ==
    /\ settlement[i] \in {"submitted", "orphaned"}
    /\ ChainSettle(Amount(i))
    /\ settlement' = [settlement EXCEPT ![i] =
         IF @ = "submitted" THEN "landed" ELSE "ended"]
    /\ UNCHANGED <<session, request, closing, client>>

SettleFails(i) ==
    /\ settlement[i] \in {"submitted", "orphaned"}
    /\ settlement' = [settlement EXCEPT ![i] = "ended"]
    /\ UNCHANGED <<session, request, closing, chain, client>>

(* settle_channel has returned to its task. *)
SettleNoted(i) ==
    /\ settlement[i] = "landed"
    /\ settlement' = [settlement EXCEPT ![i] = "ended"]
    /\ session' = [session EXCEPT !.settled = Amount(i)]
    /\ UNCHANGED <<request, closing, chain, client>>

(* close_channel: what is claimed is the tokens counted, and what is shown *)
(* for it is the signature of the highest voucher.                         *)
FairAmount == session.delivered * Price

\* Mutant of SettleAmount: what was settled before is taken off.
SettleRest == session.highest - session.settled

SettleAmount == IF FairAmount < session.highest THEN FairAmount ELSE session.highest

CloseStart ==
    /\ client.phase = "stopping"
    /\ closing.phase = "none"
    /\ session.known
    /\ session.highest > 0
    /\ closing' = [phase |-> "submitted",
                   amount |-> SettleAmount, signed |-> session.highest]
    /\ UNCHANGED <<session, request, settlement, chain, client>>

CloseLands ==
    /\ closing.phase \in {"submitted", "orphaned"}
    /\ Closable(closing.amount, closing.signed)
    /\ ChainClose(closing.amount)
    /\ closing' = [closing EXCEPT !.phase = IF @ = "submitted" THEN "closed" ELSE @]
    /\ UNCHANGED <<session, request, settlement, client>>

CloseFails ==
    /\ closing.phase = "submitted"
    /\ closing' = [closing EXCEPT !.phase = "failed"]
    /\ UNCHANGED <<session, request, settlement, chain, client>>

(* The client has its answer, or has lost it; or there was nothing to      *)
(* close.                                                                  *)
Leave ==
    /\ client.phase = "stopping"
    /\ client' = [client EXCEPT !.phase = "closed"]
    /\ UNCHANGED <<session, request, settlement, closing, chain>>

(* The server restarts: its map is gone, and so are its streams, its tasks *)
(* and close_channel.  What was submitted to the chain may still land.     *)
Restart ==
    /\ session.known
    /\ session' = NoSession
    /\ request' = [i \in Requests |->
         IF request[i].phase \in {"streaming", "done", "dropped"}
         THEN [request[i] EXCEPT !.phase = "lost"] ELSE request[i]]
    /\ settlement' = [i \in Requests |->
         CASE settlement[i] = "submitted" -> "orphaned"
           [] settlement[i] = "landed" -> "ended"
           [] OTHER -> settlement[i]]
    /\ closing' = IF closing.phase \in {"submitted", "closed"}
                  THEN [closing EXCEPT !.phase = "orphaned"] ELSE closing
    /\ UNCHANGED <<chain, client>>

-----------------------------------------------------------------------------
ClientStep ==
    \/ Start \/ SendVoucher \/ ReadToEnd \/ StreamBreaks \/ Stop \/ Leave

Serving(i) == Accept(i) \/ Refuse(i) \/ Token(i) \/ LastToken(i)

Settling(i) == SettleLands(i) \/ SettleFails(i) \/ SettleNoted(i)

Close == CloseStart \/ CloseLands \/ CloseFails

Next ==
    \/ OpenLands \/ ClientStep \/ Close
    \/ Repeat \/ RequestFails \/ Restart
    \/ \E i \in Requests : Serving(i) \/ Dropped(i) \/ Settling(i)

Spec == Init /\ [][Next]_vars
=============================================================================
