------------------------------ MODULE VoicePayments ------------------------------
(***************************************************************************)
(* The two browsers of the voice call example, and the vouchers that go    *)
(* from one to the other: the caller's page opens a channel and signs a    *)
(* voucher every five seconds (useCall), the host's page keeps the highest *)
(* one and closes the channel with it (HostPanel).                         *)
(*                                                                         *)
(* A page runs one event handler at a time, and a handler gives way at     *)
(* each await: an action is the code up to the next one.  What a handler   *)
(* does after an await is not bound to the state it began in.              *)
(*                                                                         *)
(* The server, which VoiceCall models, is the set of the calls it has; the *)
(* signaling connection and the peer connection of a page are made by one  *)
(* handler and closed by one, cleanup.                                     *)
(***************************************************************************)
EXTENDS VoicePrices, Sequences

VARIABLES
    caller,       \* useCall, and the entry of its MovementSessionProvider
    wire,         \* vouchers on their way over the data channel of each call
    server,       \* the calls the server has
    host,         \* HostPanel
    chain         \* the channel of each call on chain

vars == <<caller, wire, server, host, chain>>

-----------------------------------------------------------------------------
(* Data *)

Amounts == 0..MaxDeposit

(* The state a page shows, where startCall is, whether hangup waits for    *)
(* its answer, and for which call, and whether a top-up does.              *)
Caller == [
    state : {"idle", "connecting", "ringing", "in_call", "hanging_up", "ended"},
    start : {"none", "paying", "paid", "posted", "done", "failed"},
    connected : BOOLEAN, adding : BOOLEAN,
    posting : {"none", "blank", "named"},
    deposit : Amounts, signed : Amounts]

NoVoucher == [amount |-> 0]
Voucher == [call : Calls, amount : Amounts \ {0}]
Vouchers == Voucher \cup {NoVoucher}

(* id is the call of callIdRef, current that of the connections the refs   *)
(* hold, open the calls whose peer connection is up, joined those of them  *)
(* whose caller has come to it with its data channel, and sockets those    *)
(* whose signaling connection is up.  Of the handlers that wait: starting  *)
(* are the calls of those that wait for the microphone; handler is where   *)
(* handleHangup or handleRetrySettle is, settling what the wallet is asked *)
(* to settle and telling the call the server is told of; going and leaving *)
(* say that some handleGoLive, or handleGoOffline, waits.                  *)
NoCall == "none"
Host == [
    status : {"offline", "online", "in_call", "settling", "unsettled"},
    id : Calls \cup {NoCall}, current : Calls \cup {NoCall},
    open : SUBSET Calls, joined : SUBSET Calls,
    sockets : SUBSET Calls, starting : SUBSET Calls,
    voucher : Vouchers, stored : Vouchers,
    handler : {"none", "hanging up", "paid", "unpaid", "collecting"},
    settling : Vouchers, telling : Calls \cup {NoCall},
    going : BOOLEAN, leaving : BOOLEAN]

(* What the caller has deposited, and what the host was paid when it       *)
(* closed the channel.                                                     *)
Channel == [deposit : Amounts, paid : Amounts]

TypeOK ==
    /\ caller \in [Calls -> Caller]
    /\ wire \in [Calls -> Seq(Amounts)]
    /\ server \subseteq Calls
    /\ host \in Host
    /\ chain \in [Calls -> Channel]

Init ==
    /\ caller = [c \in Calls |->
         [state |-> "idle", start |-> "none", connected |-> FALSE,
          posting |-> "none", adding |-> FALSE, deposit |-> 0, signed |-> 0]]
    /\ wire = [c \in Calls |-> <<>>]
    /\ server = {}
    /\ host =
         [status |-> "offline", id |-> NoCall, current |-> NoCall,
          open |-> {}, joined |-> {}, sockets |-> {}, starting |-> {},
          voucher |-> NoVoucher, stored |-> NoVoucher,
          handler |-> "none", settling |-> NoVoucher, telling |-> NoCall,
          going |-> FALSE, leaving |-> FALSE]
    /\ chain = [c \in Calls |-> [deposit |-> 0, paid |-> 0]]

-----------------------------------------------------------------------------
(* The chain (external).  A wallet answers when it has submitted a         *)
(* transaction, which may then be executed or abort; nobody here looks at  *)
(* the chain, so it does so at once.                                       *)

Deposited(c, amount) ==
    \/ UNCHANGED chain
    \/ chain' = [chain EXCEPT ![c].deposit = @ + amount]

(* close pays a voucher that the deposit covers. *)
Payable(v) ==
    /\ v # NoVoucher
    /\ chain[v.call].paid = 0
    /\ v.amount <= chain[v.call].deposit

Claimed(v) ==
    \/ UNCHANGED chain
    \/ Payable(v) /\ chain' = [chain EXCEPT ![v.call].paid = v.amount]

-----------------------------------------------------------------------------
(* The caller's page: startCall *)

StartCall(c) ==
    /\ caller[c].state = "idle"
    /\ caller[c].start = "none"
    /\ caller' = [caller EXCEPT ![c].state = "connecting", ![c].start = "paying"]
    /\ UNCHANGED <<wire, server, host, chain>>

(* provider.pay *)
Pay(c) ==
    /\ caller[c].start = "paying"
    /\ caller' = [caller EXCEPT ![c].start = "paid",
                                ![c].deposit = Deposit, ![c].signed = Initial]
    /\ Deposited(c, Deposit)
    /\ UNCHANGED <<wire, server, host>>

(* The second request: the server has a call, and the page rings, whatever *)
(* it showed before.                                                       *)
Post(c) ==
    /\ caller[c].start = "paid"
    /\ server' = server \cup {c}
    /\ caller' = [caller EXCEPT ![c].state = "ringing", ![c].start = "posted"]
    /\ UNCHANGED <<wire, host, chain>>

(* The microphone is granted, and the connections are made. *)
Connect(c) ==
    /\ caller[c].start = "posted"
    /\ caller' = [caller EXCEPT ![c].start = "done", ![c].connected = TRUE]
    /\ UNCHANGED <<wire, server, host, chain>>

(* An await of startCall fails: the page is idle again, and what was paid  *)
(* or posted before remains.                                               *)
StartFails(c) ==
    /\ caller[c].start \in {"paying", "paid", "posted"}
    /\ caller' = [caller EXCEPT ![c].state = "idle", ![c].start = "failed",
                                ![c].connected = FALSE]
    /\ UNCHANGED <<wire, server, host, chain>>

(* handleConnected: the host's page has answered the offer, which is made  *)
(* while the page rings and then no more.                                  *)
Answered(c) ==
    /\ caller[c].state = "ringing"
    /\ caller[c].connected
    /\ c \in host.open
    /\ caller' = [caller EXCEPT ![c].state = "in_call"]
    /\ host' = [host EXCEPT !.joined = @ \cup {c}]
    /\ UNCHANGED <<wire, server, chain>>

-----------------------------------------------------------------------------
(* The caller's page: vouchers, top-ups, hanging up *)

\* Mutant of Affordable: the next voucher is not counted.
AffordableNow(c) == caller[c].signed <= caller[c].deposit

Affordable(c) == caller[c].signed + Delta <= caller[c].deposit

(* The timer: the total is advanced and signed before it is sent. *)
Voucher5s(c) ==
    /\ caller[c].state = "in_call"
    /\ caller[c].connected
    /\ Affordable(c)
    /\ caller' = [caller EXCEPT ![c].signed = @ + Delta]
    /\ \/ wire' = [wire EXCEPT ![c] = Append(@, caller[c].signed + Delta)]
       \/ UNCHANGED wire
    /\ UNCHANGED <<server, host, chain>>

Naming(c) == IF caller[c].start \in {"posted", "done"} THEN "named" ELSE "blank"

(* hangupInternal, for the user, for the timer of an exhausted deposit or  *)
(* for an event of a connection.                                           *)
HangUp(c) ==
    /\ caller[c].state \in {"connecting", "ringing", "in_call"}
    /\ caller' = [caller EXCEPT ![c].state = "hanging_up",
                                ![c].connected = FALSE, ![c].posting = Naming(c)]
    /\ UNCHANGED <<wire, server, host, chain>>

(* The server is told, or not, and not which call if that was not known.   *)
HangUpEnds(c) ==
    /\ caller[c].posting # "none"
    /\ caller' = [caller EXCEPT ![c].state = "ended", ![c].posting = "none"]
    /\ \/ caller[c].posting = "named" /\ server' = server \ {c}
       \/ UNCHANGED server
    /\ UNCHANGED <<wire, host, chain>>

(* A wallet asks about one transaction at a time.                          *)
AddTime(c) ==
    /\ caller[c].state = "in_call"
    /\ ~caller[c].adding
    /\ caller[c].deposit + TopUp <= MaxDeposit
    /\ caller' = [caller EXCEPT ![c].adding = TRUE]
    /\ UNCHANGED <<wire, server, host, chain>>

(* topUp counts the deposit when the wallet has submitted it. *)
TimeAdded(c) ==
    /\ caller[c].adding
    /\ caller' = [caller EXCEPT ![c].adding = FALSE, ![c].deposit = @ + TopUp]
    /\ Deposited(c, TopUp)
    /\ UNCHANGED <<wire, server, host>>

AddTimeFails(c) ==
    /\ caller[c].adding
    /\ caller' = [caller EXCEPT ![c].adding = FALSE]
    /\ UNCHANGED <<wire, server, host, chain>>
-----------------------------------------------------------------------------
(* The host's page *)

HostOnly == UNCHANGED <<caller, wire, server, chain>>

(* handleGoLive, up to and after its awaits: the button may be pressed     *)
(* again, and each handler shows "online" when it is through, whatever the *)
(* page has come to by then.                                               *)
GoLive ==
    /\ host.status = "offline"
    /\ host' = [host EXCEPT !.going = TRUE]
    /\ HostOnly

WentLive ==
    /\ host.going
    /\ \E more, live \in BOOLEAN :
         host' = [host EXCEPT !.going = more,
                              !.status = IF live THEN "online" ELSE @]
    /\ HostOnly

(* cleanup closes what the refs hold: the peer connection at once, the     *)
(* signaling connection when its close event arrives.                      *)
Cleaned(h) == [h EXCEPT !.open = @ \ {h.current}, !.joined = @ \ {h.current},
                        !.current = NoCall]

(* handleGoOffline, likewise; it does not fail. *)
GoOffline ==
    /\ host.status = "online"
    /\ host' = [Cleaned(host) EXCEPT !.leaving = TRUE]
    /\ HostOnly

WentOffline ==
    /\ host.leaving
    /\ \E more \in BOOLEAN :
         host' = [host EXCEPT !.leaving = more, !.status = "offline"]
    /\ HostOnly

(* A poll is answered with a call: handleIncomingCall forgets the voucher  *)
(* of the call before.                                                     *)
Answering == host.status = "online"

IncomingCall(c) ==
    /\ Answering
    /\ c \in server
    /\ host' = [host EXCEPT !.status = "in_call", !.id = c,
                            !.starting = @ \cup {c},
                            !.voucher = NoVoucher, !.stored = NoVoucher]
    /\ HostOnly

(* The microphone is granted, whatever became of the call. *)
HostConnects(c) ==
    /\ c \in host.starting
    /\ host' = [host EXCEPT !.starting = @ \ {c}, !.current = c,
                            !.open = @ \cup {c}, !.sockets = @ \cup {c}]
    /\ HostOnly

(* endCall: for the call the page is in, whichever call the event is of. *)
Unsettled == host.voucher # NoVoucher

\* Mutant of CallOver: the voucher is not looked at.
CallOverOnline(h) == [Cleaned(h) EXCEPT !.id = NoCall, !.status = "online"]

CallOver(h) ==
    [Cleaned(h) EXCEPT !.id = NoCall,
                       !.status = IF Unsettled THEN "unsettled" ELSE "online"]

Ended(h) == IF h.status = "in_call" THEN CallOver(h) ELSE h

HostStartFails(c) ==
    /\ c \in host.starting
    /\ host' = Ended([host EXCEPT !.starting = @ \ {c}])
    /\ HostOnly

(* The caller has closed its connection, or it broke. *)
PeerDown(c) ==
    /\ c \in host.open
    /\ host' = [Ended(host) EXCEPT !.open = @ \ {c}, !.joined = @ \ {c}]
    /\ HostOnly

SocketClosed(c) ==
    /\ c \in host.sockets
    /\ host' = [Ended(host) EXCEPT !.sockets = @ \ {c}]
    /\ HostOnly

(* onmessage: of any data channel that is still open.                      *)
Higher(a) == a > host.voucher.amount

Receive(c) ==
    /\ wire[c] # <<>>
    /\ c \in host.joined
    /\ LET v == [call |-> c, amount |-> Head(wire[c])] IN
       host' = IF Higher(v.amount)
               THEN [host EXCEPT !.voucher = v, !.stored = v] ELSE host
    /\ wire' = [wire EXCEPT ![c] = Tail(@)]
    /\ UNCHANGED <<caller, server, chain>>

(* What is on the wire is lost with the connection. *)
Lost(c) ==
    /\ wire[c] # <<>>
    /\ c \notin host.joined \/ ~caller[c].connected
    /\ wire' = [wire EXCEPT ![c] = <<>>]
    /\ UNCHANGED <<caller, server, host, chain>>

-----------------------------------------------------------------------------
(* The host's page: settling *)

(* handleHangup and handleRetrySettle ask the wallet to close the channel  *)
(* with the voucher of this moment.  BOUND: one of them at a time, as the  *)
(* wallet asks about one transaction at a time.                            *)
Asks(handler) ==
    /\ host.handler = "none"
    /\ host' = [host EXCEPT !.status = "settling", !.handler = handler,
                            !.settling = host.voucher]
    /\ HostOnly

HostHangUp == host.status = "in_call" /\ Asks("hanging up")
GetPaid == host.status = "unsettled" /\ Asks("collecting")

(* After that handleHangup cleans up, and tells the server. *)
Tells(outcome) == [Cleaned(host) EXCEPT
    !.handler = outcome, !.settling = NoVoucher, !.telling = host.id]

(* A voucher that was settled is forgotten, with what came after it. *)
Forgotten(h) == [h EXCEPT !.status = "online", !.handler = "none",
    !.settling = NoVoucher, !.voucher = NoVoucher, !.stored = NoVoucher]

Kept(h) == [h EXCEPT !.status = "unsettled", !.handler = "none",
    !.settling = NoVoucher]

(* The wallet has submitted it, which it says before it has landed, or     *)
(* there was nothing to settle.                                            *)
Submitted ==
    /\ \/ host.handler = "hanging up" /\ host' = Tells("paid")
       \/ host.handler = "collecting" /\ host' = Forgotten(host)
    /\ Claimed(host.settling)
    /\ UNCHANGED <<caller, wire, server>>

(* The wallet refuses. *)
Refused ==
    /\ host.settling # NoVoucher
    /\ \/ host.handler = "hanging up" /\ host' = Tells("unpaid")
       \/ host.handler = "collecting" /\ host' = Kept(host)
    /\ HostOnly

(* The server was told, or not: "best effort". *)
Told == server' \in {server, server \ {host.telling}}

HungUp ==
    /\ host.handler \in {"paid", "unpaid"}
    /\ LET h == [host EXCEPT !.id = NoCall, !.telling = NoCall] IN
       host' = IF host.handler = "paid" THEN Forgotten(h) ELSE Kept(h)
    /\ Told
    /\ UNCHANGED <<caller, wire, chain>>

(* The page is loaded again: what was in localStorage is shown, whatever   *)
(* became of a transaction the wallet was asked for.                       *)
\* Mutant of Restored: the voucher is not read.
RestoredNothing == NoVoucher

Restored == host.stored

Refresh ==
    /\ host' =
         [status |-> IF Restored = NoVoucher THEN "offline" ELSE "unsettled",
          id |-> NoCall, current |-> NoCall,
          open |-> {}, joined |-> {}, sockets |-> {}, starting |-> {},
          voucher |-> Restored, stored |-> host.stored,
          handler |-> "none", settling |-> NoVoucher, telling |-> NoCall,
          going |-> FALSE, leaving |-> FALSE]
    /\ Claimed(host.settling)
    /\ Told
    /\ UNCHANGED <<caller, wire>>

(* The server removes a call that nobody is connected to. *)
Swept(c) ==
    /\ c \in server
    /\ ~caller[c].connected
    /\ c \notin host.open
    /\ server' = server \ {c}
    /\ UNCHANGED <<caller, wire, host, chain>>

-----------------------------------------------------------------------------
Starting(c) == StartCall(c) \/ Pay(c) \/ Post(c) \/ Connect(c) \/ StartFails(c)

Calling(c) ==
    \/ Answered(c) \/ Voucher5s(c) \/ HangUp(c) \/ HangUpEnds(c)
    \/ AddTime(c) \/ TimeAdded(c) \/ AddTimeFails(c)

Hosting(c) ==
    \/ IncomingCall(c) \/ HostConnects(c) \/ HostStartFails(c)
    \/ PeerDown(c) \/ SocketClosed(c) \/ Receive(c) \/ Lost(c) \/ Swept(c)

HostUser ==
    GoLive \/ WentLive \/ GoOffline \/ WentOffline \/ HostHangUp \/ GetPaid

Settling == Submitted \/ Refused \/ HungUp \/ Refresh

Next ==
    \/ \E c \in Calls : Starting(c) \/ Calling(c) \/ Hosting(c)
    \/ HostUser \/ Settling

Spec == Init /\ [][Next]_vars
=============================================================================
