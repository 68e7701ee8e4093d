----------------------------- MODULE SessionSystem -----------------------------
(***************************************************************************)
(* A MovementSessionProvider, of Rust or of TypeScript, the calls of an    *)
(* application that pay through it (send_with_payment), and a server that  *)
(* answers them with the handlers of SessionMethod and settles on chain    *)
(* (the multifetch example).                                               *)
(*                                                                         *)
(* Every call is answered by a handler task of its own, so the calls are   *)
(* the Tasks of SessionMethod.  All calls pay one payee in one currency    *)
(* through one module: they share one key of the provider's channel map.   *)
(* The first request of a call, which carries no credential and is         *)
(* answered by a 402 challenge, changes no state and is left out.          *)
(***************************************************************************)
EXTENDS Naturals, FiniteSets

CONSTANTS
    Calls,        \* calls of send_with_payment or close, each made once
    Channels,     \* channel ids, one for each salt that may be drawn
    Price,        \* amount of the session challenge
    Deposit,      \* what resolve_deposit answers
    MaxAmount     \* u64::MAX

ASSUME SystemAssumption ==
    /\ MaxAmount \in Nat
    /\ Price \in 1..MaxAmount
    /\ Deposit \in Price..MaxAmount

VARIABLES
    chain, store, task,   \* as in SessionMethod
    entry,        \* the provider's ChannelEntry for the key, if it has one
    call,         \* where each call is
    submitted,    \* the channels whose open transaction was submitted
    settlement    \* the server's on-chain closes of each channel

vars == <<chain, store, task, entry, call, submitted, settlement>>
server == <<chain, store, task>>

Server == INSTANCE SessionMethod
    WITH Keys <- {"payer"}, Tasks <- Calls, MinDelta <- 0

-----------------------------------------------------------------------------
(* Data *)

NoEntry == [opened |-> FALSE]
ChannelEntry ==
    [opened : {TRUE}, channel : Channels, cumulative : Server!Amounts]

(* A call before pay; in pay, before and after the open transaction was    *)
(* submitted; with its credential sent, then at the handler; and how it    *)
(* ended.                                                                  *)
Waiting == [phase : {"idle", "opening"}]
Opening == [phase : {"submitted"}, channel : Channels]
Request ==
    [phase : {"sent", "handling", "content", "ok", "refused", "failed"},
     op : {"open", "voucher", "close"},
     channel : Channels, amount : Server!Amounts]
Failed == [phase |-> "failed"]

(* The amounts of the close transactions that were submitted and may land, *)
(* and the amount of the one that has.                                     *)
Settlement == [closing : SUBSET Server!Amounts, paid : Server!Amounts]
NoSettlement == [closing |-> {}, paid |-> 0]

TypeOK ==
    /\ Server!TypeOK
    /\ entry \in ChannelEntry \cup {NoEntry}
    /\ call \in [Calls -> Waiting \cup Opening \cup Request \cup {Failed}]
    /\ submitted \subseteq Channels
    /\ settlement \in [Channels -> Settlement]

Init ==
    /\ Server!Init
    /\ entry = NoEntry
    /\ call = [r \in Calls |-> [phase |-> "idle"]]
    /\ submitted = {}
    /\ settlement = [c \in Channels |-> NoSettlement]

-----------------------------------------------------------------------------
(* MovementSessionProvider *)

(* What the next voucher of an open channel authorizes. *)
\* Mutant of NextAmount: the voucher is sent again.
SameAmount(e) == e.cumulative

NextAmount(e) == e.cumulative + Price

(* BOUND: the total stays a u64 (beyond it the addition would overflow). *)
\* Mutant of Fits: the total is looked at before it grows.
FitsBefore(e) == e.cumulative <= MaxAmount

Fits(e) == NextAmount(e) <= MaxAmount

(* What the provider remembers of a channel it has just opened. *)
\* Mutant of OpenedEntry: the first voucher is not counted.
UncountedEntry(c) == [opened |-> TRUE, channel |-> c, cumulative |-> 0]

OpenedEntry(c) == [opened |-> TRUE, channel |-> c, cumulative |-> Price]

Send(r, op, c, a) ==
    call' = [call EXCEPT ![r] =
        [phase |-> "sent", op |-> op, channel |-> c, amount |-> a]]

Goto(r, phase) == call' = [call EXCEPT ![r].phase = phase]

(* pay with an entry in the map: one critical section advances the total   *)
(* and signs it, before anyone has accepted it.                            *)
PayVoucher(r) ==
    /\ call[r].phase = "idle"
    /\ entry.opened
    /\ Fits(entry)
    /\ entry' = [entry EXCEPT !.cumulative = NextAmount(entry)]
    /\ Send(r, "voucher", entry.channel, NextAmount(entry))
    /\ UNCHANGED <<server, submitted, settlement>>

(* pay without one: the lock is released and the open transaction built. *)
\* Mutant of PayOpen: the map is not looked at.
PayOpenAgain(r) ==
    /\ call[r].phase = "idle"
    /\ Goto(r, "opening")
    /\ UNCHANGED <<server, entry, submitted, settlement>>

PayOpen(r) ==
    /\ call[r].phase = "idle"
    /\ ~entry.opened
    /\ Goto(r, "opening")
    /\ UNCHANGED <<server, entry, submitted, settlement>>

(* The open transaction is submitted, under a salt that was never used. *)
SubmitOpen(r) ==
    /\ call[r].phase = "opening"
    /\ \E c \in Channels \ submitted :
         /\ submitted' = submitted \cup {c}
         /\ call' = [call EXCEPT ![r] = [phase |-> "submitted", channel |-> c]]
    /\ UNCHANGED <<server, entry, settlement>>

(* It lands, then or later, or it never does. *)
OpenLands(c) ==
    /\ c \in submitted
    /\ Server!ChainOpen(c)
    /\ chain'[c].deposit = Deposit
    /\ UNCHANGED <<entry, call, submitted, settlement>>

(* The entry replaces whatever the map holds: in Rust when                 *)
(* build_sign_submit has seen the transaction land, in TypeScript when the *)
(* wallet has submitted it.                                                *)
OpenInsert(r) ==
    /\ call[r].phase = "submitted"
    /\ entry' = OpenedEntry(call[r].channel)
    /\ Send(r, "open", call[r].channel, Price)
    /\ UNCHANGED <<server, submitted, settlement>>

(* close: a signature over the whole total.  The entry stays as it is. *)
Close(r) ==
    /\ call[r].phase = "idle"
    /\ entry.opened
    /\ Send(r, "close", entry.channel, entry.cumulative)
    /\ UNCHANGED <<server, entry, submitted, settlement>>

(* build_sign_submit fails, before or after the transaction was accepted;  *)
(* a request is lost, or dropped by the server while it is handled: the    *)
(* call returns an error.                                                  *)
Fail(r) ==
    /\ call[r].phase \in {"opening", "submitted", "sent", "handling"}
    /\ call' = [call EXCEPT ![r] = Failed]
    /\ task' = [task EXCEPT ![r] = Server!Idle]
    /\ UNCHANGED <<chain, store, entry, submitted, settlement>>

-----------------------------------------------------------------------------
(* The server *)

(* A handler takes up the request. *)
Take(r) ==
    /\ call[r].phase = "sent"
    /\ Server!Accept(r, call[r].channel)
    /\ task'[r].op = call[r].op
    /\ task'[r].amount = call[r].amount
    /\ Goto(r, "handling")
    /\ UNCHANGED <<entry, submitted, settlement>>

(* A voucher that is not above the highest one is accepted as it is. *)
OldVoucher(r) ==
    LET c == call[r].channel IN
    /\ Server!Accepting(c)
    /\ Server!WithinDeposit(call[r].amount, store[c].deposit)
    /\ call[r].amount <= store[c].highest

TakeOld(r) ==
    /\ call[r].phase = "sent"
    /\ call[r].op = "voucher"
    /\ OldVoucher(r)
    /\ Goto(r, "content")
    /\ UNCHANGED <<server, entry, submitted, settlement>>

(* The checks of the handler fail: the example answers with a new 402,     *)
(* which send_with_payment hands to its caller.                            *)
Acceptable(r) ==
    LET c == call[r].channel
        a == call[r].amount
    IN CASE call[r].op = "open" ->
              ~chain[c].finalized /\ Server!WithinDeposit(a, chain[c].deposit)
         [] call[r].op = "voucher" ->
              Server!Accepting(c) /\ Server!WithinDeposit(a, store[c].deposit)
         [] call[r].op = "close" ->
              Server!Accepting(c) /\ Server!CoversHighest(a, store[c])

Refuse(r) ==
    /\ call[r].phase = "sent"
    /\ ~Acceptable(r)
    /\ Goto(r, "refused")
    /\ UNCHANGED <<server, entry, submitted, settlement>>

(* The handler is done: content for a voucher, {"status": "ok"} otherwise. *)
Answer(r) ==
    /\ call[r].phase = "handling"
    /\ Server!Proceed(r)
    /\ Goto(r, IF call[r].op = "voucher" THEN "content" ELSE "ok")
    /\ UNCHANGED <<entry, submitted, settlement>>

(* The handler runs to its end and the answer is lost. *)
AnswerLost(r) ==
    /\ call[r].phase = "handling"
    /\ Server!Proceed(r)
    /\ call' = [call EXCEPT ![r] = Failed]
    /\ UNCHANGED <<entry, submitted, settlement>>

(* close_channel of the example: the highest voucher of the store is sent  *)
(* to the chain; the store is left as it is.                               *)
\* Mutant of SettleAmount: the deposit.
SettleDeposit(c) == store[c].deposit

SettleAmount(c) == store[c].highest

(* Of a channel that is closed on chain the transaction aborts: no change. *)
SettleStart(c) ==
    /\ Server!Accepting(c)
    /\ SettleAmount(c) > 0
    /\ ~chain[c].finalized
    /\ settlement' =
           [settlement EXCEPT ![c].closing = @ \cup {SettleAmount(c)}]
    /\ UNCHANGED <<server, entry, call, submitted>>

(* One lands, whoever still waits for it; the others abort.                *)
SettleLands(c) ==
    /\ \E a \in settlement[c].closing :
           settlement' = [settlement EXCEPT ![c] = [closing |-> {}, paid |-> a]]
    /\ Server!ChainClose(c)
    /\ UNCHANGED <<entry, call, submitted>>

(* One expires. *)
SettleFails(c) ==
    /\ \E a \in settlement[c].closing :
           settlement' = [settlement EXCEPT ![c].closing = @ \ {a}]
    /\ UNCHANGED <<server, entry, call, submitted>>

ServerRestart ==
    /\ Server!Restart
    /\ call' = [r \in Calls |->
           IF call[r].phase = "handling" THEN Failed ELSE call[r]]
    /\ UNCHANGED <<entry, submitted, settlement>>

-----------------------------------------------------------------------------
Provider(r) ==
    PayVoucher(r) \/ PayOpen(r) \/ SubmitOpen(r) \/ OpenInsert(r) \/ Close(r)

Handler(r) == Take(r) \/ TakeOld(r) \/ Refuse(r) \/ Answer(r)

Loss(r) == Fail(r) \/ AnswerLost(r)

Settle(c) == SettleStart(c) \/ SettleLands(c) \/ SettleFails(c)

Next ==
    \/ \E r \in Calls : Provider(r) \/ Handler(r) \/ Loss(r)
    \/ \E c \in Channels : OpenLands(c) \/ Settle(c)
    \/ ServerRestart

Spec == Init /\ [][Next]_vars
=============================================================================
