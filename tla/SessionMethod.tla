---------------------------- MODULE SessionMethod ----------------------------
(***************************************************************************)
(* The server side of a payment channel session: the four credential       *)
(* handlers of SessionMethod (open, topUp, voucher, close), the shared     *)
(* ChannelStore they work on, and deduct_from_channel, with which the      *)
(* application charges for what it serves.                                 *)
(*                                                                         *)
(* A handler is an async task.  It reads the store, may await two REST     *)
(* calls, and writes the store back through update_channel, whose closure  *)
(* runs under the store's mutex.  Nothing is locked in between: every      *)
(* check is made on the snapshot the task read, and the store may have     *)
(* moved on when the closure runs.  One action below is the code between   *)
(* two such points.                                                        *)
(*                                                                         *)
(* A request that a handler refuses changes nothing, so a refusal made at  *)
(* the first point of a handler is simply the absence of a step.           *)
(***************************************************************************)
EXTENDS Naturals

CONSTANTS
    Channels,     \* channel ids (the keys of the store)
    Keys,         \* Ed25519 keys that may sign vouchers
    Tasks,        \* concurrently running handler tasks
    MaxAmount,    \* u64::MAX: amounts are u64
    MinDelta      \* config.min_voucher_delta

ASSUME SessionAssumption ==
    /\ MaxAmount \in Nat
    /\ MinDelta \in Nat

VARIABLES
    chain,        \* the on-chain channel resources, as the view function shows them
    store,        \* the ChannelStore
    task          \* what each handler task holds between two of its steps

vars == <<chain, store, task>>

-----------------------------------------------------------------------------
(* Data *)

Amounts == 0..MaxAmount

(* OnChainChannel: a channel that was never opened has deposit 0. *)
OnChainChannel == [deposit : Amounts, finalized : BOOLEAN]

(* An Ed25519 signature is identified with the key and the voucher it signs. *)
Signature == [key : Keys, channel : Channels, amount : Amounts]

\* Mutant of VerifyVoucher: a valid signature, by any key.
VerifyVoucherAnyKey(c, a, sig, key) ==
    sig.channel = c /\ sig.amount = a

VerifyVoucher(c, a, sig, key) ==
    sig = [key |-> key, channel |-> c, amount |-> a]

ChannelState ==
    [signer : Keys, deposit : Amounts, highest : Amounts,
     signature : Signature, spent : Amounts, finalized : BOOLEAN]

(* The store maps a channel to a ChannelState, or has no entry for it. *)
NoChannel == [absent |-> TRUE]
Known(c) == store[c] # NoChannel

(* A task between two requests, and what a handler carries over an await. *)
Idle == [op |-> "idle"]
OpenCommitting ==
    [op : {"open"}, channel : Channels, deposit : Amounts,
     amount : Amounts, signature : Signature, key : Keys]
TopUpWaiting == [op : {"topUpWait"}, channel : Channels, deposit : Amounts]
TopUpCommitting == [op : {"topUp"}, channel : Channels, deposit : Amounts]
VoucherCommitting ==
    [op : {"voucher"}, channel : Channels, amount : Amounts, signature : Signature]
CloseCommitting ==
    [op : {"close"}, channel : Channels, amount : Amounts, signature : Signature]

TaskState ==
    {Idle} \cup OpenCommitting \cup TopUpWaiting \cup TopUpCommitting
           \cup VoucherCommitting \cup CloseCommitting

Busy(t) == task[t] # Idle

TypeOK ==
    /\ chain \in [Channels -> OnChainChannel]
    /\ store \in [Channels -> ChannelState \cup {NoChannel}]
    /\ task \in [Tasks -> TaskState]

Init ==
    /\ chain = [c \in Channels |-> [deposit |-> 0, finalized |-> FALSE]]
    /\ store = [c \in Channels |-> NoChannel]
    /\ task = [t \in Tasks |-> Idle]

-----------------------------------------------------------------------------
(* The chain (external): the Move contract behind open_channel, top_up and *)
(* close.  A channel is funded once, its deposit only grows, and closing   *)
(* finalizes it.                                                           *)

ChainOpen(c) ==
    /\ chain[c].deposit = 0
    /\ \E d \in Amounts \ {0} : chain' = [chain EXCEPT ![c].deposit = d]
    /\ UNCHANGED <<store, task>>

ChainTopUp(c) ==
    /\ chain[c].deposit > 0
    /\ ~chain[c].finalized
    /\ \E d \in Amounts :
         /\ d > chain[c].deposit
         /\ chain' = [chain EXCEPT ![c].deposit = d]
    /\ UNCHANGED <<store, task>>

ChainClose(c) ==
    /\ chain[c].deposit > 0
    /\ ~chain[c].finalized
    /\ chain' = [chain EXCEPT ![c].finalized = TRUE]
    /\ UNCHANGED <<store, task>>

-----------------------------------------------------------------------------
(* The checks of the handlers *)

(* "channel not found" and "channel is finalized" *)
\* Mutant of Accepting: finalized is not looked at.
AcceptingFinalized(c) == Known(c)

Accepting(c) == Known(c) /\ ~store[c].finalized

(* "voucher amount exceeds on-chain deposit" *)
\* Mutants of WithinDeposit: off by one, either way.
WithinDepositPlusOne(a, deposit) == a <= deposit + 1
WithinDepositStrict(a, deposit) == a < deposit

WithinDeposit(a, deposit) == a <= deposit

(* "voucher delta below minimum": of an amount above the highest one *)
DeltaOK(a, highest) == a - highest >= MinDelta

(* "close voucher amount must be >= highest accepted voucher" *)
\* Mutant of CoversHighest: the final amount only has to pay what was spent.
CoversSpent(a, state) == a >= state.spent

CoversHighest(a, state) == a >= state.highest

(* verify_transaction_on_chain checks only that some transaction with the  *)
(* hash of the payload succeeded; it does not tie it to the channel.       *)
TransactionLanded == \E c \in Channels : chain[c].deposit > 0

-----------------------------------------------------------------------------
(* ChannelStore::update_channel: replace the entry, all in one step. *)
UpdateChannel(c, state) == store' = [store EXCEPT ![c] = state]

Finish(t) == task' = [task EXCEPT ![t] = Idle]

(***************************************************************************)
(* handle_open up to its update_channel: the on-chain deposit is read, the *)
(* first voucher is checked against it and against the key the client      *)
(* presents, not against an entry the store may already have.              *)
(***************************************************************************)
OpenRead(t, c) ==
    /\ ~Busy(t)
    /\ TransactionLanded
    /\ chain[c].deposit # 0
    /\ ~chain[c].finalized
    /\ \E a \in Amounts, sig \in Signature, key \in Keys :
         /\ WithinDeposit(a, chain[c].deposit)
         /\ VerifyVoucher(c, a, sig, key)
         /\ task' = [task EXCEPT ![t] =
                [op |-> "open", channel |-> c, deposit |-> chain[c].deposit,
                 amount |-> a, signature |-> sig, key |-> key]]
    /\ UNCHANGED <<chain, store>>

(* The closure of handle_open ignores the existing entry. *)
OpenCommit(t) ==
    /\ task[t].op = "open"
    /\ UpdateChannel(task[t].channel,
           [signer |-> task[t].key, deposit |-> task[t].deposit,
            highest |-> task[t].amount, signature |-> task[t].signature,
            spent |-> 0, finalized |-> FALSE])
    /\ Finish(t)
    /\ UNCHANGED chain

(* handle_top_up reads the entry, then awaits the chain. *)
TopUpRead(t, c) ==
    /\ ~Busy(t)
    /\ Known(c)
    /\ task' = [task EXCEPT ![t] =
           [op |-> "topUpWait", channel |-> c, deposit |-> store[c].deposit]]
    /\ UNCHANGED <<chain, store>>

(* The answers of the chain: the deposit grew over the snapshot, or the    *)
(* request is refused (as it is when a REST call fails).                   *)
TopUpCheck(t) ==
    /\ task[t].op = "topUpWait"
    /\ TransactionLanded
    /\ chain[task[t].channel].deposit > task[t].deposit
    /\ task' = [task EXCEPT ![t] =
           [op |-> "topUp", channel |-> task[t].channel,
            deposit |-> chain[task[t].channel].deposit]]
    /\ UNCHANGED <<chain, store>>

\* Mutant of TopUpRefuse: an unchanged deposit is neither taken nor refused.
TopUpRefuseLower(t) ==
    /\ task[t].op = "topUpWait"
    /\ chain[task[t].channel].deposit < task[t].deposit
    /\ Finish(t)
    /\ UNCHANGED <<chain, store>>

TopUpRefuse(t) ==
    /\ task[t].op = "topUpWait"
    /\ Finish(t)
    /\ UNCHANGED <<chain, store>>

(* The closure of handle_top_up takes over the deposit it was answered. *)
Credited(state, d) == [state EXCEPT !.deposit = d]

TopUpCommit(t) ==
    LET c == task[t].channel IN
    /\ task[t].op = "topUp"
    /\ UpdateChannel(c, Credited(store[c], task[t].deposit))
    /\ Finish(t)
    /\ UNCHANGED chain

(***************************************************************************)
(* handle_voucher and verify_and_accept_voucher up to update_channel.  A   *)
(* voucher that does not exceed the highest one (a replay, or an older     *)
(* one) is answered without touching the store: no step.                   *)
(***************************************************************************)
VoucherRead(t, c) ==
    /\ ~Busy(t)
    /\ Accepting(c)
    /\ \E a \in Amounts, sig \in Signature :
         /\ WithinDeposit(a, store[c].deposit)
         /\ a > store[c].highest
         /\ DeltaOK(a, store[c].highest)
         /\ VerifyVoucher(c, a, sig, store[c].signer)
         /\ task' = [task EXCEPT ![t] =
                [op |-> "voucher", channel |-> c, amount |-> a, signature |-> sig]]
    /\ UNCHANGED <<chain, store>>

(* The closure raises the highest voucher; it looks neither at finalized   *)
(* nor at the deposit again.                                               *)
\* Mutants of Raised: the signature is forgotten; the check of the closure is.
RaisedUnsigned(state, a, sig) ==
    IF a > state.highest THEN [state EXCEPT !.highest = a] ELSE state
RaisedAlways(state, a, sig) ==
    [state EXCEPT !.highest = a, !.signature = sig]

Raised(state, a, sig) ==
    IF a > state.highest
    THEN [state EXCEPT !.highest = a, !.signature = sig]
    ELSE state

VoucherCommit(t) ==
    LET c == task[t].channel IN
    /\ task[t].op = "voucher"
    /\ UpdateChannel(c, Raised(store[c], task[t].amount, task[t].signature))
    /\ Finish(t)
    /\ UNCHANGED chain

(* handle_close up to update_channel; the final amount is not held against *)
(* the deposit.                                                            *)
CloseRead(t, c) ==
    /\ ~Busy(t)
    /\ Accepting(c)
    /\ \E a \in Amounts, sig \in Signature :
         /\ CoversHighest(a, store[c])
         /\ VerifyVoucher(c, a, sig, store[c].signer)
         /\ task' = [task EXCEPT ![t] =
                [op |-> "close", channel |-> c, amount |-> a, signature |-> sig]]
    /\ UNCHANGED <<chain, store>>

(* The closure overwrites the highest voucher and finalizes. *)
CloseCommit(t) ==
    LET c == task[t].channel IN
    /\ task[t].op = "close"
    /\ UpdateChannel(c, [store[c] EXCEPT !.highest = task[t].amount,
                                         !.signature = task[t].signature,
                                         !.finalized = TRUE])
    /\ Finish(t)
    /\ UNCHANGED chain

(***************************************************************************)
(* deduct_from_channel: one update_channel.  available uses saturating_sub *)
(* because a racing close may leave highest below spent.                   *)
(***************************************************************************)
\* Mutant of Available: the whole highest voucher, each time.
AvailableUnspent(c) == store[c].highest

Available(c) ==
    IF store[c].highest > store[c].spent
    THEN store[c].highest - store[c].spent
    ELSE 0

Deduct(c) ==
    /\ Known(c)
    /\ \E n \in Amounts :
         /\ Available(c) >= n
         /\ UpdateChannel(c, [store[c] EXCEPT !.spent = @ + n])
    /\ UNCHANGED <<chain, task>>

(* The process restarts: the in-memory store and the running tasks are     *)
(* gone.                                                                   *)
Restart ==
    /\ store' = [c \in Channels |-> NoChannel]
    /\ task' = [t \in Tasks |-> Idle]
    /\ UNCHANGED chain

-----------------------------------------------------------------------------
ChainStep(c) == ChainOpen(c) \/ ChainTopUp(c) \/ ChainClose(c)

(* The point at which a task takes up a request for channel c. *)
Accept(t, c) ==
    OpenRead(t, c) \/ TopUpRead(t, c) \/ VoucherRead(t, c) \/ CloseRead(t, c)

(* The points after it. *)
Proceed(t) ==
    OpenCommit(t) \/ TopUpCheck(t) \/ TopUpRefuse(t) \/ TopUpCommit(t)
    \/ VoucherCommit(t) \/ CloseCommit(t)

Next ==
    \/ \E c \in Channels : ChainStep(c) \/ Deduct(c)
    \/ \E t \in Tasks, c \in Channels : Accept(t, c)
    \/ \E t \in Tasks : Proceed(t)
    \/ Restart

Spec == Init /\ [][Next]_vars

(* The executor runs every task that can run. *)
Fairness == \A t \in Tasks : WF_vars(Proceed(t))
=============================================================================
