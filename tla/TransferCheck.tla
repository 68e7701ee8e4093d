----------------------------- MODULE TransferCheck -----------------------------
(***************************************************************************)
(* How a one-time charge is paid and how the payment is recognised: the    *)
(* transfer MovementProvider builds for a challenge, and the comparison    *)
(* ChargeMethod makes of a transaction that has succeeded on chain with    *)
(* the request it should pay.                                              *)
(*                                                                         *)
(* A currency, a coin and an account are identified by their value; an     *)
(* address is a value and the way it is written (short, zero padded, in    *)
(* upper case), which normalize_address removes.                           *)
(***************************************************************************)
EXTENDS Naturals

CONSTANTS
    Accounts,     \* account addresses
    Native,       \* the address value of native MOVE, 0xa
    Tokens,       \* metadata addresses of the other fungible assets
    Spellings,    \* ways an address may be written
    Short,        \* the spelling without leading zeros
    Sums          \* u64

ASSUME TransferAssumption ==
    /\ Native \notin Tokens
    /\ Short \in Spellings

-----------------------------------------------------------------------------
(* Data *)

Currencies == Tokens \cup {Native}
Address(values) == [value : values, spelling : Spellings]

ChargeRequest == [
    currency : Address(Currencies),
    recipient : Address(Accounts),
    amount : Sums]

(* Entry functions by name; any other function or script is "other". *)
FungibleTransfer == "primary_fungible_store::transfer"
NativeTransfer == "aptos_account::transfer"
TypedTransfers == {"aptos_account::transfer_coins", "coin::transfer"}
Transfers == TypedTransfers \cup {FungibleTransfer, NativeTransfer}

Other == "other"

(* What a payload names.  Of another function the server knows nothing but *)
(* its events: coin, recipient and amount are what it moves.               *)
Payload ==
    [function : {FungibleTransfer}, metadata : Address(Currencies),
     recipient : Address(Accounts), amount : Sums]
    \cup
    [function : {NativeTransfer},
     recipient : Address(Accounts), amount : Sums]
    \cup
    [function : TypedTransfers \cup {Other}, coin : Currencies,
     recipient : Address(Accounts), amount : Sums]

(* An event names the accounts its guid, its key or its "to" field gives. *)
Event == [
    type : {"deposit", "transfer", "other"},
    accounts : SUBSET Address(Accounts),
    amount : Sums]

-----------------------------------------------------------------------------
(* The client *)

(* build_transfer_payload *)
IsNativeCurrency(currency) == currency.value = Native

\* Mutant of BuildTransfer: the metadata argument is forgotten.
BuildWithoutMetadata(r) ==
    [function |->
         IF IsNativeCurrency(r.currency) THEN NativeTransfer ELSE FungibleTransfer,
     recipient |-> r.recipient, amount |-> r.amount]

BuildTransfer(r) ==
    IF IsNativeCurrency(r.currency)
    THEN [function |-> NativeTransfer,
          recipient |-> r.recipient, amount |-> r.amount]
    ELSE [function |-> FungibleTransfer, metadata |-> r.currency,
          recipient |-> r.recipient, amount |-> r.amount]

-----------------------------------------------------------------------------
(* The chain *)

(* What a transaction that has succeeded moved.                            *)
Moved(p) == [
    currency |->
        CASE p.function = FungibleTransfer -> p.metadata.value
          [] p.function = NativeTransfer -> Native
          [] p.function \in TypedTransfers \cup {Other} -> p.coin,
    recipient |-> p.recipient.value,
    amount |-> p.amount]

(* The events a node may report of it: a coin deposit names the recipient, *)
(* a deposit into a fungible store names the store, none names the coin,   *)
(* and an index may lag behind.                                            *)
Reported(p) == SUBSET (
    [type : {"deposit"},
     accounts : {{}, {[p.recipient EXCEPT !.spelling = Short]}},
     amount : {p.amount}]
    \cup
    [type : {"other"}, accounts : {{}}, amount : {p.amount}])

(* The node's answer for it; "legible" is whether the metadata argument is *)
(* rendered as a string or as an object, which the server cannot read.     *)
Answers(p) ==
    [payload : {p}, events : Reported(p), legible : BOOLEAN]

-----------------------------------------------------------------------------
(* ChargeMethod *)

\* Mutant of SameAddress: the addresses are compared as written.
SameSpelling(a, b) == a = b

(* normalize_address(a) == normalize_address(b) *)
SameAddress(a, b) == a.value = b.value

\* Mutant of IsNativeMove: only the short form is known.
IsShortNative(currency) ==
    currency = [value |-> Native, spelling |-> Short]

IsNativeMove(currency) == currency.value = Native

SameMetadata(t, currency) ==
    t.payload.function = FungibleTransfer /\ t.legible =>
        SameAddress(t.payload.metadata, currency)

\* Mutant of CurrencyOK: the coin of a typed transfer is not looked at.
CurrencyUntyped(t, currency) ==
    /\ SameMetadata(t, currency)
    /\ t.payload.function = NativeTransfer => IsNativeMove(currency)

(* verify_payload_currency: the coin of a typed transfer is held against a *)
(* request for MOVE only, and another function's coin against nothing.     *)
CurrencyOK(t, currency) ==
    /\ SameMetadata(t, currency)
    /\ t.payload.function = NativeTransfer => IsNativeMove(currency)
    /\ t.payload.function \in TypedTransfers /\ IsNativeMove(currency) =>
           t.payload.coin = Native

\* Mutant of EventMatches: the amount of the event is not read.
EventPaysAnything(e, r) ==
    /\ e.type \in {"deposit", "transfer"}
    /\ \E a \in e.accounts : SameAddress(a, r.recipient)

(* verify_transfer_events, for one event *)
EventMatches(e, r) ==
    /\ e.type \in {"deposit", "transfer"}
    /\ e.amount = r.amount
    /\ \E a \in e.accounts : SameAddress(a, r.recipient)

(* verify_payload_fallback *)
PayloadMatches(t, r) ==
    /\ t.payload.function \in Transfers
    /\ SameMetadata(t, r.currency)
    /\ SameAddress(t.payload.recipient, r.recipient)
    /\ t.payload.amount = r.amount

(* verify_tx_hash, for a transaction the node reports as successful *)
Verified(t, r) ==
    /\ CurrencyOK(t, r.currency)
    /\ \/ \E e \in t.events : EventMatches(e, r)
       \/ PayloadMatches(t, r)

-----------------------------------------------------------------------------
(* What the method should recognise *)

(* The recipient has got the amount, of whatever currency. *)
Credits(p, r) ==
    /\ Moved(p).recipient = r.recipient.value
    /\ Moved(p).amount = r.amount

Pays(p, r) == Credits(p, r) /\ Moved(p).currency = r.currency.value

(* The node's answers of which the code does compare the currency with the *)
(* request's: legible metadata, the native coin, a typed coin where MOVE   *)
(* is asked for.                                                           *)
Compared(t, r) ==
    \/ t.payload.function = FungibleTransfer /\ t.legible
    \/ t.payload.function = NativeTransfer
    \/ t.payload.function \in TypedTransfers /\ r.currency.value = Native
=============================================================================
