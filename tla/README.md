# Formal models of mpp-movement

TLA+ models, TLC configurations and TLAPS proofs for the Rust and TypeScript
implementation of the Machine Payments Protocol on the Movement network. A
server answers `402 Payment Required` with a challenge; the client pays, either
with one on-chain transfer (*charge*) or through a payment channel with signed
cumulative vouchers (*session*), and retries with a credential.

Paths in this file are relative to the repository root.

## Inventory

| Part | Source | State | Operations | What makes it correct |
| --- | --- | --- | --- | --- |
| Session handlers | `src/protocol/methods/movement/session_method.rs` | `ChannelStore`: per channel signer, deposit, highest voucher and its signature, spent, finalized | `handle_open`, `handle_top_up`, `handle_voucher`, `handle_close`, `deduct_from_channel` | an open channel's vouchers are funded on chain, its service is paid for, its stored voucher can be settled; close takes back nothing |
| Session client | `src/client/movement/session.rs` | the map of channel entries (opened, channel, cumulative total) | `pay`, `close` | every deposit can be reached again; both sides agree on what is owed; what is sent is accepted |
| Session server | `examples/rust/src/multifetch_server.rs` | the in-memory store, the on-chain close under way | `scrape`, `close_channel` | serves only what is paid; settles the highest voucher, and no more than is owed |
| Charge verification | `src/protocol/methods/movement/method.rs` | none | `verify_tx_hash` and its comparisons of currency, events and payload | accepts what paid the request and nothing else |
| Charge client | `src/client/movement/mod.rs`, `src/protocol/methods/movement/rest_client.rs` | none of its own; the account's sequence number is on chain | `pay_charge`, `build_transfer_payload`, `build_sign_submit`, `wait_for_transaction` | what it builds is recognised; each call pays for itself |
| Request and retry | `src/client/fetch.rs`, `src/client/middleware.rs` | none | `send_with_payment`, `PaymentMiddleware::handle` | one payment, one retry |
| Charge server | `src/server/mpp.rs`, `src/server/axum.rs`, `src/server/middleware.rs` | none (challenges are bound by an HMAC) | `verify_credential`, the `MppCharge` extractor, `PaymentService::call` | no content without payment |
| TypeScript providers | `ts/client/src/movement/` | the session provider's channel map | `pay`, `topUp`, `close` | the same as in Rust, without waiting for the chain |
| Streamed sessions | `src/server/sse.rs`, `examples/rust/src/sse_server.rs`, `sse_client.rs`, its page | per channel: highest voucher, tokens delivered, voucher count, settled | `chat`, `close_channel`, the settle tasks; the client's voucher loop | tokens counted lie between tokens streamed and tokens paid |
| Voice call server | `examples/voice-call/server/src/main.rs` | hosts (online, busy), calls | `go_live`, `start_call`, `host_poll`, `hangup`, the sweep | a host has one call, and is busy while it has |
| Voice call pages | `examples/voice-call/client/src/` (`useCall`, `HostPanel`) | the caller's deposit and total; the host's voucher, in the page and in `localStorage` | start, voucher timer, top-up, hang-up, settle, reload | what the host was given it keeps until it is paid |
| Paid services | `examples/firecrawl-proxy`, `examples/search-image-email` | rate limit windows | the handlers, `RateLimiter::check`, `retry`; the pages | nothing is worked for unpaid, no required step is skipped, the limit bounds what passes |
| Stores | `src/store.rs` | key-value map, files | `get`, `put`, `delete` | what was put is read, across restarts |
| Proxy | `src/proxy/service.rs`, `router.rs` | configuration | `parse_route`, `match_route`, discovery | a request goes where its path says |
| Challenges on the wire | `src/protocol/core/challenge.rs`, `headers.rs`, `src/mcp.rs`, `ts/client/src/challenge.ts` | none | making, formatting, parsing, echoing, verifying | read as made, taken back by the maker only |
| Pure data | `src/server/amount.rs`, `request.rs`, `voucher.rs` | none | parsing and encoding | exact or refused; one reading in both languages |

Parts meet in four places: the store is shared by handler tasks and by the
application that charges with `deduct_from_channel`; the channel map is shared
by the calls of one provider; the chain is read and written by client and
server, through nodes that need not agree; credentials travel in requests that
may be lost, repeated or out of order. But for the key-value `FileStore`, which
sessions do not use, nothing in the library persists: a restart of the server empties `InMemoryChannelStore`, a restart of the client
empties the channel map. `PROJECT.json` lists the hazards, each at its line.

## Modules

| Module | Models | Role |
| --- | --- | --- |
| `SessionMethod` | `session_method.rs` | the concurrent handlers over the store and the chain |
| `PaymentChannel` | what a channel promises | abstract specification |
| `SessionSafety` | | regimes and properties of `SessionMethod` |
| `SessionCharges` | | what is charged over the life of a channel, as history beside `SessionMethod` |
| `SessionSystem` | `session.rs`, `session-provider.ts`, `multifetch_server.rs` | provider and server composed, with `SessionMethod` as an instance |
| `SessionSystemSafety` | | premises and properties of `SessionSystem` |
| `TransferCheck` | `method.rs`, `build_transfer_payload` | pure operators: how a charge is paid and recognised |
| `ChargeMethod` | `verify_tx_hash` alone | every transfer against every request |
| `ChargeFlow`, `ChargeFlowSafety` | charge client, chain, charge server | calls that share an account, end to end |
| `ChargeRoutes` | the extractor's routes | what each of them charges |
| `StreamSession`, `StreamSafety` | the pay-per-token stream | one channel: vouchers, streams, settlements, closing |
| `VoiceCall`, `VoiceCallSafety` | the server of the voice call example | hosts, calls, signaling connections, the sweep |
| `VoicePayments`, `VoicePaymentsSafety` | its two pages | the vouchers from the caller to the host |
| `VoicePrices` | rate and deposit | the constants of `VoicePayments` |
| `PaidService`, `PaidServiceSafety` | the two services paid per request | limiter, retries, required steps |
| `Stores`, `KeyValue` | `store.rs`; its trait | two stores, and the abstract one |
| `ChallengeWire` | challenges and their headers | one challenge there and back |
| `ProxyRoutes` | the proxy | one request against a configuration |
| `Amounts` | `amount.rs`, `request.rs` | two parsers of amounts and the integers read back |
| `VoucherBytes` | `voucher.rs`, `voucher.ts` | the signed bytes in two languages |
| `MCChargeFlow` | | constants for TLC |
| `MCPayments`, `MCComponents`, `MCExamples` | | several components side by side, for one run each |
| `SystemProofs`, `ChargeProofs`, `VoiceProofs`, `VoicePaymentsProofs`, `PaidServiceProofs`, `PartsProofs` | | theorems about one component (`PartsProofs`: stores, vouchers, routes and amounts; `ChargeProofs`: also challenges) |
| `ComponentsProofs`, `ExamplesProofs` | | theorems about `SessionMethod` and about `StreamSession`, and what holds of the components side by side |

Definitions whose comment calls them a mutant (`AvailableUnspent` beside
`Available`, ...) are not part of any specification. Each changes a definition
the way a plausible bug would; `PROJECT.json` pairs it with the property that
notices.

`MCPayments`, `MCComponents` and `MCExamples` run components that share nothing: an
initial state chooses one, the others stay where they are. A property of theirs
is what one component promises, often a conjunction; the parts keep their names in
the component's module (`UnreadableIsTorn` in `ImplementsKeyValue`,
`DollarsAreExact` in `AmountsAreExact`, and so on). Where two components have a
property of one name, the wrapper has another: `ChargeIsPaid` is `ServedIsPaid` of
`ChargeFlowSafety`, `HandlersTypeOK` is `TypeOK` of `SessionMethod`.

### Sessions: SessionMethod

A handler is an async task without a lock: it reads the store, may await two
REST calls, and writes through `update_channel`, whose closure runs under the
store's mutex. An action is the code between two such points.

| Action | Code |
| --- | --- |
| `OpenRead`, `OpenCommit` | `handle_open` up to and in its `update_channel`, whose closure replaces whatever entry there is |
| `TopUpRead`, `TopUpCheck`/`TopUpRefuse`, `TopUpCommit` | `handle_top_up`: snapshot, answers of the chain, closure |
| `VoucherRead`, `VoucherCommit` | `handle_voucher`, `verify_and_accept_voucher`: every check is on the snapshot; the closure compares amounts again, and looks neither at `finalized` nor at the deposit |
| `CloseRead`, `CloseCommit` | `handle_close`: the closure overwrites the highest voucher |
| `Deduct` | `deduct_from_channel`, one closure, with its `saturating_sub` |
| `ChainOpen`, `ChainTopUp`, `ChainClose` | the Move contract, external, as the clients call it and `get_channel` shows it |
| `Restart` | the loss of `InMemoryChannelStore` and of every running task |

A request that is refused at the first point of a handler changes nothing and
is no step. A voucher not above the highest one is answered without a write and
is no step either (it is one, `TakeOld`, where answers are modelled). A
signature is the key, channel and amount it signs.

`PaymentChannel` makes each request one step: authorizations grow and are
funded, service is covered, a channel is closed once and for no less than was
authorized. `SessionSafety!ImplementsPaymentChannel` holds the handlers against
it with the mapping `Funds`, `Phase`, `Authorized`, `Spent`.

The counter `spent` says little over the life of a channel: the closure of a
replayed open puts it back to 0, and so does a restart with the open that follows
it. `SessionCharges` therefore counts beside it, in variables no handler reads,
what `deduct_from_channel` took (`charged`), how often the channel was opened
(`openings`) and the largest voucher stored (`accepted`).

### Sessions: SessionSystem

Calls that pay through one provider against the multifetch server. `PayVoucher`
is the critical section of `pay` that advances and signs the total before
anyone has accepted it. The four parts of `pay` without an entry are `PayOpen`
(the map is looked at and unlocked), `SubmitOpen`, `OpenLands` (the chain, at
any time or never) and `OpenInsert`: the Rust provider inserts when it has seen
the transaction land, the TypeScript one when the wallet has submitted it. The
premise *waiting* tells them apart. `Close` is `close()`, which leaves its entry
in place. `Take`, `TakeOld`, `Refuse` and `Answer` are the request at the server,
with the handler of `SessionMethod` inside; `Fail` and `AnswerLost` are requests
and answers that are lost; `SettleStart`, `SettleLands` and `SettleFails` are
`close_channel`: a close that was submitted may still land after the wait for it has
ended (`rest_client.rs:294`) or the server has restarted, so a settlement is the
set of amounts that may still land and the one that did. The first request of a call, answered with 402, has no state and
is left out. An expired session challenge is refused like a lost request and is
not told apart from it. All calls have one payee and one currency.

### Charges: TransferCheck, ChargeMethod, ChargeFlow

`TransferCheck` has the request, the transfers the verifier knows (fungible,
native, two typed) and any other function or script (`Other`), which may move any coin,
the events a node may report, the client's `BuildTransfer`, and the verifier's
`CurrencyOK`, `EventMatches`, `PayloadMatches`, `Verified`. An address has a value and
a spelling, which `normalize_address` removes and a plain comparison would not. A
metadata argument that is not rendered as a string is not *legible*: the code skips its
check. `ChargeMethod` presents any transaction for any request. The server asks for
the currency of MOVE and of legible fungible transfers only (`Compared`); for the rest
it goes by an event, which names no coin (`method.rs:284-291`).

`ChargeFlow` is the life of a call: `Challenge`, `Build` (reads the sequence
number), `Submit`, then `Confirmed` (the Rust provider waits) or
`PresentAtOnce` (the TypeScript provider does not) or `WaitFails`, then
`CheckChallenge` and `Serve` or `Refuse`. The chain executes the account's
transactions in sequence, or aborts or discards them; `See` is the server's
node learning of one. A transaction is identified by its content, as its hash
is, so two calls may build the same one. `ShowAgain` is a caller that
shows a transaction and a challenge again, or shows them to another route, or the
transaction for another challenge: the extractor calls `verify_credential`
(`axum.rs:293`), which compares the request with nothing, and nobody remembers a hash.
`verify_credential_with_expected_request`, which would compare, is called nowhere in the
repository; the premise *expecting* stands for a server that does.

### Voice calls: VoiceCall

The handlers of `examples/voice-call/server/src/main.rs` run in parallel and
lock one entry of `state.hosts` or `state.calls` at a time; an action is one
such access.

| Action | Code |
| --- | --- |
| `GoLive`, `GoOffline`, `Poll` | `go_live` (replaces the entry: online, not busy), `go_offline`, the first half of `host_poll`, which brings no host online |
| `FallQuiet`, `SweepHost` | two minutes without a poll; the last loop of `sweep_stale`, which clears `busy` too |
| `StartCheck`, `StartMark`, `StartInsert` | `start_call` with a channel id: the host is copied and found free, marked busy, and the call inserted |
| `Hangup`, `FreeHost` | `hangup`: the call is removed, then the host freed |
| `PollCondemns`, `PollSpares`, `SweepCondemns`, `Remove` | the scan of `host_poll` or `sweep_stale` collects calls without a subscriber, and what was collected is removed without another look; the host is freed by `FreeHost`. A poll that finds a call it can answer with forgets what it collected |
| `Upgrade`, `UpgradeFails`, `Subscribe` | `ws_signal` with its token, and `handle_ws` up to `subscribe`, for which the call need not exist any more |
| `FallBehind`, `DisconnectDeaf` | the sending task ends with the connection still up: its receiver lagged behind the channel's 64 messages (`main.rs:746`) or a send failed, and `while let Ok` (`:899`) is over. `select!` returns, and the receiving task goes on by itself |
| `Disconnect`, `SendFails`, `SendersGone` | the receiving task ends and `handle_ws` with it; the sending task is detached, and ends when a message for the client cannot be sent or the last sender is gone |

A connection is `upgrading`, `open`, `deaf` (connected, but without the receiver that
the sweep counts), `left` (its client is gone, its receiver is not) or `closed`. An
age is 0, 1 (30 seconds: what a poll may collect) or 2 (five minutes: what the sweep
may). `Receivers` is `receiver_count()`: `open` and `left`.
Hosts, callers and their browsers appear only as what they may send.

### Voice calls: VoicePayments

The caller's page signs a voucher every five seconds, the host's page keeps the
highest one and closes the channel with it. A page runs one handler at a time,
and an action ends at an `await`: `StartCall`, `Pay`, `Post`, `Connect` are
`startCall`, `HangUp` and `HangUpEnds` are `hangupInternal`, `GoLive` and `WentLive`
are `handleGoLive`, which may be started more than once and shows the page online
whatever it has come to meanwhile, `GoOffline` and `WentOffline` are
`handleGoOffline`. `HostHangUp` and `GetPaid` ask the wallet to settle the voucher of
that moment (`Asks`), `Submitted` and `Refused` are its answers, after which a hang-up
tells the server, or does not (`Told`, "best effort"), and only then forgets or keeps
the voucher (`HungUp`). Events of a connection arrive late or never: `PeerDown` and
`SocketClosed` end the call the page is in *now*, whichever call they belong to, and
nothing makes them happen, since `handle_ws` keeps a sender of its own and closes no
connection of a removed call (`main.rs:885-945`). `Refresh` is a page loaded again,
which reads `localStorage`, while the wallet may still submit what it was asked for.
The server is the set of calls it has.

### Streams: StreamSession

`Accept` is the one critical section of `chat`: it raises the highest voucher and
counts the tokens it pays for before they are streamed. `Token` and `LastToken`
are the response stream with its correction at the end, `Dropped` is the client
that is gone, after which nothing is corrected. `SettleLands` and `SettleNoted`
are the settle task of every `SETTLE_EVERY`th voucher; `CloseStart` takes its
snapshot of the count, `CloseLands` is the chain. `Repeat` is a request sent
again by the transport. `Restart` loses the map, the streams and the settle tasks, but
not what they have submitted to the chain. Entries of different channels do not meet.

### Services paid per request: PaidService

`Verify` is the extractor, `Enter` the rate limiter and the validation behind it,
`Works` and `Fails` one attempt at one step: one step with one attempt for
firecrawl-proxy, three steps with 3, 2 and 3 attempts, the last two optional, for
search-image-email. A service may have done its work and not be heard. The page
pays (`Ask`, `Pay`, `Present`) before the server looks at anything. The limit is what
`RATE_LIMIT_PER_MINUTE` says, 0 included, with which `check` still begins a new window
for the first request after the old one (`main.rs:69-71`).

### Stores, challenges, routes, amounts, bytes

* `Stores`: both stores return futures. The memory is read and deleted from when
  the future is *made* and written when it is awaited; a file is touched only
  then, and a write is two steps, `Truncate` and `Write`, between which another
  call or a crash may come. `KeyValue` is the trait.
* `ChallengeWire`: a challenge is made by any constructor, changed by any
  setter, formatted (quoted, escaped, refused by HTTP for what it cannot carry) or
  carried as MCP data, parsed in Rust or in TypeScript, echoed, and checked by
  every server. Texts are short sequences of the symbols that the header
  gives a meaning. Base64 and the HMAC are opaque; the id binds what is fed to the
  HMAC, joined with `|`.
* `ProxyRoutes`: paths are sequences of characters, so that prefixes, empty
  segments and a base that ends within a segment are all there.
* `Amounts`: texts are sequences of symbols; digits, widths and the largest power
  of ten are scaled down (`Wide` is `u128::MAX`, `Narrow` is `u64::MAX`).
* `VoucherBytes`: bytes have `2 * Half` values and a total has `Width` of them;
  ULEB128 length, id, and little-endian total are written out. Rust cannot read a
  total that is too wide; TypeScript cuts it (`setBigUint64`, `voucher.ts:28`) and
  verifies the rest, which `AcceptedIsSigned` says of it.

## Premises

What holds often depends on what the application and the deployment do. Two
devices keep that explicit. `SessionSafety` has regimes: `Spec` is every
interleaving, `OrderlySpec` adds a store that survives (`Durable`), channels
opened once (`OpenedOnce`, as the provider's fresh salts do) and closed when no
other request for them is under way (`CloseAlone`). The other `...Safety`
modules choose one of the sets of premises in `Deployments` (in `Stores`, of
`circumstances`) at the start and keep to it; a property names the premises it needs and is checked in
every deployment, including `{}`, in which it may be vacuous while the
unconditional properties are put to every behaviour of the model. A
premise restricts clients, network and deployment, never what a handler does.

To see why a premise is there, take it out of a set of `Deployments` and out of
the property: TLC answers with a behaviour of the code. These are, with the
lines to blame:

* without *closes alone*, a close overwrites a voucher accepted since its
  snapshot (`session_method.rs:822`): the run `session_close_race`. A
  voucher checked before a close is likewise stored after it (`:938`), though
  `handle_voucher` refuses finalized channels;
* of two overlapping topUps the older answer may be stored last and lower the
  deposit (`session_method.rs:690`); vouchers remain covered;
* two vouchers checked against one snapshot may be less than the minimum delta
  apart (`session_method.rs:897`);
* without *opens alone*, two first calls open two channels and the map keeps
  one (`session.rs:346`): the run `system_two_opens`;
* without *in budget*, a call beyond the deposit is refused but counted, and a
  close finalizes the channel for more than the chain holds
  (`session_method.rs:784`);
* without *closes last*, calls after a close sign vouchers for the closed
  channel (`session.rs:268`);
* without *settles last*, a voucher accepted while the on-chain close is under
  way is not settled (`multifetch_server.rs:261`);
* without *durable*, a restarted server forgets what it was paid, and refuses
  the vouchers of a provider that goes on with them;
* without *own* (each call pays for itself, as `send_with_payment` does), one
  transaction is shown for several calls and serves them all, since no hash is
  remembered; without *own* and *expecting*, what was paid for a cheap route serves a
  dear one (`axum.rs:293`); without *own* and *legible*, a fungible transfer whose
  metadata the server cannot read pays in any asset (`method.rs:239-250`);
* without *no twins*, calls that pay the same in the same second build one
  transaction and are both served for it (`rest_client.rs:256`): the run
  `charge_shared`;
* without *lasting*, *patient*, *current* or *connected*, a transfer is paid
  and not served: the challenge expired meanwhile (`mpp.rs:202`), the wait
  ended without an answer (`rest_client.rs:294`), the server's node did not
  know the transaction yet (`axum.rs:337`), the request or its answer was lost;
* without *waiting*, the TypeScript provider is refused for a transaction that
  lands later (`provider.ts:90`);
* without *takes turns*, two callers find one host free and both get a call
  (`main.rs:673` and `:741` of the voice call server);
* without *registers free*, a host that registers during a call is free for
  another one (`main.rs:587`);
* without *hangs up*, a party that goes away leaves a subscriber behind and its
  call is not swept (`main.rs:940`): the run `voice_abandoned`.
* without *waiting*, the TypeScript session provider presents an open that has
  not landed, is refused, and its total is ahead of the server from then on
  (`session-provider.ts:194`);
* without *reliable*, a client that disconnects is charged for tokens it never
  got (`sse_server.rs:424`): the run `stream_undelivered`;
* without *smooth*, a page pays and gives up, is turned away by the limiter, has its
  input refused after it has paid, or a required step fails for good;
* without *executed*, a page counts a deposit that the chain refused, since no
  page looks at the result (`session-provider.ts:325`), and holds vouchers for more than
  there is;
* without *undisturbed*, a call comes in while `handleGoLive` or `handleGoOffline`
  waits (`HostPanel.tsx:152`, `:199`), the page is online with a voucher, and the next
  call drops it (`:244`); without *granted*, a microphone granted after its call is
  over does the same;
* without *one at a time*, *whole writes*, *files last* and *own files*, two
  writes mix, a crash leaves half a file (`store.rs:135`), a restart empties
  the memory, or two keys share a file.

*brief* (nobody tops up), *alone* (one caller; one page), *few*, *in turn*, *patient* and
*quick* (two visits; one after the other; nobody gives up; firecrawl-proxy) restrict the
size of a behaviour, not what holds: they are bounds, put next to the premises.

Two things need no premise but an exception, which the property names.
`SubscribedIsKept` leaves out who subscribes when the call is older than 30 seconds: a
poll or sweep may have collected it by then, and removes it without another look
(`main.rs:826`). `EarnedIsKept` does not count what a voucher adds while the wallet
settles: it is dropped with the settled one (`HostPanel.tsx:473`).

A host whose call is longer than two minutes needs no premise: `HostPanel.tsx:124`
polls only while it waits for a call, so the sweep clears the busy flag of a host
in a call (`main.rs:345`), but takes the host offline in the same step.

## Runs

| Run | Shows |
| --- | --- |
| `payments` | Three components side by side. *The session system*: under loss and reordering the payee never holds more than the payer counted (`HighestIsCounted`), and no settlement, however late it lands, takes more than the deposit or than was counted (`SettledIsOwed`); with a durable store and a close made alone every answered request is paid for (`ServedIsPaid`); with opens made alone every deposit is tracked (`OpenedIsTracked`); with one call at a time and no loss nothing is refused and both sides agree between calls (`InStep`). *The handlers by themselves*, with two tasks, replayed opens and restarts: an open channel's highest voucher is within its on-chain deposit (`VouchersCovered`), the service charged over its whole life within its largest voucher for each time it was opened (`ServiceCovered`), the stored signature signs the stored amount (`HighestIsSigned`). *The charge flow*: served calls have a transfer that credited what was asked, whatever is late, lost or shown again, and in the right currency and for the right route where the premises say so (`ChargeIsPaid`); without twins it is their own (`OwnTransfer`); where nothing is late no transfer is wasted (`PaidIsServed`) |
| `session_close_race` | *Violation.* `handle_close` says "close voucher amount must be >= highest accepted voucher" and lowers it when a voucher overlaps |
| `system_two_opens` | *Violation.* The provider "tracks open channels" but loses one of two that are opened together |
| `system_closed` | *Violation.* "The server should then call `channel::close` on-chain with the highest voucher" after the client's close (`session.rs:142`); its only handler that does refuses a channel that is finalized (`multifetch_server.rs:257`), so that nothing is ever settled, though the operator asks again and again |
| `components` | Nine components side by side (below) |
| `charge_shared` | *Violation.* A charge is "a one-time payment", and one transfer pays two calls |
| `transfer_token` | *Violation.* The check of the payload "prevents paying with a worthless token instead of the requested one" (`method.rs:111`), but lets a function it does not know pass, and the event of its deposit names no coin |
| `voice_call` | No host is busy for nothing, whatever overlaps; no call is removed whose party subscribed within 30 seconds and has not fallen behind (`SubscribedIsKept`); where callers take turns and hosts register between calls, one call each; a call that nobody is connected to is swept, if nobody left it without hanging up |
| `voice_abandoned` | *Violation.* The sweep says that it removes calls "with no active WebSocket subscribers", and never removes one whose parties went away |
| `examples` | *The stream*: the count lies between what was streamed and what was paid for (`CountIsFair`), no token is sold twice, a closed channel has paid for what was streamed. *The paid services*, with limits of 0, 1 and 2: in the length of a window at most two windows' worth passes, less one, and only what is paid (`LimitHolds`); what was done is what the server knows of or could not know of, and no more is asked for once a required step has failed; where nothing fails for good, who pays is not refused (`PaidIsServed`). *The pages of a voice call*: where transactions are executed the channel covers what the host holds; with the page undisturbed, too, what the host has accepted it holds, in the page and in `localStorage`, until it is paid (`EarnedIsKept`) |
| `limit_per_minute` | *Violation.* The limit is "per-IP, configurable requests per minute" (`firecrawl-proxy/README.md:76`), and two windows that meet let more pass in one minute |
| `stream_undelivered` | *Violation.* "only for tokens actually delivered" is what the client pays for, it says; a client that disconnects pays for the rest as well |

`components` checks the handlers in the orderly regime (`SignedBySigner`,
`ImplementsPaymentChannel`), the session system and the charge flow where calls
come one at a time (`CallsServed`), and the parts
without a protocol of their own: `AcceptedIsPaid` (every transfer against every
request over two accounts, two currencies, two spellings and two amounts),
`AmountsAreExact`, `AcceptedIsSigned`, `RoutedAsAddressed`, `ReadIsMade`,
`BoundToMaker` and `ImplementsKeyValue`.

### Bounds

* `MaxAmount` is `u64::MAX` made small (2 to 4): 3 amounts above 0 suffice for a
  highest voucher, a lower and a higher one, and a deposit between any two. The
  handlers add only in `deduct_from_channel`, which is checked not to overflow
  (`TypeOK`). `Fits` bounds the provider's total instead of wrapping it; the
  addition at `session.rs:270` panics or wraps, as the build decides.
* Two tasks on one channel: races here are between one handler and one closure;
  store entries of different channels never meet. The theorems have no bound on
  either.
* `payments`: three calls and two channels are two opens that cross and a voucher, or an
  open, a voucher and a close; one deployment for each of the conditional properties,
  with the premises that property names and no others. Two handler tasks, `MaxAmount`
  2, and two openings of a channel (`MaxOpenings`), of which the second is a replay or
  comes after a restart. The charges have three calls, two of which may be twins, over
  one account and two routes (native and fungible); `Seconds` has one value, the worst
  case, since transactions built in different seconds are different.
* One host, two calls and two connections: calls of different hosts share
  nothing, two calls of one host are what must not be, and two connections are
  the two parties of a call, or one party that comes back.
* Streams: three vouchers, of which two are served side by side while a third is
  signed; they pay one token, one and a half, or two; the text has three tokens,
  so that it may end inside a stream; the deposit is three tokens or four and a
  half; every second voucher settles.
* Paid services: up to four visits from two sources, limits of 0, 1 and 2, windows of
  one tick, two ticks: a window of two fills up, ends, is removed and begins again
  within the length of another one. Only one visit runs the pipeline of three steps,
  which nothing shares. `LimitPerMinute.cfg` has windows of two ticks, so that there
  is a time inside them.
* Voice vouchers: two callers of one host, each with a first voucher and one
  or two more; `Deposit` 2 and `MaxDeposit` 3 leave room for one top-up.
* Stores: two calls, two keys that may share a file, a short and a long text.
* Challenges: descriptions of up to two symbols of each kind the header treats
  in a way of its own; three servers that differ in secret or realm, one realm
  with the quote and the separator of the id; a clock of 3 ticks.
* Routes: paths of up to five characters, five bases, three services whose ids
  begin with one another or read like a discovery path.
* Amounts: four symbols, three digits, up to three places of which two fit, a
  wide integer of 255 and a narrow one of 99: every overflow of `u128` and `u64`
  has its small image.
* Voucher bytes: two bytes of four values; ids of one and two bytes, so that an
  id with its amount may look like another.
* The next-state relations bound nothing else. Deadlock is not checked where calls are
  made once each, so that the systems come to rest: that is so in all passing runs.

### Fairness

Where a run checks liveness, it is under these; all other properties are safety and
need none. `SessionMethod!Fairness`: the executor runs every handler that can run; a
handler between two of its points waits for nothing but a REST answer, which
may be a failure (`TopUpRefuse`). `SessionSystemSafety!FairSpec` and
`ChargeFlowSafety!FairSpec`: client and server go on with what they have begun,
and nodes execute what they accepted and learn of what was executed. Beginning a
call, losing a message, failing, restarting and settling are never fair; but
`SettlingSpec`, for `system_closed` alone, has an operator who settles whatever the
server lets him. `MCComponents!FairSpec` is that of the components it runs.
`VoiceCallSafety!FairSpec`: time passes, the sweep runs every minute
(`main.rs:264`), and what it and the handlers have begun they end; a poll, a
hang-up or a connection may never come.
`CallsServed` in the two systems further needs the premises of its
deployment, which name what must not fail.

Nothing fair ends the connection of a call that is over: a caller who hangs up while
the host's page still waits for an offer leaves that page in the call until the host
hangs up, so no property says that the page gets out of it by itself.

## Proofs

Eight modules hold theorems for every value of the constants, under the assumptions
that the modules state (amounts are natural numbers, finitely many
calls, ...). A property checked by a run is
proved as that run sees it; `PROJECT.json` lists the pairs. Each theorem rests on
an inductive invariant that TLC checked first; each step of the system has a lemma
of its own.

* **Session handlers** (`ComponentsProofs`): `TypeCorrect`, `OpenChannelsAreCovered`,
  `StoredVoucherIsSigned`. None of
  these is inductive: a closure writes what its task carried over an await, so
  `IInv` adds what each pending task knows (the deposit it read is at most the
  chain's, its voucher is funded and signed), that stored deposits are at
  most the chain's, and uses that the chain's deposits only grow. Steps are
  grouped by what they change (`ChainChange`, `TaskChange`, `EntryChange`).
  `ServiceIsCovered`, for `SessionCharges`: `HInv` splits what was charged into what the
  entry still counts as spent and what was charged before it was last opened, and
  bounds the latter by the largest voucher for each earlier opening (`ChargesOK`). An
  open starts a new share, a voucher or close raises the bound of all of them, and a
  deduction stays within the highest voucher, which `accepted` is not below.
  `OrderlySignatures` and `OrderlyImplementsChannel`: `OInv` adds that two pending
  tasks of one channel are compatible: an open has no companion, nor has a close, so
  that a pending close still covers the highest voucher. Each step maps to
  a step of `PaymentChannel` or to a stutter.
* **Session system** (`SystemProofs`): `TypeCorrect`, `NeverMoreThanCounted` and
  `DepositsAreTracked`. What the server holds was on its way before, and was
  counted before that; `IInv` therefore counts what the store, the handlers and
  the requests hold (`Counted`), and adds that a channel whose open is under way is
  known to nobody else (`Private`), so that the entry which replaces another one
  starts at its first voucher. `Preserved` says once what a step may change; a
  lemma for each action shows that it does no more.

  `EveryServedRequestIsPaid` is the money side. `Linked` ties each handler to
  its request; `Requests` says that the paying requests on one channel have totals of
  their own, multiples of the price, none above the provider's; `Unopened` that
  an open is handled once; `PaidInv` that a close covers all of them and that what was
  served is below the highest voucher. A set of distinct multiples below a
  bound is small enough (`MultiplesAreFew`, by `FS_Injection`). *durable* is
  used at the restart only, *closes alone* for `CloseCovers` only.

  `SettledAreOwed` has two halves. `FundInv` and `DebtInv`, without premises: every amount
  that is submitted for settlement was a total of the store, within the channel's
  deposit and counted by the provider, and stays so while it waits to land, since
  neither deposits nor counts go down. `SettleInv`, under *settles last* alone: once a
  settlement is under way no call is, so the snapshot it took stays the total.
  `SidesAreInStep` takes all five premises of `Lifecycle` and the longest
  invariant, `LifeInv`: no two calls are under way; what one of them has sent is
  the entry's total, and according to its kind more than the store has (voucher), the
  same (close), or a first price on a channel nobody knows (open), on a channel that is
  open and whose stored deposit is the whole one, which is why no check of the handlers
  refuses it (`Underway`); between calls both totals are equal (`Agreed`).
* **Charges** (`ChargeProofs`): `AcceptedMeansPaid` (the three partial checks accept only
  what credits the recipient, exactly what pays where the currency is compared, and every
  known transfer that pays, for any events the node reports) and
  `BuiltTransfersAreAccepted`; `TypeCorrect` and `NothingForFree` for every
  behaviour, with each premise where it is needed; `EachPaysItsOwn` under *own* and
  *no twins*, by `OwnInv`: transactions with one
  sequence number and one payload belong to one live call, and a used sequence number
  stays used; `NothingIsWasted` where nothing is late, by `PromptInv`: every
  transaction in the pool or landed has a live call that still has a fresh
  challenge.
* **Voice call server** (`VoiceProofs`): `TypeCorrect`, and `NobodyIsStuck` with the help
  of one fact, that the host of a started call is known: each removal of a call is
  on its way to free the host, and nothing else is owed. `OneCallForEach` by
  `OneInv`: a host is occupied by at most one start or call from the moment it is
  looked at, and from the mark until it is freed it is busy or offline, though
  the sweep may clear its flag. `SubscribedCallsAreKept` by `LateInv`: whoever is
  subscribed to a collected call came when it was older than 30 seconds (`CondemnedOnlyLate`),
  since a call is collected only without receivers, a connection that
  falls behind does not come back, and ages only grow.
* **Voice call pages** (`VoicePaymentsProofs`): `TypeCorrect` (for any overlap
  of handlers nobody signs more than was deposited) and `EarnedAreKept`. Its first half
  needs *executed*: the chain has what callers count (`Funded`), and `IInv` says that any
  voucher held or stored was signed by its caller. Its second needs *undisturbed* and *granted*, too:
  `KeptInv` says of the host's page, by its status, which connections it may have
  and whether it holds a voucher (`InOrder`), and of each caller that what was
  accepted is held or paid, and that nobody who was answered rings again
  (`Accounts`): that is what keeps a late event from replacing a voucher.
* **Streams** (`ExamplesProofs`): `TypeCorrect`, `NoTokenTwice`, `TheCountIsFair`,
  `EveryStreamIsSettled`. The count is a sum over the vouchers: `StreamInv` says that
  what streams stand for (`Size`: all that was bought until they end, what was
  streamed from then on) is together at most the count, the count at most what vouchers
  pay for, and that what streams will still take off (`Over`) is at most
  what the count has beyond the text (`Counted`). A sum is the cardinality of a
  set of pairs (`Pairs`), which changes by as much as one summand (`OneChanges`).
  `Apart` keeps the tokens of different streams apart, `Claimed` relates the
  snapshot of a close to the vouchers it knew of. Where nothing is lost the count is
  the sum itself (`Exact`).
* **Paid services** (`PaidServiceProofs`): `TheLimitHolds`, `CompletedAreDone`.
  `ServiceInv` says of each call what its handler, page, transaction and effects
  have to do with one another (`CallOK`), such as that an effect is a completed step or
  one that was not heard of. `LimitInv` relates the requests of a source that passed to
  its window: those since its start are at most its count, those of a window's length
  before it at most what a window lets pass, less its first (`Counts`), so any stretch of a
  window's length meets two windows at most and sees at most that of both, less one
  (`Limited`). With a limit of 0 a window lets one pass, its first. A window that
  was removed leaves only old requests behind (`CountsNothing`).
* **Stores** (`PartsProofs`): `UnreadableAreTorn` for all callers, since a write
  marks its file until it ends by itself (`TornInv`); `StoresAreMaps`, the refinement
  of `KeyValue`, for careful ones. `CarefulInv` says that unfinished calls are for
  different keys and that a file is empty only while one of them writes it. `Truncate` is
  the step that puts the value; `Write` is a stutter.
* **Voucher bytes** (`PartsProofs`): `VouchersAreBound`. The message is a length, an id
  and an amount with nothing between them, so it has to be shown that it can be read
  in one way only (`SerializeOnce`): a ULEB128 length ends where its high bit says, so
  no length is the beginning of another one (`Uleb128Ends`); equal lengths give equal
  ids; and the digits of an amount below `Fits` give the amount back
  (`LittleEndianHolds`). TypeScript writes a total of any size and cuts it to the
  width of a `u64`, so what it accepts is the signed voucher but for that width. The first and the last are inductions over numbers, of
  sets instead of predicates (`Induct`, from `WFMin`). ULEB128 and the powers of a
  byte are recursive functions, whose existence is proved first (`WritesExists`,
  `HoldsIs`).
* **Routes** (`PartsProofs`): `RequestsAreRouted`. The code strips the base off the text
  and cuts what is left into segments; the properties speak of the segments of base and
  path, so it has to be shown what stripping a text does to its segments. `Segments` grows
  by one character at a time (`SegmentsAppend`), and from it, by induction over the second
  text (`SeqInduct`, by sets), what joining two texts does: apart by a slash, the segments
  stand one after the other (`ApartKeeps`, `SlashKeeps`); without one, the last and the
  first become one (`WithinMerges`). Slashes at the end of the base do not matter
  (`Trimmed`). So a path that starts with the base is below it or continues its last
  segment (`BelowOrWithin`), which are the two cases of the properties.
* **Amounts** (`PartsProofs`): `AmountsAreConverted`. The properties read the digits of a
  text whose point has moved (`Shifted`); the code reads the sides of the point and
  multiplies, strips zeros and pads. What they have in common is the value of two numerals
  one after the other (`ValueConcat`, by induction over the second), from which follow
  what the padded sides come to (`ScaledIs`) and that zeros in front do not count
  (`StripIs`). `Value` and `TenTo` are recursive functions, whose existence is proved first
  (`CountsExists`, `TensExist`). That both parsers refuse the same texts follows from
  what the sides of the first point are (`SidesAre`, `DecimalIs`): each character of the
  text is in one of them or is the point. No relation of `MaxPlaces`, `Wide` and `Narrow`
  is assumed.
* **Challenges** (`ChargeProofs`): `ChallengesAreBound`, both for what is read and for
  who takes it back. The scanner of `AuthParams` is a state and a step for each symbol, so
  scanning texts that were put together is scanning one after the other (`ScannedConcat`,
  by `SeqInduct`), and one induction shows that what `Escape` makes of any text is read back
  inside the quotes (`QuotedRead`); then come one parameter, all of them, and the fields
  (`ParamRead`, `ParamsRead`, `FieldsRead`). A browser reads the bytes: those of an
  escaped text are the escape of its bytes (`BytewiseEscape`), so it has the challenge
  with a mangled description and no other difference (`MangledIs`). For the id, a secret
  and the fields joined by marks can be taken apart in one way only: no field but the realm,
  which is the first, has a mark in it, so the last mark of equal texts is the same one
  (`LastOnce`) and six of them leave the realm (`IdOnce`). The invariant, `WireInv`,
  says that whatever constructor and setters made a challenge, it is one of its maker
  (`Made`), and that what has been read is that one or a reason is in its texts.
  `WireAssumption` is about what the operator configures and the code does not check: the
  realm is not empty and ASCII. The rest of it is so by construction: an HMAC and a request
  are Base64, which is visible ASCII without a mark. A description may be anything.
* **Side by side**: in `MCComponents` and `MCExamples` each component behaves as by
  itself (`EachByItself`, `EachStarts`, `BesideStream`), so the general theorems, taken
  over by `INSTANCE`, hold of what the runs check: `VerdictsAreRight`,
  `StoresKeepTheirPromises`, `VouchersAreAsSigned`, `RequestsGoWhereAddressed`,
  `AmountsAreAsWritten`, `ChallengesAreReadAsMade`, `ChallengesAreTheirMakers`,
  `HandlersKeepTheirPromises`; `TheLimitHolds` and `CompletedAreDone` of `ExamplesProofs`.

Two things came out of failed proofs and were put right in the model, with bounds
that show them: a settlement that is under way when the stream server restarts
lands all the same, and so may a close (*orphaned*; it takes three vouchers and a
deposit of 9); and a caller's vouchers reach the host's page only once its data channel
is up (`joined`), which a connection may never get to.

Only model-checked: liveness (`CallsServed` with its part `RequestsAnswered`, and
`UnansweredIsSwept`), since TLAPS has no fairness and no `ENABLED`, and
`PaidIsServed` of the paid services. Every other invariant and every refinement
that a passing run checks is proved: in the module it is checked in, where `PROJECT.json`
pairs a theorem with a property, or else of the component by itself, which
`MCPayments` and `MCExamples` only put beside others (`HandlersTypeOK`,
`VouchersCovered`, `ServiceCovered`, `HighestIsSigned`, `ChargesTypeOK`, `ChargeIsPaid`,
`OwnTransfer` and `PaidIsServed` of the charges; `PagesTypeOK` and `EarnedIsKept`). What
a parser makes of a text of any length
takes an induction; the library's theorems for it have operators as parameters, which
no prover here can instantiate, so it is carried by sets (`Induct`, `SeqInduct`).

## Remarks

Things met while modelling that no run is about:

* `examples/rust/src/sse_client.rs:105` takes the amount of the challenge for the
  deposit; where a voucher adds ten times the price and that is more, the client
  buys nothing, while `examples/README.md:64` shows ten vouchers.
* `parse_units` moves the point and never looks at the digits, so what is no
  amount is refused only when it is read back; `parse_dollar_amount` calls an
  amount beyond `u128` `InvalidFormat`.
* A description that is not ASCII is lost on a Rust client (`to_str` fails) and
  mangled in a browser; one with a line break makes the answer fail; with
  another control character the header becomes a bare scheme.
* Nothing compares the digest of a body, and no client calls `validate_for_*`
  by itself.
* `start_call` of the page goes on after a hang-up that came between two of its
  awaits; the server then has a call nobody is in, until the sweep
  (`useCall.ts`: `Post` after `HangUp` in `VoicePayments`).
* `PaymentLayer` answers a failed verification with a bare 402, the axum
  extractor with a new challenge.

## Not modelled

* JSON shapes, Base64, HMAC and Ed25519: a challenge id binds what is fed to it,
  a signature its voucher.
* Errors and traits (`error.rs`, the `traits.rs` files): types and texts; nothing looks at an
  error's kind but to format it. The `sse.rs` event text, receipts and the
  extraction of one scheme from a list of challenges: formats without a reader
  in the repository whose behaviour depends on their detail.
* Several payees in one channel map: `close()` picks an entry in hash order
  (`session.rs:159`).
* The addition that may overflow at `session.rs:270` is bounded by `Fits`; with a
  real `u64` it is beyond any deposit.
* Two vouchers less than the minimum delta apart (`session_method.rs:897`): the
  amounts stay covered, and the code states no purpose that would be missed.
* Of the voice call: rates and 402 challenges, the per-address rate limit,
  `list_hosts`, the clean-up at exit, media and negotiation. `DEPLOY.md:407` says that after a
  restart hosts "will automatically re-register when they next poll";
  `host_poll` registers nobody (`main.rs:799`).
* Of the paid services: what the services behind return, and their texts.
* The explicit channel operations of `MovementProvider`, beyond the steps of the
  Move contract that they cause, and the set-up of servers and layers beyond
  the initial states and constants it gives.
* The hash behind a channel id: ids are distinct for distinct salts.

## Plan

Done, in this order: `SessionMethod` with `PaymentChannel` and its proofs;
`SessionSystem`; `TransferCheck`, `ChargeMethod`, `ChargeFlow` and their
proofs; `VoiceCall` and its proofs; `StreamSession`, `PaidService`,
`VoicePayments`; `Stores` with `KeyValue`, `ChallengeWire`, `ProxyRoutes`,
`Amounts`, `VoucherBytes`; proofs about `SessionSystem`, `StreamSession`,
`VoicePayments`, `PaidService`, `Stores`, `VoucherBytes`, `ProxyRoutes`, `Amounts` and
`ChallengeWire`.

Left: several payees in one channel map.
