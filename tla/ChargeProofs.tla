------------------------------ MODULE ChargeProofs ------------------------------
(***************************************************************************)
(* The promises of charges: that what a client builds and what the checks  *)
(* of ChargeMethod accept are one, for every set of accounts, currencies,  *)
(* spellings and amounts; those of ChargeFlow, for any number of calls and *)
(* any requests; and those of the challenges that ask for them: a client   *)
(* reads the one that was made, and its maker alone takes it back, for any *)
(* servers, requests and texts.                                            *)
(***************************************************************************)
EXTENDS ChargeFlowSafety, FiniteSetTheorems, SequenceTheorems,
    WellFoundedInduction, TLAPS

CONSTANTS
    Servers, Payments, ChargeOf, Symbols, MaxSymbols, Lifetime, MaxTime   \* ChallengeWire

VARIABLES
    clock, stage, maker, challenge, sent, received, judgement

Wire == INSTANCE ChallengeWire WITH
    Requests <- Payments, phase <- stage, answer <- sent, read <- received,
    verdict <- judgement

-----------------------------------------------------------------------------
(* Transfers *)

(* A reported event that matches a request belongs to a payload that names *)
(* its recipient and its amount: verify_transfer_events adds nothing that  *)
(* verify_payload_fallback would not accept of a known function.           *)
LEMMA MatchingEvent ==
    ASSUME NEW p \in Payload, NEW r \in ChargeRequest,
           NEW events \in Reported(p),
           NEW e \in events, EventMatches(e, r)
    PROVE  SameAddress(p.recipient, r.recipient) /\ p.amount = r.amount
<1>1. e \in [type : {"deposit"},
             accounts : {{}, {[p.recipient EXCEPT !.spelling = Short]}},
             amount : {p.amount}]
            \cup [type : {"other"}, accounts : {{}}, amount : {p.amount}]
  BY DEF Reported
<1>2. p.recipient \in Address(Accounts)
  BY DEF Payload
<1>3. [p.recipient EXCEPT !.spelling = Short].value = p.recipient.value
  BY <1>2 DEF Address
<1>4. PICK a \in e.accounts : SameAddress(a, r.recipient)
  BY DEF EventMatches
<1>5. a = [p.recipient EXCEPT !.spelling = Short]
  BY <1>1, <1>4
<1> QED
  BY <1>1, <1>3, <1>4, <1>5 DEF EventMatches, SameAddress

(* A transaction that is accepted credits what is asked to whom it is      *)
(* asked for; where the currency is compared, the checks accept what pays  *)
(* and nothing else; and they accept every known transfer that pays.       *)
LEMMA VerifiedIsPaid ==
    ASSUME NEW p \in Payload, NEW r \in ChargeRequest, NEW t \in Answers(p)
    PROVE  /\ Verified(t, r) => Credits(p, r)
           /\ Compared(t, r) => (Verified(t, r) <=> Pays(p, r))
           /\ Pays(p, r) /\ p.function \in Transfers => Verified(t, r)
<1> DEFINE named == SameAddress(p.recipient, r.recipient) /\ p.amount = r.amount
           right == CurrencyOK(t, r.currency)
           same == Moved(p).currency = r.currency.value
<1>0. t.payload = p /\ t.events \in Reported(p)
  BY DEF Answers
<1>1. p.function \in Transfers \cup {Other}
  BY DEF Payload, Transfers
<1>2. /\ p.function = FungibleTransfer => Moved(p).currency = p.metadata.value
      /\ p.function = NativeTransfer => Moved(p).currency = Native
      /\ p.function \in TypedTransfers => Moved(p).currency = p.coin
  BY DEF Moved, FungibleTransfer, NativeTransfer, TypedTransfers, Other
<1>3. same /\ p.function \in Transfers => right
  BY <1>0, <1>2 DEF CurrencyOK, SameMetadata, SameAddress, IsNativeMove, Transfers
<1>4. Compared(t, r) => (right <=> same)
  <2>1. CASE p.function = FungibleTransfer /\ t.legible
    BY <1>0, <1>2, <2>1 DEF CurrencyOK, SameMetadata, SameAddress,
         FungibleTransfer, NativeTransfer, TypedTransfers
  <2>2. CASE p.function = NativeTransfer
    BY <1>0, <1>2, <2>2 DEF CurrencyOK, SameMetadata, IsNativeMove,
         FungibleTransfer, NativeTransfer, TypedTransfers
  <2>3. CASE p.function \in TypedTransfers /\ r.currency.value = Native
    BY <1>0, <1>2, <2>3 DEF CurrencyOK, SameMetadata, IsNativeMove,
         FungibleTransfer, NativeTransfer, TypedTransfers
  <2> QED
    BY <1>0, <2>1, <2>2, <2>3 DEF Compared
<1>5. Credits(p, r) <=> named
  BY DEF Credits, Moved, SameAddress
<1>6. right /\ named /\ p.function \in Transfers => PayloadMatches(t, r)
  BY <1>0 DEF PayloadMatches, CurrencyOK
<1>7. PayloadMatches(t, r) => named
  BY <1>0 DEF PayloadMatches
<1>8. (\E e \in t.events : EventMatches(e, r)) => named
  BY <1>0, MatchingEvent
<1>9. Verified(t, r) <=>
        right /\ ((\E e \in t.events : EventMatches(e, r)) \/ PayloadMatches(t, r))
  BY DEF Verified
<1>10. Compared(t, r) => p.function \in Transfers
  BY <1>0 DEF Compared, Transfers
<1> HIDE DEF named, right, same
<1>11. Pays(p, r) <=> Credits(p, r) /\ same
  BY DEF Pays, same
<1> QED
  BY <1>3, <1>4, <1>5, <1>6, <1>7, <1>8, <1>9, <1>10, <1>11

(* What the client builds is a payload of a known transfer, of which the   *)
(* currency can be compared with any request where metadata is legible.    *)
Built(p) == p.function \in {FungibleTransfer, NativeTransfer}

(* It pays the request it is built for.                                    *)
LEMMA BuiltPays ==
    ASSUME NEW r \in ChargeRequest
    PROVE  /\ BuildTransfer(r) \in Payload
           /\ Built(BuildTransfer(r))
           /\ Pays(BuildTransfer(r), r)
<1> USE DEF FungibleTransfer, NativeTransfer, TypedTransfers, Other
<1>1. CASE IsNativeCurrency(r.currency)
  <2>1. BuildTransfer(r) = [function |-> NativeTransfer,
            recipient |-> r.recipient, amount |-> r.amount]
    BY <1>1 DEF BuildTransfer
  <2> QED
    BY <1>1, <2>1 DEF Payload, ChargeRequest, Built, Pays, Credits, Moved, IsNativeCurrency
<1>2. CASE ~IsNativeCurrency(r.currency)
  <2>1. BuildTransfer(r) = [function |-> FungibleTransfer,
            metadata |-> r.currency, recipient |-> r.recipient, amount |-> r.amount]
    BY <1>2 DEF BuildTransfer
  <2>2. r.currency \in Address(Currencies)
    BY DEF ChargeRequest
  <2> QED
    BY <2>1, <2>2 DEF Payload, ChargeRequest, Built, Pays, Credits, Moved
<1> QED
  BY <1>1, <1>2

LEMMA BuiltIsCompared ==
    ASSUME NEW p \in Payload, NEW r \in ChargeRequest, NEW t \in Answers(p), Built(p)
    PROVE  p.function \in Transfers /\ (t.legible => Compared(t, r))
BY DEF Built, Answers, Compared, Transfers

-----------------------------------------------------------------------------
(* Calls *)

CallState == Challenged \cup Paying \cup {Idle, Unpaid}
Ended == {"served", "refused", "failed"}
Open == {"built", "submitted", "sent", "verifying"}

HasTx(r) == call[r] \in Paying

(* A call moves on in pay; Submit also adds its transaction to the pool.   *)
Advance(r, phase) ==
    /\ call[r].phase \in Open
    /\ Goto(r, phase)
    /\ mempool' = mempool \/ mempool' = mempool \cup {call[r].tx}
    /\ UNCHANGED <<landed, aborted, seen>>

(* The phases of a call with a transaction tell that it has one. *)
LEMMA OpenHasTx ==
    ASSUME NEW r \in Calls, call[r] \in CallState,
           call[r].phase \in Open \cup {"served", "refused"}
    PROVE  HasTx(r)
BY DEF CallState, Open, HasTx, Challenged, Idle, Unpaid

LEMMA AdvanceMoves ==
    ASSUME call \in [Calls -> CallState], NEW r \in Calls,
           NEW phase \in Open \cup Ended, Advance(r, phase)
    PROVE  /\ call' \in [Calls -> CallState]
           /\ HasTx(r)
           /\ HasTx(r)'
           /\ call'[r].phase = phase
           /\ call'[r].request = call[r].request
           /\ call'[r].route = call[r].route
           /\ call'[r].fresh = call[r].fresh
           /\ call'[r].tx = call[r].tx
           /\ \A q \in Calls \ {r} : call'[q] = call[q]
<1>1. HasTx(r)
  BY OpenHasTx DEF Advance
<1>2. PICK p \in Open \cup Ended, q \in Requests, route \in Requests,
           fresh \in BOOLEAN, t \in Transaction :
        call[r] = [phase |-> p, request |-> q, route |-> route,
                   fresh |-> fresh, tx |-> t]
  BY <1>1 DEF HasTx, Paying, Open, Ended
<1>3. call' = [call EXCEPT ![r] =
        [phase |-> phase, request |-> q, route |-> route, fresh |-> fresh, tx |-> t]]
  <2>1. [call[r] EXCEPT !.phase = phase] =
        [phase |-> phase, request |-> q, route |-> route, fresh |-> fresh, tx |-> t]
    BY <1>2
  <2>2. call' = [call EXCEPT ![r] = [call[r] EXCEPT !.phase = phase]]
    BY DEF Advance, Goto
  <2> QED
    BY <2>1, <2>2
<1>4. [phase |-> phase, request |-> q, route |-> route,
       fresh |-> fresh, tx |-> t] \in Paying
  BY DEF Paying, Open, Ended
<1> QED
  BY <1>1, <1>2, <1>3, <1>4 DEF HasTx, CallState

(* Every action of a call with a transaction but Expire advances it. *)
LEMMA Advances ==
    ASSUME NEW r \in Calls
    PROVE  /\ Submit(r) => Advance(r, "submitted")
           /\ SubmitFails(r) => Advance(r, "failed")
           /\ Confirmed(r) => Advance(r, "sent")
           /\ PresentAtOnce(r) => Advance(r, "sent")
           /\ WaitFails(r) => Advance(r, "failed")
           /\ CheckChallenge(r) => Advance(r, "verifying") \/ Advance(r, "refused")
           /\ Serve(r) => Advance(r, "served")
           /\ Refuse(r) => Advance(r, "refused")
           /\ Lose(r) => Advance(r, "failed")
BY DEF Submit, SubmitFails, Confirmed, PresentAtOnce, WaitFails, CheckChallenge,
       Serve, Refuse, Lose, Advance, Open, chain

-----------------------------------------------------------------------------
(* Transactions *)

(* An executed transaction has used up its sequence number. *)
UsedUp == \A t \in landed \cup aborted : t.sequence < NextSequence

(* What is known of any state, whatever fails. *)
IInv ==
    /\ TypeOK
    /\ IsFiniteSet(landed \cup aborted)
    /\ UsedUp
    /\ \A r \in Calls : HasTx(r) => Built(call[r].tx.payload)
    /\ \A r \in Calls : call[r].phase = "served" =>
           call[r].tx \in landed /\ Credits(call[r].tx.payload, call[r].request)

(* A call that pays for itself. *)
Crafted(r) == HasTx(r) =>
    /\ call[r].tx.payload = BuildTransfer(call[r].request)
    /\ call[r].route = call[r].request

LEMMA SequenceType == IInv => NextSequence \in Nat
BY FS_CardinalityType DEF IInv, NextSequence

LEMMA InitIInv == Init => IInv
BY FS_EmptySet DEF Init, IInv, TypeOK, UsedUp, HasTx, Idle, Paying

LEMMA AdvanceIInv ==
    ASSUME IInv, NEW r \in Calls, NEW phase \in Open \cup Ended,
           Advance(r, phase), phase = "served" =>
               call[r].tx \in landed /\ Credits(call[r].tx.payload, call[r].request)
    PROVE  IInv'
<1> USE DEF IInv
<1>1. call \in [Calls -> CallState]
  BY DEF TypeOK, CallState
<1>2. /\ call' \in [Calls -> CallState]
      /\ HasTx(r) /\ call'[r].phase = phase
      /\ call'[r].request = call[r].request /\ call'[r].tx = call[r].tx
      /\ \A q \in Calls \ {r} : call'[q] = call[q]
  BY <1>1, AdvanceMoves
<1>3. call[r].tx \in Transaction
  BY <1>2 DEF HasTx, Paying
<1>4. TypeOK'
  BY <1>2, <1>3 DEF TypeOK, CallState, Advance
<1>5. UsedUp' /\ IsFiniteSet(landed \cup aborted)'
  BY DEF UsedUp, Advance, NextSequence
<1>6. ASSUME NEW q \in Calls, HasTx(q)'
      PROVE  Built(call[q].tx.payload)'
  BY <1>2, <1>6 DEF HasTx, Built
<1>7. ASSUME NEW q \in Calls, call'[q].phase = "served"
      PROVE  (call[q].tx \in landed /\ Credits(call[q].tx.payload, call[q].request))'
  BY <1>2, <1>7 DEF Advance, Credits, Moved
<1> QED
  BY <1>4, <1>5, <1>6, <1>7

(* An executed transaction was not executed before. *)
LEMMA Executes ==
    ASSUME IInv, NEW t \in mempool, t.sequence = NextSequence,
           (landed \cup aborted)' = (landed \cup aborted) \cup {t}
    PROVE  /\ NextSequence' = NextSequence + 1
           /\ IsFiniteSet(landed \cup aborted)'
           /\ UsedUp'
<1>1. t \notin landed \cup aborted
  BY SequenceType DEF IInv, UsedUp
<1>2. /\ IsFiniteSet(landed \cup aborted)'
      /\ NextSequence' = NextSequence + 1
  BY <1>1, FS_AddElement DEF IInv, NextSequence
<1>3. \A u \in landed \cup aborted : u.sequence \in Nat
  BY DEF IInv, TypeOK, Transaction
<1>4. UsedUp'
  BY <1>2, <1>3, SequenceType DEF IInv, UsedUp
<1> QED
  BY <1>2, <1>4

LEMMA ChainIInv ==
    ASSUME IInv, NEW t \in mempool \cup landed \cup aborted, Chain(t)
    PROVE  IInv'
<1> USE DEF IInv
<1>1. call' = call /\ landed \subseteq landed'
  BY DEF Chain, Execute, Abort, Discard, See, chain
<1>2. \A r \in Calls : HasTx(r)' => HasTx(r)
  BY <1>1 DEF HasTx
<1>3. TypeOK'
  <2>1. t \in Transaction
    BY DEF TypeOK
  <2> QED
    BY <1>1, <2>1 DEF TypeOK, Chain, Execute, Abort, Discard, See, Drop, chain
<1>4. UsedUp' /\ IsFiniteSet(landed \cup aborted)'
  <2>1. CASE Execute(t) \/ Abort(t)
    BY <2>1, Executes DEF Execute, Abort
  <2>2. CASE Discard(t) \/ See(t)
    BY <2>2 DEF Discard, See, UsedUp, NextSequence, chain
  <2> QED
    BY <2>1, <2>2 DEF Chain
<1> QED
  BY <1>1, <1>2, <1>3, <1>4

(* What is shown again is the transaction of another call. *)
LEMMA ShownAgain ==
    ASSUME call \in [Calls -> CallState], NEW r \in Calls, ShowAgain(r)
    PROVE  \E s \in Calls :
        /\ HasTx(s) /\ HasTx(r)'
        /\ call[r].phase = "idle" /\ ~HasTx(r)
        /\ call'[r].phase = "sent" /\ call'[r].tx = call[s].tx
        /\ \A q \in Calls \ {r} : call'[q] = call[q]
        /\ call' \in [Calls -> CallState]
<1>1. PICK s \in Calls, route \in Requests :
        /\ call[s] \in Paying
        /\ \E c \in {[request |-> call[s].request, fresh |-> call[s].fresh],
                     [request |-> route, fresh |-> TRUE]} :
               call' = [call EXCEPT ![r] =
                   [phase |-> "sent", request |-> c.request, route |-> route,
                    fresh |-> c.fresh, tx |-> call[s].tx]]
  BY DEF ShowAgain
<1>2. PICK q \in Requests, fresh \in BOOLEAN :
        call' = [call EXCEPT ![r] =
            [phase |-> "sent", request |-> q, route |-> route,
             fresh |-> fresh, tx |-> call[s].tx]]
  <2>1. call[s].request \in Requests /\ call[s].fresh \in BOOLEAN
    BY <1>1 DEF Paying
  <2>2. PICK c \in {[request |-> call[s].request, fresh |-> call[s].fresh],
                   [request |-> route, fresh |-> TRUE]} :
               call' = [call EXCEPT ![r] =
                   [phase |-> "sent", request |-> c.request, route |-> route,
                    fresh |-> c.fresh, tx |-> call[s].tx]]
    BY <1>1
  <2>3. c.request \in Requests /\ c.fresh \in BOOLEAN
    <3>1. CASE c = [request |-> call[s].request, fresh |-> call[s].fresh]
      BY <2>1, <3>1
    <3>2. CASE c = [request |-> route, fresh |-> TRUE]
      BY <3>2
    <3> QED
      BY <3>1, <3>2
  <2> QED
    BY <2>2, <2>3
<1>3. [phase |-> "sent", request |-> q, route |-> route,
       fresh |-> fresh, tx |-> call[s].tx] \in Paying
  BY <1>1 DEF Paying
<1>4. call[r].phase = "idle" /\ ~HasTx(r)
  BY DEF ShowAgain, HasTx, Paying
<1> QED
  BY <1>1, <1>2, <1>3, <1>4 DEF HasTx, CallState

(* The steps of calls that do not advance. *)
Aside(r) == Challenge(r) \/ Build(r) \/ BuildFails(r) \/ Expire(r) \/ ShowAgain(r)

(* They leave everything but the call alone, and serve nothing.            *)
LEMMA AsideMoves ==
    ASSUME IInv, NEW r \in Calls, Aside(r)
    PROVE  /\ UNCHANGED <<mempool, landed, aborted, seen>>
           /\ call' \in [Calls -> CallState]
           /\ \A q \in Calls \ {r} : call'[q] = call[q]
           /\ call'[r].phase # "served"
           /\ call'[r].phase = "verifying" => call[r].phase = "verifying"
           /\ HasTx(r)' => Built(call'[r].tx.payload)
           /\ HasTx(r) => /\ HasTx(r)' /\ call'[r].tx = call[r].tx
                          /\ call'[r].request = call[r].request
                          /\ call'[r].route = call[r].route
           /\ Build(r) => /\ call'[r].tx.payload = BuildTransfer(call'[r].request)
                          /\ call'[r].route = call'[r].request
           /\ HasTx(r)' => HasTx(r) \/ Build(r) \/ ShowAgain(r)
<1>1. UNCHANGED <<mempool, landed, aborted, seen>>
  BY DEF Aside, Challenge, Build, BuildFails, Expire, ShowAgain, chain
<1>2. call \in [Calls -> CallState]
  BY DEF IInv, TypeOK, CallState
<1>3. CASE Challenge(r)
  <2>1. PICK q \in Requests : call' = [call EXCEPT ![r] =
             [phase |-> "challenged", request |-> q, fresh |-> TRUE]]
    BY <1>3 DEF Challenge
  <2>2. [phase |-> "challenged", request |-> q, fresh |-> TRUE] \in Challenged
    BY DEF Challenged
  <2>3. ~HasTx(r) /\ ~HasTx(r)' /\ ~Build(r)
    BY <1>2, <1>3, <2>1 DEF Challenge, Build, HasTx, Paying
  <2> QED
    BY <1>1, <1>2, <2>1, <2>2, <2>3 DEF CallState
<1>4. CASE Build(r)
  <2>1. call[r] \in Challenged
    BY <1>2, <1>4 DEF Build, CallState, Challenged, Paying, Idle, Unpaid
  <2>2. PICK s \in Seconds : call' = [call EXCEPT ![r] =
             [phase |-> "built", request |-> call[r].request,
              route |-> call[r].request, fresh |-> call[r].fresh,
              tx |-> [sequence |-> NextSequence,
                      payload |-> BuildTransfer(call[r].request),
                      expiration |-> s]]]
    BY <1>4 DEF Build
  <2>3. call[r].request \in Requests /\ call[r].fresh \in BOOLEAN
    BY <2>1 DEF Challenged
  <2>4. /\ BuildTransfer(call[r].request) \in Payload
        /\ Built(BuildTransfer(call[r].request))
    BY <2>3, BuiltPays, ChargeAssumption
  <2>5. [sequence |-> NextSequence,
         payload |-> BuildTransfer(call[r].request),
         expiration |-> s] \in Transaction
    BY <2>4, SequenceType DEF Transaction
  <2>6. call'[r] \in Paying
    BY <1>2, <2>2, <2>3, <2>5 DEF Paying
  <2>7. ~HasTx(r)
    BY <1>4 DEF Build, HasTx, Paying
  <2> QED
    BY <1>1, <1>2, <1>4, <2>2, <2>4, <2>6, <2>7 DEF CallState
<1>5. CASE BuildFails(r)
  <2>1. ~HasTx(r) /\ ~HasTx(r)'
    BY <1>2, <1>5 DEF BuildFails, HasTx, Paying, Unpaid
  <2> QED
    BY <1>1, <1>2, <1>5, <2>1 DEF BuildFails, Build, CallState, Unpaid
<1>6. CASE Expire(r)
  <2>1. call' = [call EXCEPT ![r] = [call[r] EXCEPT !.fresh = FALSE]]
    BY <1>6 DEF Expire
  <2>2. call[r] \in Challenged \cup Paying
    BY <1>2, <1>6 DEF Expire, CallState, Idle, Unpaid
  <2>3. /\ call[r] \in Challenged => [call[r] EXCEPT !.fresh = FALSE] \in Challenged
        /\ call[r] \in Paying => [call[r] EXCEPT !.fresh = FALSE] \in Paying
    BY DEF Challenged, Paying
  <2>4. call'[r].phase = call[r].phase /\ call'[r].phase # "served"
    BY <1>2, <1>6, <2>1, <2>2 DEF Expire, Challenged, Paying
  <2>5. HasTx(r)' => HasTx(r)
    BY <1>2, <2>1, <2>2, <2>3 DEF HasTx, Challenged, Paying
  <2>6. HasTx(r) => /\ HasTx(r)' /\ call'[r].tx = call[r].tx
                    /\ call'[r].request = call[r].request
                    /\ call'[r].route = call[r].route
    BY <1>2, <2>1, <2>3 DEF HasTx, Paying
  <2>7. HasTx(r) => Built(call[r].tx.payload)
    BY DEF IInv
  <2>8. call[r].phase = "challenged" => ~HasTx(r)
    BY DEF HasTx, Paying
  <2>9. Build(r) => /\ call'[r].tx.payload = BuildTransfer(call'[r].request)
                    /\ call'[r].route = call'[r].request
    BY <1>4
  <2> QED
    BY <1>1, <1>2, <2>1, <2>2, <2>3, <2>4, <2>5, <2>6, <2>7, <2>9
       DEF CallState
<1>7. CASE ShowAgain(r)
  <2>1. ~Build(r)
    BY <1>7 DEF ShowAgain, Build
  <2>2. PICK s \in Calls :
        /\ HasTx(s) /\ HasTx(r)' /\ ~HasTx(r)
        /\ call'[r].phase = "sent" /\ call'[r].tx = call[s].tx
        /\ \A q \in Calls \ {r} : call'[q] = call[q]
        /\ call' \in [Calls -> CallState]
    BY <1>2, <1>7, ShownAgain
  <2>3. Built(call[s].tx.payload)
    BY <2>2 DEF IInv
  <2> QED
    BY <1>1, <1>7, <2>1, <2>2, <2>3
<1> QED
  BY <1>3, <1>4, <1>5, <1>6, <1>7 DEF Aside

LEMMA AsideIInv ==
    ASSUME IInv, NEW r \in Calls, Aside(r)
    PROVE  IInv'
<1> USE DEF IInv
<1>1. /\ UNCHANGED <<mempool, landed, aborted, seen>>
      /\ call' \in [Calls -> CallState]
      /\ \A q \in Calls \ {r} : call'[q] = call[q]
      /\ call'[r].phase # "served"
      /\ HasTx(r)' => Built(call'[r].tx.payload)
  BY AsideMoves
<1>2. TypeOK' /\ UsedUp' /\ IsFiniteSet(landed \cup aborted)'
  BY <1>1 DEF TypeOK, CallState, UsedUp, NextSequence
<1>3. ASSUME NEW q \in Calls, HasTx(q)'
      PROVE  Built(call[q].tx.payload)'
  BY <1>1, <1>3 DEF HasTx, Built
<1>4. ASSUME NEW q \in Calls, call'[q].phase = "served"
      PROVE  (call[q].tx \in landed /\ Credits(call[q].tx.payload, call[q].request))'
  BY <1>1, <1>4 DEF Credits, Moved
<1> QED
  BY <1>2, <1>3, <1>4

-----------------------------------------------------------------------------
(* Steps *)

(* The steps of ChargeFlow, by what they change. *)
Step ==
    \/ \E r \in Calls : Aside(r)
    \/ \E r \in Calls, phase \in (Open \cup Ended) \ {"served"} : Advance(r, phase)
    \/ \E r \in Calls : Serve(r)
    \/ \E t \in mempool \cup landed \cup aborted : Chain(t)

LEMMA Steps == Next => Step
<1> SUFFICES ASSUME Next PROVE Step
  OBVIOUS
<1>1. CASE \E t \in mempool \cup landed \cup aborted : Chain(t)
  BY <1>1 DEF Step
<1>2. ASSUME NEW r \in Calls, Client(r) \/ Server(r) \/ Expire(r) \/ Lose(r)
      PROVE  Step
  <2>1. CASE Aside(r) \/ Serve(r)
    BY <2>1 DEF Step
  <2>2. CASE \E phase \in (Open \cup Ended) \ {"served"} : Advance(r, phase)
    BY <2>2 DEF Step
  <2>3. \/ Aside(r) \/ Serve(r) \/ Submit(r) \/ SubmitFails(r) \/ Confirmed(r) \/ PresentAtOnce(r)
        \/ WaitFails(r) \/ CheckChallenge(r) \/ Refuse(r) \/ Lose(r)
    BY <1>2 DEF Client, Server, Aside
  <2>4. {"submitted", "failed", "sent", "verifying", "refused"}
            \subseteq (Open \cup Ended) \ {"served"}
    BY DEF Open, Ended
  <2>5. CASE ~(Aside(r) \/ Serve(r))
    <3>1. Advance(r, "submitted") \/ Advance(r, "failed") \/ Advance(r, "sent")
          \/ Advance(r, "verifying") \/ Advance(r, "refused")
      BY <2>3, <2>5, Advances
    <3> QED
      BY <2>2, <2>4, <3>1
  <2> QED
    BY <2>1, <2>5
<1> QED
  BY <1>1, <1>2 DEF Next

(* A call is served for a transaction that credits what its challenge asks *)
(* and, where metadata is legible, pays it.                                *)
LEMMA ServedFor ==
    ASSUME IInv, NEW r \in Calls, Serve(r)
    PROVE  /\ Advance(r, "served") /\ HasTx(r)
           /\ call[r].tx \in landed
           /\ Credits(call[r].tx.payload, call[r].request)
           /\ RecognisedAs(call[r].tx, TRUE, call[r].request) =>
                  Pays(call[r].tx.payload, call[r].request)
<1>1. Advance(r, "served")
  BY Advances
<1>2. HasTx(r)
  BY <1>1, OpenHasTx DEF Advance, IInv, TypeOK, CallState
<1>3. /\ call[r].request \in ChargeRequest
      /\ call[r].tx.payload \in Payload
      /\ Built(call[r].tx.payload)
  BY <1>2, ChargeAssumption DEF HasTx, Paying, Transaction, IInv
<1>4. /\ call[r].tx \in landed
      /\ \E t \in Answers(call[r].tx.payload) : Verified(t, call[r].request)
  BY DEF Serve, Recognised, RecognisedAs
<1>5. Credits(call[r].tx.payload, call[r].request)
  BY <1>3, <1>4, VerifiedIsPaid
<1>6. ASSUME RecognisedAs(call[r].tx, TRUE, call[r].request)
      PROVE  Pays(call[r].tx.payload, call[r].request)
  <2>1. PICK t \in Answers(call[r].tx.payload) :
          t.legible /\ Verified(t, call[r].request)
    BY <1>6 DEF RecognisedAs
  <2> QED
    BY <1>3, <2>1, BuiltIsCompared, VerifiedIsPaid
<1> QED
  BY <1>1, <1>2, <1>4, <1>5, <1>6

LEMMA NextIInv == IInv /\ [Next]_vars => IInv'
<1> SUFFICES ASSUME IInv, [Next]_vars PROVE IInv'
  OBVIOUS
<1>1. CASE Step
  BY <1>1, AdvanceIInv, ServedFor, ChainIInv, AsideIInv DEF Step, Ended
<1>2. CASE UNCHANGED vars
  BY <1>2 DEF vars, IInv, TypeOK, UsedUp, NextSequence, HasTx
<1> QED
  BY <1>1, <1>2, Steps

LEMMA Invariance == Spec => []IInv
BY InitIInv, NextIInv, PTL DEF Spec

(* Calls, transactions and what the nodes know of them are of their types, *)
(* whatever is late, lost or refused.                                      *)
THEOREM TypeCorrect == Spec => []TypeOK
<1>1. IInv => TypeOK
  BY DEF IInv
<1> QED
  BY <1>1, Invariance, PTL

(* A call on its own shows nothing again. *)
LEMMA OwnShowsNothing ==
    ASSUME IInv, Own, NEW r \in Calls PROVE ~ShowAgain(r)
<1> SUFFICES ASSUME ShowAgain(r) PROVE FALSE
  OBVIOUS
<1>1. call[r].phase = "idle" /\ HasTx(r)' /\ ~HasTx(r)
  BY ShownAgain DEF IInv, TypeOK, CallState
<1> QED
  BY <1>1 DEF Own, HasTx, Moves

LEMMA NextCrafted ==
    ASSUME IInv, \A r \in Calls : Crafted(r), [Next /\ Own]_vars
    PROVE  \A r \in Calls : Crafted(r)'
<1>0. call \in [Calls -> CallState]
  BY DEF IInv, TypeOK, CallState
<1>1. ASSUME NEW r \in Calls, NEW phase \in Open \cup Ended, Advance(r, phase),
             NEW q \in Calls
      PROVE  Crafted(q)'
  BY <1>0, <1>1, AdvanceMoves DEF Crafted, HasTx
<1>2. ASSUME NEW r \in Calls, Aside(r), Own, NEW q \in Calls
      PROVE  Crafted(q)'
  <2>1. ~ShowAgain(r)
    BY <1>2, OwnShowsNothing
  <2> QED
    BY <1>2, <2>1, AsideMoves DEF Crafted, HasTx
<1>3. ASSUME NEW r \in Calls, Serve(r), NEW q \in Calls
      PROVE  Crafted(q)'
  BY <1>1, <1>3, ServedFor DEF Ended
<1>4. ASSUME UNCHANGED call, NEW q \in Calls
      PROVE  Crafted(q)'
  BY <1>4 DEF Crafted, HasTx
<1>5. (\E t \in mempool \cup landed \cup aborted : Chain(t)) => UNCHANGED call
  BY DEF Chain, Execute, Abort, Discard, See
<1> QED
  BY <1>1, <1>2, <1>3, <1>4, <1>5, Steps DEF Step, vars

(* What a legible node and an expecting server add. *)
LegiblePays == \A r \in Calls : call[r].phase = "served" =>
    Pays(call[r].tx.payload, call[r].request)
Expected == \A r \in Calls : call[r].phase \in {"verifying", "served"} =>
    call[r].request = call[r].route

LEMMA NextLegible ==
    ASSUME IInv, LegiblePays, [Next /\ Legible]_vars
    PROVE  LegiblePays'
<1> SUFFICES ASSUME NEW q \in Calls, call'[q].phase = "served"
             PROVE  Pays(call'[q].tx.payload, call'[q].request)
  BY DEF LegiblePays, Pays, Credits, Moved
<1>0. call \in [Calls -> CallState]
  BY DEF IInv, TypeOK, CallState
<1>1. ASSUME call[q].phase = "served", call'[q].tx = call[q].tx,
             call'[q].request = call[q].request
      PROVE  Pays(call'[q].tx.payload, call'[q].request)
  BY <1>1 DEF LegiblePays
<1>2. ASSUME NEW r \in Calls, NEW phase \in (Open \cup Ended) \ {"served"},
             Advance(r, phase)
      PROVE  Pays(call'[q].tx.payload, call'[q].request)
  BY <1>0, <1>1, <1>2, AdvanceMoves
<1>3. ASSUME NEW r \in Calls, Aside(r)
      PROVE  Pays(call'[q].tx.payload, call'[q].request)
  BY <1>1, <1>3, AsideMoves
<1>4. ASSUME NEW r \in Calls, Serve(r), Legible
      PROVE  Pays(call'[q].tx.payload, call'[q].request)
  <2>1. /\ call'[r].phase = "served" /\ call'[r].request = call[r].request
        /\ call'[r].tx = call[r].tx
        /\ \A o \in Calls \ {r} : call'[o] = call[o]
    BY <1>0, <1>4, ServedFor, AdvanceMoves DEF Ended
  <2>2. Pays(call[r].tx.payload, call[r].request)
    BY <1>4, <2>1, ServedFor DEF Legible, Moves, Serve
  <2> QED
    BY <1>1, <2>1, <2>2
<1>5. ASSUME UNCHANGED call
      PROVE  Pays(call'[q].tx.payload, call'[q].request)
  BY <1>1, <1>5
<1>6. (\E t \in mempool \cup landed \cup aborted : Chain(t)) => UNCHANGED call
  BY DEF Chain, Execute, Abort, Discard, See
<1> QED
  BY <1>2, <1>3, <1>4, <1>5, <1>6, Steps DEF Step, vars

LEMMA NextExpected ==
    ASSUME IInv, Expected, [Next /\ Expecting]_vars
    PROVE  Expected'
<1> USE DEF Expected
<1>0. call \in [Calls -> CallState]
  BY DEF IInv, TypeOK, CallState
<1>1. ASSUME NEW r \in Calls, NEW phase \in (Open \cup Ended) \ {"verifying", "served"},
             Advance(r, phase)
      PROVE  Expected'
  BY <1>0, <1>1, AdvanceMoves
<1>2. ASSUME NEW r \in Calls, Aside(r)
      PROVE  Expected'
  <2>1. /\ \A q \in Calls \ {r} : call'[q] = call[q]
        /\ call'[r].phase # "served"
        /\ call'[r].phase = "verifying" => call[r].phase = "verifying"
        /\ HasTx(r) => /\ call'[r].request = call[r].request
                       /\ call'[r].route = call[r].route
    BY <1>2, AsideMoves
  <2>2. call[r].phase = "verifying" => HasTx(r)
    BY <1>0, OpenHasTx DEF Open
  <2> QED
    BY <2>1, <2>2
<1>3. ASSUME NEW r \in Calls, Serve(r)
      PROVE  Expected'
  <2>1. Advance(r, "served") /\ call[r].phase = "verifying"
    BY <1>3, ServedFor DEF Serve
  <2>2. /\ \A q \in Calls \ {r} : call'[q] = call[q]
        /\ call'[r].request = call[r].request
        /\ call'[r].route = call[r].route
    BY <1>0, <2>1, AdvanceMoves DEF Ended
  <2> QED
    BY <2>1, <2>2
<1>4. ASSUME NEW r \in Calls, CheckChallenge(r), Expecting
      PROVE  Expected'
  <2>1. CASE Advance(r, "refused")
    BY <1>1, <2>1 DEF Ended
  <2>2. CASE Advance(r, "verifying")
    <3>1. /\ call'[r].phase = "verifying" /\ call'[r].request = call[r].request
          /\ call'[r].route = call[r].route
          /\ \A q \in Calls \ {r} : call'[q] = call[q]
      BY <1>0, <2>2, AdvanceMoves DEF Open
    <3>2. call[r].request = call[r].route
      BY <1>4, <3>1 DEF Expecting, Moves, CheckChallenge
    <3> QED
      BY <3>1, <3>2
  <2> QED
    BY <1>4, <2>1, <2>2, Advances
<1>5. ASSUME UNCHANGED call
      PROVE  Expected'
  BY <1>5
<1>6. CASE Next /\ Expecting
  <2>1. ASSUME NEW t \in mempool \cup landed \cup aborted, Chain(t)
        PROVE  Expected'
    BY <1>5, <2>1 DEF Chain, Execute, Abort, Discard, See
  <2>2. ASSUME NEW r \in Calls, Client(r) \/ Server(r) \/ Expire(r) \/ Lose(r)
        PROVE  Expected'
    <3>1. \/ Aside(r) \/ Serve(r) \/ CheckChallenge(r) \/ Submit(r) \/ SubmitFails(r)
          \/ Confirmed(r) \/ PresentAtOnce(r) \/ WaitFails(r) \/ Refuse(r) \/ Lose(r)
      BY <2>2 DEF Client, Server, Aside
    <3>2. {"submitted", "failed", "sent", "refused"}
              \subseteq (Open \cup Ended) \ {"verifying", "served"}
      BY DEF Open, Ended
    <3>3. CASE ~(Aside(r) \/ Serve(r) \/ CheckChallenge(r))
      <4>1. Advance(r, "submitted") \/ Advance(r, "failed") \/ Advance(r, "sent")
            \/ Advance(r, "refused")
        BY <3>1, <3>3, Advances
      <4> QED
        BY <1>1, <3>2, <4>1
    <3> QED
      BY <1>2, <1>3, <1>4, <1>6, <3>3
  <2> QED
    BY <1>6, <2>1, <2>2 DEF Next
<1> QED
  BY <1>5, <1>6 DEF vars

(* A call is served only after a transaction succeeded that credited what  *)
(* its challenge asks, for any number of calls over any requests, though   *)
(* transactions and challenges are shown again, to the same route or to    *)
(* others; in its currency where metadata is legible or each call pays for *)
(* itself; and for the route's request where the server expects it.        *)
THEOREM NothingForFree == DeployedSpec => []ServedIsPaid
<1> DEFINE Inv ==
      /\ IInv
      /\ "own" \in premises => \A r \in Calls : Crafted(r)
      /\ "legible" \in premises => LegiblePays
      /\ "expecting" \in premises => Expected
<1>1. Init => Inv
  BY InitIInv DEF Init, Crafted, HasTx, LegiblePays, Expected, Idle, Paying
<1>2. Inv /\ [DeployedNext]_DeployedVars => Inv'
  <2> SUFFICES ASSUME Inv, [DeployedNext]_DeployedVars PROVE Inv'
    OBVIOUS
  <2>1. /\ premises' = premises /\ [Next]_vars
        /\ "own" \in premises => [Next /\ Own]_vars
        /\ "legible" \in premises => [Next /\ Legible]_vars
        /\ "expecting" \in premises => [Next /\ Expecting]_vars
    BY DEF DeployedNext, DeployedVars, Observed
  <2>2. IInv'
    BY <2>1, NextIInv
  <2>3. "own" \in premises => \A r \in Calls : Crafted(r)'
    BY <2>1, NextCrafted
  <2>4. "legible" \in premises => LegiblePays'
    BY <2>1, NextLegible
  <2>5. "expecting" \in premises => Expected'
    BY <2>1, NextExpected
  <2> QED
    BY <2>1, <2>2, <2>3, <2>4, <2>5
<1>3. Inv => ServedIsPaid
  <2> SUFFICES ASSUME Inv, NEW r \in Calls, call[r].phase = "served"
               PROVE  /\ call[r].tx \in landed
                      /\ Credits(call[r].tx.payload, call[r].request)
                      /\ {"own", "legible"} \cap premises # {} =>
                             Pays(call[r].tx.payload, call[r].request)
                      /\ {"own", "expecting"} \cap premises # {} =>
                             call[r].request = call[r].route
    BY DEF ServedIsPaid
  <2>1. HasTx(r)
    BY OpenHasTx DEF IInv, TypeOK, CallState
  <2>2. call[r].request \in ChargeRequest
    BY <2>1, ChargeAssumption DEF HasTx, Paying
  <2>3. "own" \in premises =>
          /\ Pays(call[r].tx.payload, call[r].request)
          /\ call[r].request = call[r].route
    BY <2>1, <2>2, BuiltPays DEF Crafted
  <2> QED
    BY <2>3 DEF IInv, LegiblePays, Expected
<1> QED
  BY <1>1, <1>2, <1>3, PTL DEF DeployedSpec, DeployedInit

-----------------------------------------------------------------------------
(* One transfer for each call *)

(* A call whose transaction may still serve it, or has. *)
Live(r) == call[r].phase \in Open \cup {"served"}

OwnLive == \A r, q \in Calls :
    Live(r) /\ Live(q) /\ call[r].tx = call[q].tx => r = q

OwnInv == IInv /\ (\A r \in Calls : Crafted(r)) /\ NoTwins /\ OwnLive

LEMMA ActiveOrServed == ASSUME NEW r \in Calls, Live(r)
                        PROVE  Active(r) \/ call[r].phase = "served"
BY DEF Live, Active, Open

(* The transaction a call builds is no other live call's: one that was     *)
(* served has used up its sequence number, one that is active pays with    *)
(* another transfer.                                                       *)
LEMMA BuildsItsOwn ==
    ASSUME OwnInv, NEW r \in Calls, Build(r), NEW q \in Calls \ {r}, Live(q)
    PROVE  call'[r].tx # call[q].tx
<1>1. call[q] \in CallState /\ call[r] \in CallState
  BY DEF OwnInv, IInv, TypeOK, CallState
<1>2. HasTx(q)
  BY <1>1, OpenHasTx DEF Live
<1>3. PICK s \in Seconds : call'[r].tx =
        [sequence |-> NextSequence,
         payload |-> BuildTransfer(call[r].request), expiration |-> s]
  BY DEF Build, OwnInv, IInv, TypeOK
<1>4. CASE call[q].phase = "served"
  <2>1. call[q].tx.sequence < NextSequence
    BY <1>4 DEF OwnInv, IInv, UsedUp
  <2> QED
    BY <1>3, <2>1, SequenceType DEF OwnInv
<1>5. CASE Active(q)
  <2>1. Active(r)
    BY DEF Build, Active
  <2>2. BuildTransfer(call[r].request) # BuildTransfer(call[q].request)
    BY <1>5, <2>1 DEF OwnInv, NoTwins
  <2>3. call[q].tx.payload = BuildTransfer(call[q].request)
    BY <1>2 DEF OwnInv, Crafted
  <2> QED
    BY <1>3, <2>2, <2>3
<1> QED
  BY <1>4, <1>5, ActiveOrServed

LEMMA NextOwn == OwnInv /\ [Next /\ Own /\ NoTwins']_vars => OwnInv'
<1> SUFFICES ASSUME OwnInv, [Next /\ Own /\ NoTwins']_vars PROVE OwnInv'
  OBVIOUS
<1>0. \A r \in Calls : Crafted(r)'
  BY NextCrafted DEF OwnInv
<1>1. IInv' /\ NoTwins'
  <2>1. CASE UNCHANGED vars
    BY <2>1, NextIInv DEF OwnInv, vars, NoTwins, Active
  <2> QED
    BY <2>1, NextIInv DEF OwnInv
<1>2. call \in [Calls -> CallState]
  BY DEF OwnInv, IInv, TypeOK, CallState
<1>3. OwnLive'
  <2>1. CASE \E r \in Calls, phase \in Open \cup Ended : Advance(r, phase)
    <3>1. PICK r \in Calls, phase \in Open \cup Ended : Advance(r, phase)
      BY <2>1
    <3>2. /\ call'[r].tx = call[r].tx
          /\ \A q \in Calls \ {r} : call'[q] = call[q]
      BY <1>2, <3>1, AdvanceMoves
    <3>3. Live(r)
      BY <3>1 DEF Advance, Live
    <3> QED
      BY <3>2, <3>3 DEF OwnInv, OwnLive, Live
  <2>2. ASSUME NEW r \in Calls, Build(r) PROVE OwnLive'
    <3>1. \A q \in Calls \ {r} : call'[q] = call[q]
      BY <2>2 DEF Build
    <3> QED
      BY <2>2, <3>1, BuildsItsOwn DEF OwnInv, OwnLive, Live
  <2>3. ASSUME NEW r \in Calls, Aside(r), ~Build(r), Own PROVE OwnLive'
    <3>1. /\ \A q \in Calls \ {r} : call'[q] = call[q]
          /\ HasTx(r) => call'[r].tx = call[r].tx
          /\ HasTx(r)' => HasTx(r)
      BY <2>3, OwnShowsNothing, AsideMoves DEF OwnInv
    <3>2. Live(r)' => HasTx(r)'
      <4>1. call' \in [Calls -> CallState]
        BY <2>3, AsideMoves DEF OwnInv
      <4> QED
        BY <4>1 DEF Live, HasTx, Open, CallState, Challenged, Idle, Unpaid
    <3>3. Live(r)' /\ HasTx(r) => Live(r)
      BY <1>2, <2>3 DEF Live, HasTx, Aside, Challenge, BuildFails, Expire,
                        ShowAgain, Open, Paying, Challenged, Idle, Unpaid
    <3> QED
      BY <3>1, <3>2, <3>3 DEF OwnInv, OwnLive, Live
  <2>5. CASE \E t \in mempool \cup landed \cup aborted : Chain(t)
    <3>1. call' = call
      BY <2>5 DEF Chain, Execute, Abort, Discard, See
    <3> QED
      BY <3>1 DEF OwnInv, OwnLive, Live
  <2>6. CASE UNCHANGED vars
    BY <2>6 DEF vars, OwnInv, OwnLive, Live
  <2>7. ASSUME NEW r \in Calls, Serve(r) PROVE OwnLive'
    BY <2>1, <2>7, Advances DEF Ended
  <2> QED
    BY <2>1, <2>2, <2>3, <2>5, <2>6, <2>7, Steps DEF Step
<1> QED
  BY <1>0, <1>1, <1>3 DEF OwnInv

(* Calls that do not overlap with a twin are paid for by transfers of      *)
(* their own, though any of them may fail half way and leave a transaction *)
(* behind.                                                                 *)
THEOREM EachPaysItsOwn == DeployedSpec => []OwnTransfer
<1> DEFINE Inv == {"own", "no twins"} \subseteq premises => OwnInv
<1>1. Init => OwnInv
  BY InitIInv DEF Init, OwnInv, Crafted, HasTx, Paying, NoTwins, OwnLive, Active,
                  Live, Open, Idle
<1>2. OwnInv => OneTransferEach
  BY DEF OwnInv, OwnLive, OneTransferEach, Live
<1>3. Inv /\ [DeployedNext]_DeployedVars => Inv'
  <2>1. [DeployedNext]_DeployedVars =>
          /\ premises' = premises
          /\ {"own", "no twins"} \subseteq premises => [Next /\ Own /\ NoTwins']_vars
    BY DEF DeployedNext, DeployedVars, Observed
  <2>2. CASE {"own", "no twins"} \subseteq premises
    BY <2>1, <2>2, NextOwn
  <2>3. CASE ~({"own", "no twins"} \subseteq premises)
    BY <2>1, <2>3
  <2> QED
    BY <2>2, <2>3
<1>4. Init => Inv
  BY <1>1
<1>5. Inv => OwnTransfer
  BY <1>2 DEF OwnTransfer
<1> QED
  BY <1>3, <1>4, <1>5, PTL DEF DeployedSpec, DeployedInit

-----------------------------------------------------------------------------
(* No payment is wasted *)

Timely == Own /\ Lasting /\ Patient /\ Waiting /\ Current /\ Connected

(* Where nothing is late, challenges are fresh, what is presented has      *)
(* landed, and every transfer belongs to a call.                           *)
PromptInv ==
    /\ IInv
    /\ \A r \in Calls : Crafted(r)
    /\ \A r \in Calls : Active(r) => call[r].fresh
    /\ \A r \in Calls : call[r].phase \in {"sent", "verifying"} =>
           call[r].tx \in landed
    /\ EachTransferCounts

(* What has landed and is presented for the request it was built for is    *)
(* recognised as soon as the node knows of it.                             *)
LEMMA PresentedIsRecognised ==
    ASSUME IInv, NEW r \in Calls, Crafted(r), HasTx(r),
           call[r].tx \in landed, call[r].tx \in seen
    PROVE  Recognised(call[r].tx, call[r].request)
<1> DEFINE p == call[r].tx.payload
           t == [payload |-> p, events |-> {}, legible |-> TRUE]
<1>1. call[r].request \in ChargeRequest
  BY ChargeAssumption DEF HasTx, Paying
<1>2. p \in Payload /\ p.function \in Transfers /\ Pays(p, call[r].request)
  BY <1>1, BuiltPays DEF Crafted, Built, Transfers
<1>3. t \in Answers(p)
  BY DEF Answers, Reported
<1>4. Verified(t, call[r].request)
  BY <1>1, <1>2, <1>3, VerifiedIsPaid
<1>5. RecognisedAs(call[r].tx, TRUE, call[r].request)
  BY <1>3, <1>4 DEF RecognisedAs
<1> QED
  BY <1>5 DEF Recognised

(* A call that goes on keeps its transfer. *)
LEMMA KeepsPaid ==
    ASSUME PromptInv, NEW r \in Calls,
           NEW phase \in {"submitted", "sent", "verifying", "served"},
           Advance(r, phase),
           phase \in {"sent", "verifying"} => call[r].tx \in landed
    PROVE  /\ \A q \in Calls : Active(q)' => call'[q].fresh
           /\ \A q \in Calls : call'[q].phase \in {"sent", "verifying"} =>
                  call'[q].tx \in landed'
           /\ EachTransferCounts'
<1>1. call \in [Calls -> CallState] /\ phase \in Open \cup Ended
  BY DEF PromptInv, IInv, TypeOK, CallState, Open, Ended
<1>2. /\ call'[r].phase = phase
      /\ call'[r].fresh = call[r].fresh
      /\ call'[r].tx = call[r].tx
      /\ \A q \in Calls \ {r} : call'[q] = call[q]
  BY <1>1, AdvanceMoves
<1>3. Active(r)
  BY DEF Advance, Open, Active
<1>4. landed' = landed /\ mempool' \subseteq mempool \cup {call[r].tx}
  BY DEF Advance
<1>5. EachTransferCounts'
  <2> SUFFICES ASSUME NEW t \in mempool' \cup landed'
               PROVE  \E q \in Calls :
                   /\ call'[q].phase \in {"submitted", "sent", "verifying", "served"}
                   /\ call'[q].tx = t
    BY DEF EachTransferCounts
  <2>1. CASE t = call[r].tx
    BY <1>2, <2>1
  <2>2. CASE t # call[r].tx
    <3>1. PICK q \in Calls :
            /\ call[q].phase \in {"submitted", "sent", "verifying", "served"}
            /\ call[q].tx = t
      BY <1>4, <2>2 DEF PromptInv, EachTransferCounts
    <3>2. q # r
      BY <2>2, <3>1
    <3> QED
      BY <1>2, <3>1, <3>2
  <2> QED
    BY <2>1, <2>2
<1> QED
  BY <1>2, <1>3, <1>4, <1>5 DEF PromptInv, Active

(* A call that ends without being served has no transfer in the pool or on *)
(* chain.                                                                  *)
LEMMA LosesNothing ==
    ASSUME PromptInv, NEW r \in Calls, NEW phase \in {"refused", "failed"},
           Advance(r, phase), mempool' = mempool,
           call[r].phase = "built" \/ call[r].tx \notin mempool \cup landed
    PROVE  /\ \A q \in Calls : Active(q)' => call'[q].fresh
           /\ \A q \in Calls : call'[q].phase \in {"sent", "verifying"} =>
                  call'[q].tx \in landed'
           /\ EachTransferCounts'
<1>1. call \in [Calls -> CallState] /\ phase \in Open \cup Ended
  BY DEF PromptInv, IInv, TypeOK, CallState, Open, Ended
<1>2. /\ call'[r].phase = phase
      /\ \A q \in Calls \ {r} : call'[q] = call[q]
  BY <1>1, AdvanceMoves
<1>3. landed' = landed /\ mempool' = mempool
  BY DEF Advance
<1>4. EachTransferCounts'
  <2> SUFFICES ASSUME NEW t \in mempool \cup landed
               PROVE  \E q \in Calls :
                   /\ call'[q].phase \in {"submitted", "sent", "verifying", "served"}
                   /\ call'[q].tx = t
    BY <1>3 DEF EachTransferCounts
  <2>1. PICK q \in Calls :
          /\ call[q].phase \in {"submitted", "sent", "verifying", "served"}
          /\ call[q].tx = t
    BY DEF PromptInv, EachTransferCounts
  <2>2. q # r
    BY <2>1
  <2> QED
    BY <1>2, <2>1, <2>2
<1> QED
  BY <1>2, <1>3, <1>4 DEF PromptInv, Active

(* The other steps leave the calls with a transfer as they are. *)
LEMMA BeforePaying ==
    ASSUME PromptInv, Lasting, Own, NEW r \in Calls, Aside(r)
    PROVE  /\ \A q \in Calls : Active(q)' => call'[q].fresh
           /\ \A q \in Calls : call'[q].phase \in {"sent", "verifying"} =>
                  call'[q].tx \in landed'
           /\ EachTransferCounts'
<1>1. call \in [Calls -> CallState]
  BY DEF PromptInv, IInv, TypeOK, CallState
<1>2. UNCHANGED <<mempool, landed>> /\ ~ShowAgain(r)
  BY AsideMoves, OwnShowsNothing DEF PromptInv
<1>3. /\ \A q \in Calls \ {r} : call'[q] = call[q]
      /\ call[r].phase \notin {"submitted", "sent", "verifying", "served"}
      /\ call'[r].phase \notin {"submitted", "sent", "verifying", "served"}
      /\ Active(r)' => call'[r].fresh
  <2>1. CASE Challenge(r)
    <3>1. PICK c \in Requests : call' = [call EXCEPT ![r] =
               [phase |-> "challenged", request |-> c, fresh |-> TRUE]]
      BY <2>1 DEF Challenge
    <3> QED
      BY <1>1, <2>1, <3>1 DEF Challenge, Active
  <2>2. CASE Build(r)
    <3>1. PICK s \in Seconds : call' = [call EXCEPT ![r] =
               [phase |-> "built", request |-> call[r].request,
                route |-> call[r].request, fresh |-> call[r].fresh,
                tx |-> [sequence |-> NextSequence,
                        payload |-> BuildTransfer(call[r].request),
                        expiration |-> s]]]
      BY <2>2 DEF Build
    <3>2. call'[r].phase = "built" /\ call'[r].fresh = call[r].fresh
      BY <1>1, <3>1
    <3>3. call[r].phase = "challenged" /\ call[r].fresh
      BY <2>2 DEF Build, PromptInv, Active
    <3> QED
      BY <3>1, <3>2, <3>3
  <2>3. CASE BuildFails(r)
    BY <1>1, <2>3 DEF BuildFails, Active, Unpaid
  <2>4. CASE Expire(r)
    <3>1. call' = [call EXCEPT ![r] = [call[r] EXCEPT !.fresh = FALSE]]
      BY <2>4 DEF Expire
    <3>2. call[r] \in Challenged \cup Paying
      BY <1>1, <2>4 DEF Expire, CallState, Idle, Unpaid
    <3>3. call'[r].phase = call[r].phase /\ call'[r].fresh = FALSE
      BY <1>1, <3>1, <3>2 DEF Challenged, Paying
    <3>4. Active(r) /\ Active(r)' /\ call[r].fresh
      BY <2>4, <3>3 DEF Expire, Active
    <3> QED
      BY <3>3, <3>4 DEF Lasting
  <2> QED
    BY <1>2, <2>1, <2>2, <2>3, <2>4 DEF Aside
<1>4. EachTransferCounts'
  <2> SUFFICES ASSUME NEW t \in mempool \cup landed
               PROVE  \E q \in Calls :
                   /\ call'[q].phase \in {"submitted", "sent", "verifying", "served"}
                   /\ call'[q].tx = t
    BY <1>2 DEF EachTransferCounts
  <2>1. PICK q \in Calls :
          /\ call[q].phase \in {"submitted", "sent", "verifying", "served"}
          /\ call[q].tx = t
    BY DEF PromptInv, EachTransferCounts
  <2> QED
    BY <1>3, <2>1
<1> QED
  BY <1>2, <1>3, <1>4 DEF PromptInv, Active

LEMMA NextPrompt == PromptInv /\ [Next /\ Timely]_vars => PromptInv'
<1> SUFFICES ASSUME PromptInv, [Next /\ Timely]_vars PROVE PromptInv'
  OBVIOUS
<1>1. IInv' /\ (\A r \in Calls : Crafted(r)')
  BY NextIInv, NextCrafted DEF PromptInv, Timely
<1>2. CASE UNCHANGED vars
  BY <1>1, <1>2 DEF vars, PromptInv, Active, EachTransferCounts
<1>3. CASE Next /\ Timely
  <2> USE <1>3
  <2>1. ASSUME NEW r \in Calls, Aside(r)
        PROVE  PromptInv'
    BY <1>1, <2>1, BeforePaying DEF Timely, PromptInv
  <2>2. ASSUME NEW r \in Calls,
               Submit(r) \/ Confirmed(r) \/ PresentAtOnce(r) \/ Serve(r)
        PROVE  PromptInv'
    <3>1. CASE Submit(r)
      BY <1>1, <3>1, Advances, KeepsPaid DEF PromptInv
    <3>2. CASE Confirmed(r)
      <4>1. call[r].tx \in landed
        BY <3>2 DEF Confirmed
      <4> QED
        BY <1>1, <3>2, <4>1, Advances, KeepsPaid DEF PromptInv
    <3>3. CASE PresentAtOnce(r)
      <4>1. call[r].phase = "submitted" /\ call'[r].phase = "sent"
        BY <3>3 DEF PresentAtOnce, Goto, PromptInv, IInv, TypeOK,
                    Challenged, Paying, Idle, Unpaid
      <4>2. call[r].tx \in landed
        BY <4>1 DEF Timely, Waiting, Moves
      <4> QED
        BY <1>1, <3>3, <4>2, Advances, KeepsPaid DEF PromptInv
    <3>4. CASE Serve(r)
      BY <1>1, <3>4, Advances, KeepsPaid DEF PromptInv
    <3> QED
      BY <2>2, <3>1, <3>2, <3>3, <3>4
  <2>3. ASSUME NEW r \in Calls, CheckChallenge(r)
        PROVE  PromptInv'
    <3>1. call[r].phase = "sent" /\ call[r].fresh
      BY <2>3 DEF CheckChallenge, PromptInv, Active
    <3>2. call[r].request = call[r].route
      BY <3>1, OpenHasTx DEF PromptInv, IInv, TypeOK, CallState, Crafted, Open
    <3>3. Advance(r, "verifying") /\ call[r].tx \in landed
      BY <2>3, <3>1, <3>2 DEF CheckChallenge, Advance, Open, PromptInv, chain
    <3> QED
      BY <1>1, <3>3, KeepsPaid DEF PromptInv
  <2>4. ASSUME NEW r \in Calls,
               SubmitFails(r) \/ WaitFails(r) \/ Refuse(r) \/ Lose(r)
        PROVE  PromptInv'
    <3>1. \E phase \in {"refused", "failed"} : Advance(r, phase)
      BY <2>4, Advances
    <3>2. PICK phase \in {"refused", "failed"} : Advance(r, phase)
      BY <3>1
    <3>3. mempool' = mempool
      BY <2>4 DEF SubmitFails, WaitFails, Refuse, Lose, chain
    <3>4. call'[r].phase = phase /\ HasTx(r)
      BY <3>2, AdvanceMoves
         DEF PromptInv, IInv, TypeOK, CallState, Open, Ended
    <3>5. CASE SubmitFails(r)
      BY <1>1, <3>2, <3>3, <3>5, LosesNothing DEF SubmitFails, PromptInv
    <3>6. CASE WaitFails(r)
      <4>1. call[r].phase = "submitted" /\ call'[r].phase = "failed"
        BY <3>4, <3>6, Advances, AdvanceMoves
           DEF WaitFails, PromptInv, IInv, TypeOK, CallState, Open, Ended
      <4>2. call[r].tx \notin mempool \cup landed
        BY <4>1 DEF Timely, Patient, Moves
      <4> QED
        BY <1>1, <3>2, <3>3, <4>2, LosesNothing DEF PromptInv
    <3>7. CASE Refuse(r)
      <4>1. call[r].phase = "verifying" /\ call'[r].phase = "refused"
        BY <3>4, <3>7, Advances, AdvanceMoves
           DEF Refuse, PromptInv, IInv, TypeOK, CallState, Open, Ended
      <4>2. /\ ~Recognised(call[r].tx, call[r].request)
            /\ call[r].tx \in landed => call[r].tx \in seen
        BY <4>1 DEF Timely, Current, Moves
      <4>3. call[r].tx \in landed
        BY <4>1 DEF PromptInv
      <4> QED
        BY <3>4, <4>2, <4>3, PresentedIsRecognised DEF PromptInv
    <3>8. CASE Lose(r)
      <4>1. call[r].phase \in {"sent", "verifying"} /\ call'[r].phase = "failed"
        BY <3>4, <3>8, Advances, AdvanceMoves
           DEF Lose, PromptInv, IInv, TypeOK, CallState, Open, Ended
      <4> QED
        BY <4>1 DEF Timely, Connected
    <3> QED
      BY <2>4, <3>5, <3>6, <3>7, <3>8
  <2>5. ASSUME NEW t \in mempool \cup landed \cup aborted, Chain(t)
        PROVE  PromptInv'
    <3>1. /\ call' = call
          /\ landed \subseteq landed'
          /\ mempool' \cup landed' \subseteq mempool \cup landed
      BY <2>5 DEF Chain, Execute, Abort, Discard, See, Drop, chain
    <3> QED
      BY <1>1, <3>1 DEF PromptInv, Active, EachTransferCounts
  <2> QED
    BY <2>1, <2>2, <2>3, <2>4, <2>5 DEF Next, Client, Server, Aside
<1> QED
  BY <1>2, <1>3

(* Where nothing is late, no transfer is ever made in vain, though the     *)
(* calls race for the account's sequence numbers.                          *)
THEOREM NothingIsWasted == DeployedSpec => []PaidIsServed
<1> DEFINE Inv == Prompt \subseteq premises => PromptInv
<1>1. Init => PromptInv
  <2> SUFFICES ASSUME Init PROVE PromptInv
    OBVIOUS
  <2>1. \A r \in Calls : call[r].phase = "idle"
    BY DEF Init, Idle
  <2> QED
    BY <2>1, InitIInv DEF Init, PromptInv, Crafted, HasTx, Idle, Paying, Active,
                          EachTransferCounts
<1>2. PromptInv => EachTransferCounts
  BY DEF PromptInv
<1>3. Inv /\ [DeployedNext]_DeployedVars => Inv'
  <2>1. [DeployedNext]_DeployedVars =>
          /\ premises' = premises
          /\ Prompt \subseteq premises => [Next /\ Timely]_vars
    BY DEF DeployedNext, DeployedVars, Observed, Prompt, Timely
  <2>2. CASE Prompt \subseteq premises
    BY <2>1, <2>2, NextPrompt
  <2>3. CASE ~(Prompt \subseteq premises)
    BY <2>1, <2>3
  <2> QED
    BY <2>2, <2>3
<1>4. Init => Inv
  BY <1>1
<1>5. Inv => PaidIsServed
  BY <1>2 DEF PaidIsServed
<1> QED
  BY <1>3, <1>4, <1>5, PTL DEF DeployedSpec, DeployedInit

-----------------------------------------------------------------------------
(* ChargeMethod alone *)

VARIABLES request, tx, verdict

Method == INSTANCE ChargeMethod

(* ChargeMethod has the operators of TransferCheck. *)
LEMMA MethodOperators ==
    /\ Method!ChargeRequest = ChargeRequest /\ Method!Payload = Payload
    /\ Method!Transfers = Transfers
    /\ \A p : Method!Answers(p) = Answers(p)
    /\ \A t, r : Method!Verified(t, r) <=> Verified(t, r)
    /\ \A p, r : Method!Credits(p, r) <=> Credits(p, r)
    /\ \A p, r : Method!Pays(p, r) <=> Pays(p, r)
    /\ \A t, r : Method!Compared(t, r) <=> Compared(t, r)
    /\ \A r : Method!BuildTransfer(r) = BuildTransfer(r)
BY DEF IsNativeCurrency, BuildTransfer, Moved, Reported, Answers,
       SameAddress, IsNativeMove, SameMetadata, CurrencyOK,
       EventMatches, PayloadMatches, Verified, Credits, Pays,
       Compared, Currencies, Address, ChargeRequest, FungibleTransfer,
       NativeTransfer, TypedTransfers, Transfers, Other, Payload,
       Method!IsNativeCurrency, Method!BuildTransfer, Method!Moved,
       Method!Reported, Method!Answers, Method!SameAddress,
       Method!IsNativeMove, Method!SameMetadata, Method!CurrencyOK,
       Method!EventMatches, Method!PayloadMatches, Method!Verified,
       Method!Credits, Method!Pays, Method!Compared,
       Method!Currencies, Method!Address, Method!ChargeRequest,
       Method!FungibleTransfer, Method!NativeTransfer,
       Method!TypedTransfers, Method!Transfers, Method!Other,
       Method!Payload

(* The verdict is the one the operators give. *)
MInv ==
    /\ request \in ChargeRequest
    /\ tx.payload \in Payload /\ tx \in Answers(tx.payload)
    /\ verdict \in Method!Verdicts
    /\ verdict # "none" => (verdict = "accepted" <=> Verified(tx, request))

LEMMA MethodInvariance == Method!Spec => []MInv
<1>1. Method!Init => MInv
  BY MethodOperators DEF Method!Init, MInv, Method!Verdicts, Answers
<1>2. MInv /\ [Method!Next]_(Method!vars) => MInv'
  <2> SUFFICES ASSUME MInv, [Method!Next]_(Method!vars)
               PROVE  MInv'
    OBVIOUS
  <2>1. CASE Method!Verify
    <3>1. request' = request /\ tx' = tx
      BY <2>1 DEF Method!Verify
    <3>2. verdict' = IF Verified(tx, request) THEN "accepted" ELSE "refused"
      BY <2>1, MethodOperators DEF Method!Verify
    <3> QED
      BY <3>1, <3>2 DEF MInv, Method!Verdicts
  <2>2. CASE UNCHANGED Method!vars
    BY <2>2 DEF Method!vars, MInv
  <2> QED
    BY <2>1, <2>2 DEF Method!Next
<1> QED
  BY <1>1, <1>2, PTL DEF Method!Spec

(* Whatever transaction is presented, of a known transfer function or of   *)
(* any other, ChargeMethod accepts it only if it credits what is asked;    *)
(* exactly if it pays the request where its currency is compared; and      *)
(* always if it is a known transfer that pays: for any addresses,          *)
(* spellings, amounts and reported events.                                 *)
THEOREM AcceptedMeansPaid == Method!Spec => []Method!AcceptedIsPaid
<1>1. MInv => Method!AcceptedIsPaid
  <2> SUFFICES ASSUME MInv, verdict # "none"
               PROVE  /\ verdict = "accepted" => Credits(tx.payload, request)
                      /\ Compared(tx, request) =>
                            (verdict = "accepted" <=> Pays(tx.payload, request))
                      /\ Pays(tx.payload, request) /\ tx.payload.function \in Transfers
                            => verdict = "accepted"
    BY MethodOperators DEF Method!AcceptedIsPaid
  <2> QED
    BY VerifiedIsPaid DEF MInv
<1> QED
  BY <1>1, MethodInvariance, PTL

(* What MovementProvider builds for a request, ChargeMethod recognises.    *)
THEOREM BuiltTransfersAreAccepted == Method!Spec => []Method!BuiltIsAccepted
<1>1. MInv => Method!BuiltIsAccepted
  <2> SUFFICES ASSUME MInv, tx.payload = BuildTransfer(request)
               PROVE  verdict # "refused"
    BY MethodOperators DEF Method!BuiltIsAccepted
  <2>1. Verified(tx, request)
    BY BuiltPays, BuiltIsCompared, VerifiedIsPaid DEF MInv
  <2> QED
    BY <2>1 DEF MInv, Method!Verdicts
<1> QED
  BY <1>1, MethodInvariance, PTL

-----------------------------------------------------------------------------
(* Challenges *)

(* Induction over numbers, for a set of them. *)
LEMMA Induct ==
    ASSUME NEW T, \A n \in Nat : (\A m \in Nat : m < n => m \in T) => n \in T
    PROVE  \A n \in Nat : n \in T
<1> SUFFICES ASSUME Nat \ T # {} PROVE FALSE
  OBVIOUS
<1>1. PICK n \in Nat \ T : \A m \in Nat \ T : ~(<<m, n>> \in OpToRel(<, Nat))
  <2>1. Nat \ T \subseteq Nat
    OBVIOUS
  <2> QED
    BY <2>1, NatLessThanWellFounded, WFMin
<1>2. \A m \in Nat \ T : ~(m < n)
  BY <1>1 DEF OpToRel
<1> QED
  BY <1>2

(* And over sequences, of their lengths. *)
LEMMA SeqInduct ==
    ASSUME NEW C, NEW T, << >> \in T,
           \A t \in Seq(C), c \in C : t \in T => Append(t, c) \in T
    PROVE  \A t \in Seq(C) : t \in T
<1> DEFINE U == {n \in Nat : \A t \in Seq(C) : Len(t) = n => t \in T}
<1>1. ASSUME NEW n \in Nat, \A m \in Nat : m < n => m \in U,
             NEW t \in Seq(C), Len(t) = n
      PROVE  t \in T
  <2>1. CASE t = << >>
    BY <2>1
  <2>2. CASE t # << >>
    <3>1. PICK s \in Seq(C), c \in C : t = Append(s, c)
      BY <2>2, SequenceEmptyOrAppend
    <3>2. Len(s) \in Nat /\ Len(s) < n
      BY <1>1, <3>1, AppendProperties, LenProperties
    <3>3. s \in T
      BY <1>1, <3>2
    <3> QED
      BY <3>1, <3>3
  <2> QED
    BY <2>1, <2>2
<1>2. \A n \in Nat : (\A m \in Nat : m < n => m \in U) => n \in U
  BY <1>1
<1>3. \A n \in Nat : n \in U
  <2> HIDE DEF U
  <2> QED
    BY <1>2, Induct
<1> QED
  BY <1>3, LenProperties

-----------------------------------------------------------------------------
(* Texts, symbol by symbol. *)
Spells(code, t, f, n) ==
    f = [k \in 0..n |-> IF k = 0 THEN << >> ELSE Wire!Onto(f[k - 1], t[k], code)]

SpellsOn(code, t, f, n) == f[0] = << >> /\ \A k \in 1..n : f[k] = Wire!Onto(f[k - 1], t[k], code)

LEMMA SpellsAt ==
    ASSUME NEW code, NEW t, NEW n \in Nat, NEW f, Spells(code, t, f, n)
    PROVE  SpellsOn(code, t, f, n)
<1> DEFINE g == [k \in 0..n |-> IF k = 0 THEN << >> ELSE Wire!Onto(f[k - 1], t[k], code)]
<1>1. g[0] = << >> /\ \A k \in 1..n : g[k] = Wire!Onto(f[k - 1], t[k], code)
  OBVIOUS
<1>2. f = g
  BY DEF Spells
<1> HIDE DEF g
<1> QED
  BY <1>1, <1>2 DEF SpellsOn

(* There are such texts.                                                   *)
LEMMA SpellsExist ==
    ASSUME NEW code, NEW t
    PROVE  \A n \in Nat : \E f : Spells(code, t, f, n)
<1> DEFINE T == {n \in Nat : \E f : Spells(code, t, f, n)}
<1>1. ASSUME NEW n \in Nat, \A m \in Nat : m < n => m \in T
      PROVE  \E f : Spells(code, t, f, n)
  <2>1. CASE n = 0
    <3> DEFINE g == [k \in 0..n |-> << >>]
    <3>1. g = [k \in 0..n |-> IF k = 0 THEN << >> ELSE Wire!Onto(g[k - 1], t[k], code)]
      BY <2>1
    <3> QED
      BY <3>1 DEF Spells
  <2>2. CASE n # 0
    <3>1. PICK f : Spells(code, t, f, n - 1)
      BY <1>1, <2>2
    <3>2. f[0] = << >> /\ \A k \in 1..(n - 1) : f[k] = Wire!Onto(f[k - 1], t[k], code)
      <4>1. n - 1 \in Nat
        BY <2>2
      <4>2. SpellsOn(code, t, f, n - 1)
        BY <3>1, <4>1, SpellsAt
      <4> QED
        BY <4>2 DEF SpellsOn
    <3> DEFINE g == [k \in 0..n |-> IF k = n THEN Wire!Onto(f[n - 1], t[n], code) ELSE f[k]]
    <3>3. ASSUME NEW k \in 0..n
          PROVE  g[k] = IF k = 0 THEN << >> ELSE Wire!Onto(g[k - 1], t[k], code)
      <4>1. CASE k = 0
        BY <2>2, <3>2, <4>1
      <4>2. CASE k # 0
        <5>1. g[k - 1] = f[k - 1]
          BY <4>2
        <5>2. g[k] = Wire!Onto(f[k - 1], t[k], code)
          BY <3>2, <4>2
        <5> HIDE DEF g
        <5> QED
          BY <4>2, <5>1, <5>2
      <4> QED
        BY <4>1, <4>2
    <3>4. g = [k \in 0..n |-> g[k]]
      OBVIOUS
    <3> HIDE DEF g
    <3> QED
      BY <3>3, <3>4 DEF Spells
  <2> QED
    BY <2>1, <2>2
<1>2. \A n \in Nat : (\A m \in Nat : m < n => m \in T) => n \in T
  BY <1>1
<1> HIDE DEF T
<1>3. \A n \in Nat : n \in T
  BY <1>2, Induct
<1> QED
  BY <1>3 DEF T

LEMMA WrittenBy ==
    ASSUME NEW C, NEW t \in Seq(C), NEW code
    PROVE  \E f : Spells(code, t, f, Len(t)) /\ Wire!Written(t, code) = f[Len(t)]
<1>1. Len(t) \in Nat
  BY LenProperties
<1>2. \E f : Spells(code, t, f, Len(t))
  BY <1>1, SpellsExist
<1> QED
  BY <1>2 DEF Spells, Wire!Written

LEMMA SpellsOnce ==
    ASSUME NEW C, NEW t \in Seq(C), NEW c \in C, NEW code, NEW f, NEW g,
           Spells(code, t, f, Len(t)), Spells(code, Append(t, c), g, Len(t) + 1)
    PROVE  f[Len(t)] = g[Len(t)]
<1> DEFINE T == {k \in Nat : k <= Len(t) => f[k] = g[k]}
<1>1. /\ Len(t) \in Nat
      /\ \A k \in 1..Len(t) : Append(t, c)[k] = t[k]
  BY LenProperties, AppendProperties
<1>2. /\ f[0] = << >> /\ \A k \in 1..Len(t) : f[k] = Wire!Onto(f[k - 1], t[k], code)
      /\ g[0] = << >>
      /\ \A k \in 1..(Len(t) + 1) : g[k] = Wire!Onto(g[k - 1], Append(t, c)[k], code)
  <2>1. Len(t) \in Nat /\ Len(t) + 1 \in Nat
    BY <1>1
  <2>2. SpellsOn(code, t, f, Len(t)) /\ SpellsOn(code, Append(t, c), g, Len(t) + 1)
    BY <2>1, SpellsAt
  <2> QED
    BY <2>2 DEF SpellsOn
<1>3. ASSUME NEW k \in Nat, \A j \in Nat : j < k => j \in T, k <= Len(t)
      PROVE  f[k] = g[k]
  <2>1. CASE k = 0
    BY <1>2, <2>1
  <2>2. CASE k # 0
    <3>1. k \in 1..Len(t) /\ k \in 1..(Len(t) + 1) /\ f[k - 1] = g[k - 1]
      BY <1>1, <1>3, <2>2
    <3>2. Append(t, c)[k] = t[k]
      BY <1>1, <3>1
    <3> QED
      BY <1>2, <3>1, <3>2
  <2> QED
    BY <2>1, <2>2
<1>4. \A k \in Nat : (\A j \in Nat : j < k => j \in T) => k \in T
  BY <1>3
<1>5. Len(t) \in T
  <2> HIDE DEF T
  <2> QED
    BY <1>1, <1>4, Induct
<1> QED
  BY <1>5

LEMMA WrittenEmpty ==
    ASSUME NEW code
    PROVE  Wire!Written(<< >>, code) = << >>
<1>1. PICK f : Spells(code, << >>, f, Len(<< >>)) /\ Wire!Written(<< >>, code) = f[Len(<< >>)]
  <2>1. << >> \in Seq({})
    OBVIOUS
  <2> QED
    BY <2>1, WrittenBy
<1>2. Len(<< >>) = 0
  OBVIOUS
<1>3. f[0] = << >>
  <2>1. Spells(code, << >>, f, 0)
    BY <1>1, <1>2
  <2>2. SpellsOn(code, << >>, f, 0)
    BY <2>1, SpellsAt
  <2> QED
    BY <2>2 DEF SpellsOn
<1> QED
  BY <1>1, <1>2, <1>3

(* One more symbol adds what the code has for it.                          *)
LEMMA WrittenAppend ==
    ASSUME NEW C, NEW t \in Seq(C), NEW c \in C, NEW code
    PROVE  Wire!Written(Append(t, c), code) = Wire!Onto(Wire!Written(t, code), c, code)
<1> DEFINE u == Append(t, c)
<1>1. Len(t) \in Nat /\ u \in Seq(C) /\ Len(u) = Len(t) + 1 /\ u[Len(u)] = c
  BY LenProperties, AppendProperties
<1> HIDE DEF u
<1>2. PICK f : Spells(code, t, f, Len(t)) /\ Wire!Written(t, code) = f[Len(t)]
  BY WrittenBy
<1>3. PICK g : Spells(code, u, g, Len(u)) /\ Wire!Written(u, code) = g[Len(u)]
  BY <1>1, WrittenBy
<1>4. f[Len(t)] = g[Len(t)]
  BY <1>1, <1>2, <1>3, SpellsOnce DEF u
<1>5. g[Len(u)] = Wire!Onto(g[Len(u) - 1], u[Len(u)], code)
  <2>1. Len(u) \in Nat /\ Len(u) \in 1..Len(u)
    BY <1>1
  <2>2. SpellsOn(code, u, g, Len(u))
    BY <1>3, <2>1, SpellsAt
  <2> QED
    BY <2>1, <2>2 DEF SpellsOn
<1>6. Len(u) - 1 = Len(t)
  BY <1>1
<1> QED
  BY <1>1, <1>2, <1>3, <1>4, <1>5, <1>6 DEF u

-----------------------------------------------------------------------------
(* What was read, symbol by symbol. *)
Reads(r, t, f, n) ==
    f = [k \in 0..n |-> IF k = 0 THEN r ELSE Wire!Scanned(f[k - 1], t[k])]

ReadsOn(r, t, f, n) == f[0] = r /\ \A k \in 1..n : f[k] = Wire!Scanned(f[k - 1], t[k])

LEMMA ReadsAt ==
    ASSUME NEW r, NEW t, NEW n \in Nat, NEW f, Reads(r, t, f, n)
    PROVE  ReadsOn(r, t, f, n)
<1> DEFINE g == [k \in 0..n |-> IF k = 0 THEN r ELSE Wire!Scanned(f[k - 1], t[k])]
<1>1. g[0] = r /\ \A k \in 1..n : g[k] = Wire!Scanned(f[k - 1], t[k])
  OBVIOUS
<1>2. f = g
  BY DEF Reads
<1> HIDE DEF g
<1> QED
  BY <1>1, <1>2 DEF ReadsOn

LEMMA ReadsExist ==
    ASSUME NEW r, NEW t
    PROVE  \A n \in Nat : \E f : Reads(r, t, f, n)
<1> DEFINE T == {n \in Nat : \E f : Reads(r, t, f, n)}
<1>1. ASSUME NEW n \in Nat, \A m \in Nat : m < n => m \in T
      PROVE  \E f : Reads(r, t, f, n)
  <2>1. CASE n = 0
    <3> DEFINE g == [k \in 0..n |-> r]
    <3>1. g = [k \in 0..n |-> IF k = 0 THEN r ELSE Wire!Scanned(g[k - 1], t[k])]
      BY <2>1
    <3> QED
      BY <3>1 DEF Reads
  <2>2. CASE n # 0
    <3>1. PICK f : Reads(r, t, f, n - 1)
      BY <1>1, <2>2
    <3>2. f[0] = r /\ \A k \in 1..(n - 1) : f[k] = Wire!Scanned(f[k - 1], t[k])
      <4>1. n - 1 \in Nat
        BY <2>2
      <4>2. ReadsOn(r, t, f, n - 1)
        BY <3>1, <4>1, ReadsAt
      <4> QED
        BY <4>2 DEF ReadsOn
    <3> DEFINE g == [k \in 0..n |-> IF k = n THEN Wire!Scanned(f[n - 1], t[n]) ELSE f[k]]
    <3>3. ASSUME NEW k \in 0..n
          PROVE  g[k] = IF k = 0 THEN r ELSE Wire!Scanned(g[k - 1], t[k])
      <4>1. CASE k = 0
        BY <2>2, <3>2, <4>1
      <4>2. CASE k # 0
        <5>1. g[k - 1] = f[k - 1]
          BY <4>2
        <5>2. g[k] = Wire!Scanned(f[k - 1], t[k])
          BY <3>2, <4>2
        <5> HIDE DEF g
        <5> QED
          BY <4>2, <5>1, <5>2
      <4> QED
        BY <4>1, <4>2
    <3>4. g = [k \in 0..n |-> g[k]]
      OBVIOUS
    <3> HIDE DEF g
    <3> QED
      BY <3>3, <3>4 DEF Reads
  <2> QED
    BY <2>1, <2>2
<1>2. \A n \in Nat : (\A m \in Nat : m < n => m \in T) => n \in T
  BY <1>1
<1> HIDE DEF T
<1>3. \A n \in Nat : n \in T
  BY <1>2, Induct
<1> QED
  BY <1>3 DEF T

LEMMA ScannedBy ==
    ASSUME NEW C, NEW t \in Seq(C), NEW r
    PROVE  \E f : Reads(r, t, f, Len(t)) /\ Wire!ScannedOn(r, t) = f[Len(t)]
<1>1. Len(t) \in Nat
  BY LenProperties
<1>2. \E f : Reads(r, t, f, Len(t))
  BY <1>1, ReadsExist
<1> QED
  BY <1>2 DEF Reads, Wire!ScannedOn

LEMMA ReadsOnce ==
    ASSUME NEW C, NEW t \in Seq(C), NEW c \in C, NEW r, NEW f, NEW g,
           Reads(r, t, f, Len(t)), Reads(r, Append(t, c), g, Len(t) + 1)
    PROVE  f[Len(t)] = g[Len(t)]
<1> DEFINE T == {k \in Nat : k <= Len(t) => f[k] = g[k]}
<1>1. /\ Len(t) \in Nat
      /\ \A k \in 1..Len(t) : Append(t, c)[k] = t[k]
  BY LenProperties, AppendProperties
<1>2. /\ f[0] = r /\ \A k \in 1..Len(t) : f[k] = Wire!Scanned(f[k - 1], t[k])
      /\ g[0] = r
      /\ \A k \in 1..(Len(t) + 1) : g[k] = Wire!Scanned(g[k - 1], Append(t, c)[k])
  <2>1. Len(t) \in Nat /\ Len(t) + 1 \in Nat
    BY <1>1
  <2>2. ReadsOn(r, t, f, Len(t)) /\ ReadsOn(r, Append(t, c), g, Len(t) + 1)
    BY <2>1, ReadsAt
  <2> QED
    BY <2>2 DEF ReadsOn
<1>3. ASSUME NEW k \in Nat, \A j \in Nat : j < k => j \in T, k <= Len(t)
      PROVE  f[k] = g[k]
  <2>1. CASE k = 0
    BY <1>2, <2>1
  <2>2. CASE k # 0
    <3>1. k \in 1..Len(t) /\ k \in 1..(Len(t) + 1) /\ f[k - 1] = g[k - 1]
      BY <1>1, <1>3, <2>2
    <3>2. Append(t, c)[k] = t[k]
      BY <1>1, <3>1
    <3> QED
      BY <1>2, <3>1, <3>2
  <2> QED
    BY <2>1, <2>2
<1>4. \A k \in Nat : (\A j \in Nat : j < k => j \in T) => k \in T
  BY <1>3
<1>5. Len(t) \in T
  <2> HIDE DEF T
  <2> QED
    BY <1>1, <1>4, Induct
<1> QED
  BY <1>5

LEMMA ScannedEmpty ==
    ASSUME NEW r
    PROVE  Wire!ScannedOn(r, << >>) = r
<1>1. PICK f : Reads(r, << >>, f, Len(<< >>)) /\ Wire!ScannedOn(r, << >>) = f[Len(<< >>)]
  <2>1. << >> \in Seq({})
    OBVIOUS
  <2> QED
    BY <2>1, ScannedBy
<1>2. Len(<< >>) = 0
  OBVIOUS
<1>3. f[0] = r
  <2>1. Reads(r, << >>, f, 0)
    BY <1>1, <1>2
  <2>2. ReadsOn(r, << >>, f, 0)
    BY <2>1, ReadsAt
  <2> QED
    BY <2>2 DEF ReadsOn
<1> QED
  BY <1>1, <1>2, <1>3

(* One more symbol is one more step of the scanner.                        *)
LEMMA ScannedAppend ==
    ASSUME NEW C, NEW t \in Seq(C), NEW c \in C, NEW r
    PROVE  Wire!ScannedOn(r, Append(t, c)) = Wire!Scanned(Wire!ScannedOn(r, t), c)
<1> DEFINE u == Append(t, c)
<1>1. Len(t) \in Nat /\ u \in Seq(C) /\ Len(u) = Len(t) + 1 /\ u[Len(u)] = c
  BY LenProperties, AppendProperties
<1> HIDE DEF u
<1>2. PICK f : Reads(r, t, f, Len(t)) /\ Wire!ScannedOn(r, t) = f[Len(t)]
  BY ScannedBy
<1>3. PICK g : Reads(r, u, g, Len(u)) /\ Wire!ScannedOn(r, u) = g[Len(u)]
  BY <1>1, ScannedBy
<1>4. f[Len(t)] = g[Len(t)]
  BY <1>1, <1>2, <1>3, ReadsOnce DEF u
<1>5. g[Len(u)] = Wire!Scanned(g[Len(u) - 1], u[Len(u)])
  <2>1. Len(u) \in Nat /\ Len(u) \in 1..Len(u)
    BY <1>1
  <2>2. ReadsOn(r, u, g, Len(u))
    BY <1>3, <2>1, ReadsAt
  <2> QED
    BY <2>1, <2>2 DEF ReadsOn
<1>6. Len(u) - 1 = Len(t)
  BY <1>1
<1> QED
  BY <1>1, <1>2, <1>3, <1>4, <1>5, <1>6 DEF u

-----------------------------------------------------------------------------
(* Texts put together. *)
LEMMA Pieces ==
    ASSUME NEW C, NEW s \in Seq(C), NEW t \in Seq(C), NEW c \in C
    PROVE  /\ s \o t \in Seq(C) /\ <<c>> \in Seq(C)
           /\ Append(t, c) \in Seq(C)
           /\ s \o Append(t, c) = Append(s \o t, c)
           /\ Append(t, c) = t \o <<c>>
           /\ << >> \in Seq(C)
<1>1. s \o t \in Seq(C) /\ <<c>> \in Seq(C) /\ << >> \in Seq(C)
  BY ConcatProperties
<1>2. Append(s \o t, c) = (s \o t) \o <<c>> /\ Append(t, c) = t \o <<c>>
  BY <1>1, AppendIsConcat
<1>3. (s \o t) \o <<c>> = s \o (t \o <<c>>)
  BY <1>1, ConcatAssociative
<1> QED
  BY <1>1, <1>2, <1>3, AppendProperties

Glued(s, t) == s \o t

LEMMA GluedIs ==
    ASSUME NEW C, NEW s \in Seq(C), NEW t \in Seq(C), NEW u \in Seq(C)
    PROVE  Glued(Glued(s, t), u) = Glued(s, Glued(t, u))
BY ConcatAssociative DEF Glued

(* What is written for a symbol is a text. *)
Coded(code, C) == \A c \in DOMAIN code : code[c] \in Seq(C)

(* A text is written piece by piece, and scanned piece by piece.           *)
LEMMA WrittenConcat ==
    ASSUME NEW C, NEW code, NEW s \in Seq(C), NEW t \in Seq(C),
           Coded(code, C)
    PROVE  /\ Wire!Written(s, code) \in Seq(C)
           /\ Wire!Written(s \o t, code) = Wire!Written(s, code) \o Wire!Written(t, code)
<1> DEFINE Out(c) == IF c \in DOMAIN code THEN code[c] ELSE <<c>>
<1>1. ASSUME NEW c \in C PROVE Out(c) \in Seq(C)
  BY Pieces DEF Coded
<1>2. ASSUME NEW u, NEW c PROVE Wire!Onto(u, c, code) = u \o Out(c)
  BY DEF Wire!Onto
<1>3. /\ << >> \in Seq(C)
      /\ \A u \in Seq(C), c \in C : Append(u, c) \in Seq(C)
      /\ \A u \in Seq(C), v \in Seq(C) : u \o v \in Seq(C)
  BY EmptySeq, AppendProperties, ConcatProperties
<1> DEFINE T == {u \in Seq(C) : Wire!Written(u, code) \in Seq(C)}
           U == {u \in Seq(C) : Wire!Written(s \o u, code)
                                  = Wire!Written(s, code) \o Wire!Written(u, code)}
<1> HIDE DEF Out
<1>4. \A u \in Seq(C) : u \in T
  <2>1. << >> \in T
    BY <1>3, WrittenEmpty
  <2>2. ASSUME NEW u \in Seq(C), NEW c \in C, u \in T PROVE Append(u, c) \in T
    <3>1. Wire!Written(Append(u, c), code) = Wire!Written(u, code) \o Out(c)
      BY <1>2, WrittenAppend
    <3> QED
      BY <1>1, <1>3, <2>2, <3>1
  <2> HIDE DEF T
  <2> QED
    BY <2>1, <2>2, SeqInduct
<1>5. \A u \in Seq(C) : u \in U
  <2>1. << >> \in U
    BY <1>3, <1>4, WrittenEmpty, ConcatEmptySeq
  <2>2. ASSUME NEW u \in Seq(C), NEW c \in C, u \in U PROVE Append(u, c) \in U
    <3>1. s \o u \in Seq(C) /\ s \o Append(u, c) = Append(s \o u, c)
      BY Pieces
    <3>2. \A v \in Seq(C) : Wire!Written(Append(v, c), code) = Wire!Written(v, code) \o Out(c)
      BY <1>2, WrittenAppend
    <3>3. \A v \in Seq(C) : Wire!Written(v, code) \in Seq(C)
      BY <1>4
    <3>4. (Wire!Written(s, code) \o Wire!Written(u, code)) \o Out(c)
            = Wire!Written(s, code) \o (Wire!Written(u, code) \o Out(c))
      <4> DEFINE x == Wire!Written(s, code)
                 y == Wire!Written(u, code)
                 z == Out(c)
      <4>1. x \in Seq(C) /\ y \in Seq(C) /\ z \in Seq(C)
        BY <1>1, <3>3
      <4> HIDE DEF x, y, z
      <4>2. Glued(Glued(x, y), z) = Glued(x, Glued(y, z))
        BY <4>1, GluedIs
      <4> QED
        BY <4>2 DEF x, y, z, Glued
    <3>5. Wire!Written(s \o u, code) = Wire!Written(s, code) \o Wire!Written(u, code)
      BY <2>2
    <3>6. Wire!Written(Append(s \o u, c), code) = Wire!Written(s \o u, code) \o Out(c)
      BY <3>1, <3>2
    <3>7. Wire!Written(Append(u, c), code) = Wire!Written(u, code) \o Out(c)
      BY <3>2
    <3>8. Append(u, c) \in Seq(C)
      BY <1>3
    <3>9. Wire!Written(s \o Append(u, c), code)
            = Wire!Written(s, code) \o Wire!Written(Append(u, c), code)
      BY <3>1, <3>4, <3>5, <3>6, <3>7, Zenon
    <3> QED
      BY <3>8, <3>9
  <2> HIDE DEF U
  <2> QED
    BY <2>1, <2>2, SeqInduct
<1> QED
  BY <1>4, <1>5

LEMMA WrittenOne ==
    ASSUME NEW C, NEW c \in C, NEW code, Coded(code, C)
    PROVE  Wire!Written(<<c>>, code) = IF c \in DOMAIN code THEN code[c] ELSE <<c>>
<1>1. << >> \in Seq(C) /\ <<c>> = Append(<< >>, c)
  BY EmptySeq
<1>2. Wire!Written(<<c>>, code) = Wire!Onto(<< >>, c, code)
  <2>1. Wire!Written(Append(<< >>, c), code) = Wire!Onto(Wire!Written(<< >>, code), c, code)
    BY <1>1, WrittenAppend
  <2> QED
    BY <1>1, <2>1, WrittenEmpty
<1>3. << >> \o <<c>> = <<c>>
  BY Pieces, ConcatEmptySeq
<1> QED
  BY <1>2, <1>3, ConcatEmptySeq DEF Wire!Onto

LEMMA ScannedConcat ==
    ASSUME NEW C, NEW s \in Seq(C), NEW t \in Seq(C), NEW r
    PROVE  Wire!ScannedOn(r, s \o t) = Wire!ScannedOn(Wire!ScannedOn(r, s), t)
<1> DEFINE U == {u \in Seq(C) : Wire!ScannedOn(r, s \o u)
                                  = Wire!ScannedOn(Wire!ScannedOn(r, s), u)}
<1>1. << >> \in U
  BY EmptySeq, ScannedEmpty, ConcatEmptySeq
<1>2. ASSUME NEW u \in Seq(C), NEW c \in C, u \in U PROVE Append(u, c) \in U
  <2>1. s \o u \in Seq(C) /\ s \o Append(u, c) = Append(s \o u, c)
        /\ Append(u, c) \in Seq(C)
    BY Pieces
  <2>2. Wire!ScannedOn(r, Append(s \o u, c))
          = Wire!Scanned(Wire!ScannedOn(r, s \o u), c)
    BY <2>1, ScannedAppend
  <2>3. Wire!ScannedOn(Wire!ScannedOn(r, s), Append(u, c))
          = Wire!Scanned(Wire!ScannedOn(Wire!ScannedOn(r, s), u), c)
    BY ScannedAppend
  <2>4. Wire!ScannedOn(r, s \o u) = Wire!ScannedOn(Wire!ScannedOn(r, s), u)
    BY <1>2
  <2> QED
    BY <2>1, <2>2, <2>3, <2>4
<1>3. \A u \in Seq(C) : u \in U
  <2> HIDE DEF U
  <2> QED
    BY <1>1, <1>2, SeqInduct
<1> QED
  BY <1>3

LEMMA ScannedOne ==
    ASSUME NEW C, NEW c \in C, NEW r
    PROVE  Wire!ScannedOn(r, <<c>>) = Wire!Scanned(r, c)
<1>1. << >> \in Seq(C) /\ <<c>> = Append(<< >>, c)
  BY EmptySeq
<1>2. Wire!ScannedOn(r, Append(<< >>, c)) = Wire!Scanned(Wire!ScannedOn(r, << >>), c)
  BY <1>1, ScannedAppend
<1> QED
  BY <1>1, <1>2, ScannedEmpty, Zenon

LEMMA ScannedTwo ==
    ASSUME NEW C, NEW a \in C, NEW b \in C, NEW r
    PROVE  Wire!ScannedOn(r, <<a, b>>) = Wire!Scanned(Wire!Scanned(r, a), b)
<1>1. <<a>> \in Seq(C) /\ <<a, b>> = Append(<<a>>, b)
  BY Pieces, EmptySeq
<1>2. Wire!ScannedOn(r, Append(<<a>>, b)) = Wire!Scanned(Wire!ScannedOn(r, <<a>>), b)
  BY <1>1, ScannedAppend
<1> QED
  BY <1>1, <1>2, ScannedOne

LEMMA ScannedThree ==
    ASSUME NEW C, NEW a \in C, NEW b \in C, NEW c \in C, NEW r
    PROVE  Wire!ScannedOn(r, <<a, b, c>>)
             = Wire!Scanned(Wire!Scanned(Wire!Scanned(r, a), b), c)
<1>1. <<a, b>> \in Seq(C) /\ <<a, b, c>> = Append(<<a, b>>, c)
  OBVIOUS
<1>2. Wire!ScannedOn(r, Append(<<a, b>>, c)) = Wire!Scanned(Wire!ScannedOn(r, <<a, b>>), c)
  BY <1>1, ScannedAppend
<1> QED
  BY <1>1, <1>2, ScannedTwo

-----------------------------------------------------------------------------
(* A header, read as it was written. *)
Names ==
    {"id", "realm", "method", "intent", "request", "expires", "description",
     "digest", "opaque"}

(* What a header has beside the texts in it. *)
Fixed == Names \union {"Payment", " ", ",", "=", "'", "/", "A~", "(c)"}

LEMMA FixedIn ==
    ASSUME NEW C, Fixed \subseteq C
    PROVE  /\ Names \subseteq C
           /\ {Wire!Quote, Wire!Backslash, "=", ",", " ", "Payment", "A~", "(c)"} \subseteq C
BY DEF Fixed, Wire!Quote, Wire!Backslash

State(at, key, value, pairs) ==
    [at |-> at, key |-> key, value |-> value, pairs |-> pairs, twice |-> FALSE]

LEMMA EscapeAppend ==
    ASSUME NEW C
    PROVE  /\ Wire!Escape(<< >>) = << >>
           /\ \A t \in Seq(C), c \in C :
                Wire!Escape(Append(t, c))
                  = Wire!Escape(t) \o (IF c \in {Wire!Quote, Wire!Backslash}
                                       THEN <<Wire!Backslash, c>> ELSE <<c>>)
<1>1. Wire!Escape(<< >>) = << >>
  BY WrittenEmpty DEF Wire!Escape
<1> DEFINE code == [c \in {Wire!Quote, Wire!Backslash} |-> <<Wire!Backslash, c>>]
<1>2. ASSUME NEW t \in Seq(C), NEW c \in C
      PROVE  Wire!Written(Append(t, c), code)
               = Wire!Written(t, code) \o (IF c \in {Wire!Quote, Wire!Backslash}
                                           THEN <<Wire!Backslash, c>> ELSE <<c>>)
  <2>1. DOMAIN code = {Wire!Quote, Wire!Backslash}
        /\ \A d \in {Wire!Quote, Wire!Backslash} : code[d] = <<Wire!Backslash, d>>
    OBVIOUS
  <2> HIDE DEF code
  <2>2. Wire!Written(Append(t, c), code) = Wire!Onto(Wire!Written(t, code), c, code)
    BY WrittenAppend
  <2> QED
    BY <2>1, <2>2 DEF Wire!Onto
<1> QED
  BY <1>1, <1>2 DEF Wire!Escape

(* A text's escape has no symbols but its own and a backslash.             *)
LEMMA EscapeType ==
    ASSUME NEW C, Wire!Backslash \in C, NEW t \in Seq(C)
    PROVE  Wire!Escape(t) \in Seq(C)
<1> DEFINE code == [c \in {Wire!Quote, Wire!Backslash} |-> <<Wire!Backslash, c>>]
           T == {u \in Seq(C) : Wire!Written(u, code) \in Seq(C)}
<1>1. << >> \in T
  BY EmptySeq, WrittenEmpty
<1>2. ASSUME NEW u \in Seq(C), NEW c \in C, u \in T PROVE Append(u, c) \in T
  <2> DEFINE piece == IF c \in DOMAIN code THEN code[c] ELSE <<c>>
  <2>1. piece \in Seq(C)
    OBVIOUS
  <2> HIDE DEF code
  <2>2. Wire!Written(Append(u, c), code) = Wire!Written(u, code) \o piece
    <3>1. Wire!Written(Append(u, c), code) = Wire!Onto(Wire!Written(u, code), c, code)
      BY WrittenAppend
    <3>2. Wire!Onto(Wire!Written(u, code), c, code) = Wire!Written(u, code) \o piece
      BY DEF Wire!Onto
    <3> QED
      BY <3>1, <3>2, Zenon
  <2> HIDE DEF piece
  <2> QED
    BY <1>2, <2>1, <2>2, ConcatProperties, AppendProperties
<1>3. \A u \in Seq(C) : u \in T
  <2> HIDE DEF T
  <2> QED
    BY <1>1, <1>2, SeqInduct
<1> QED
  BY <1>3 DEF Wire!Escape

(* One symbol in a quoted value. *)
LEMMA QuotedStep ==
    ASSUME NEW C, Fixed \subseteq C, NEW k, NEW v \in Seq(C), NEW ps, NEW c \in C
    PROVE  Wire!ScannedOn(State("quoted", k, v, ps),
                          IF c \in {Wire!Quote, Wire!Backslash}
                          THEN <<Wire!Backslash, c>> ELSE <<c>>)
             = State("quoted", k, v \o <<c>>, ps)
<1> DEFINE r == State("quoted", k, v, ps)
<1>1. CASE c \in {Wire!Quote, Wire!Backslash}
  <2>1. Wire!Scanned(r, Wire!Backslash) = State("escaped", k, v, ps)
    BY DEF Wire!Scanned, State, Wire!Quote, Wire!Backslash
  <2>2. Wire!Scanned(State("escaped", k, v, ps), c) = State("quoted", k, v \o <<c>>, ps)
    BY DEF Wire!Scanned, State
  <2>3. Wire!Backslash \in C
    BY FixedIn
  <2>4. Wire!ScannedOn(r, <<Wire!Backslash, c>>) = State("quoted", k, v \o <<c>>, ps)
    BY <2>1, <2>2, <2>3, ScannedTwo
  <2> QED
    BY <1>1, <2>4
<1>2. CASE c \notin {Wire!Quote, Wire!Backslash}
  <2>1. Wire!Scanned(r, c) = State("quoted", k, v \o <<c>>, ps)
    BY <1>2 DEF Wire!Scanned, State
  <2>2. Wire!ScannedOn(r, <<c>>) = State("quoted", k, v \o <<c>>, ps)
    BY <2>1, ScannedOne
  <2> QED
    BY <1>2, <2>2
<1> QED
  BY <1>1, <1>2

(* An escaped text is read back inside the quotes, whatever is in it.      *)
LEMMA QuotedRead ==
    ASSUME NEW C, Fixed \subseteq C, NEW k, NEW ps
    PROVE  \A t \in Seq(C) :
             Wire!ScannedOn(State("quoted", k, << >>, ps), Wire!Escape(t))
               = State("quoted", k, t, ps)
<1> DEFINE r == State("quoted", k, << >>, ps)
           T == {t \in Seq(C) : Wire!ScannedOn(r, Wire!Escape(t)) = State("quoted", k, t, ps)}
<1>1. << >> \in T
  BY EmptySeq, EscapeAppend, ScannedEmpty
<1>2. ASSUME NEW t \in Seq(C), NEW c \in C, t \in T PROVE Append(t, c) \in T
  <2> DEFINE piece == IF c \in {Wire!Quote, Wire!Backslash}
                      THEN <<Wire!Backslash, c>> ELSE <<c>>
  <2>1. piece \in Seq(C) /\ Wire!Escape(t) \in Seq(C) /\ Append(t, c) \in Seq(C)
        /\ Append(t, c) = t \o <<c>>
    <3>1. Wire!Backslash \in C
      BY FixedIn
    <3> QED
      BY <3>1, EscapeType, Pieces
  <2>2. Wire!Escape(Append(t, c)) = Wire!Escape(t) \o piece
    BY EscapeAppend
  <2>3. Wire!ScannedOn(State("quoted", k, t, ps), piece) = State("quoted", k, t \o <<c>>, ps)
    BY QuotedStep
  <2> HIDE DEF piece, r
  <2>4. Wire!ScannedOn(r, Wire!Escape(t) \o piece)
          = Wire!ScannedOn(Wire!ScannedOn(r, Wire!Escape(t)), piece)
    BY <2>1, ScannedConcat
  <2> QED
    BY <1>2, <2>1, <2>2, <2>3, <2>4
<1>3. \A t \in Seq(C) : t \in T
  <2> HIDE DEF T
  <2> QED
    BY <1>1, <1>2, SeqInduct
<1> QED
  BY <1>3

LEMMA BothAreShort ==
    ASSUME NEW C, NEW a \in C, NEW b \in C, NEW c \in C
    PROVE  <<a>> \in Seq(C) /\ <<a, b>> \in Seq(C) /\ <<a, b, c>> \in Seq(C)
OBVIOUS

LEMMA ParamType ==
    ASSUME NEW C, NEW key \in C, NEW t \in Seq(C),
           Fixed \subseteq C
    PROVE  /\ <<key, "=", Wire!Quote>> \in Seq(C) /\ <<",", " ">> \in Seq(C)
           /\ <<Wire!Quote>> \in Seq(C) /\ Wire!Escape(t) \in Seq(C)
           /\ Wire!Param(key, t) \in Seq(C) /\ Wire!Following(key, t) \in Seq(C)
<1>1. /\ <<key, "=", Wire!Quote>> \in Seq(C) /\ <<",", " ">> \in Seq(C)
      /\ <<Wire!Quote>> \in Seq(C)
  <2>1. "=" \in C /\ "," \in C /\ " " \in C /\ Wire!Quote \in C
    BY FixedIn
  <2>2. <<key, "=", Wire!Quote>> \in Seq(C) /\ <<",", " ">> \in Seq(C)
    BY <2>1, BothAreShort
  <2>3. <<Wire!Quote>> \in Seq(C)
    BY <2>1, BothAreShort
  <2> QED
    BY <2>2, <2>3
<1>2. Wire!Escape(t) \in Seq(C)
  BY FixedIn, EscapeType
<1>3. Wire!Param(key, t) \in Seq(C)
  BY <1>1, <1>2, ConcatProperties DEF Wire!Param
<1> QED
  BY <1>1, <1>2, <1>3, ConcatProperties DEF Wire!Following

(* None of the pairs has the key.                                          *)
Fresh(key, ps) == \A p \in ps : p[1] # <<key>>

(* A parameter whose key has not come yet. *)
LEMMA ParamRead ==
    ASSUME NEW C, Fixed \subseteq C, NEW k, NEW v, NEW ps, NEW key \in Names, NEW t \in Seq(C),
           Fresh(key, ps)
    PROVE  /\ Wire!ScannedOn(State("between", k, v, ps), Wire!Param(key, t))
                = State("between", <<key>>, t, ps \union {<< <<key>>, t >>})
           /\ Wire!ScannedOn(State("between", k, v, ps), Wire!Following(key, t))
                = State("between", <<key>>, t, ps \union {<< <<key>>, t >>})
<1> DEFINE r == State("between", k, v, ps)
           done == State("between", <<key>>, t, ps \union {<< <<key>>, t >>})
<1>1. key \in C /\ key \notin {" ", ",", "="}
      /\ {Wire!Quote, Wire!Backslash, "=", ",", " "} \subseteq C
  BY FixedIn DEF Names
<1>2. Wire!ScannedOn(r, <<key, "=", Wire!Quote>>) = State("quoted", <<key>>, << >>, ps)
  <2>1. Wire!Scanned(r, key) = State("key", <<key>>, v, ps)
    BY <1>1 DEF Wire!Scanned, State, Wire!Separators
  <2>2. Wire!Scanned(State("key", <<key>>, v, ps), "=") = State("equals", <<key>>, v, ps)
    BY DEF Wire!Scanned, State
  <2>3. Wire!Scanned(State("equals", <<key>>, v, ps), Wire!Quote)
          = State("quoted", <<key>>, << >>, ps)
    BY DEF Wire!Scanned, State
  <2> HIDE DEF r
  <2>4. key \in C /\ "=" \in C /\ Wire!Quote \in C
    BY <1>1
  <2>5. Wire!ScannedOn(r, <<key, "=", Wire!Quote>>)
          = Wire!Scanned(Wire!Scanned(Wire!Scanned(r, key), "="), Wire!Quote)
    BY <2>4, ScannedThree
  <2> QED
    BY <2>1, <2>2, <2>3, <2>5
<1>3. Wire!ScannedOn(State("quoted", <<key>>, << >>, ps), Wire!Escape(t))
        = State("quoted", <<key>>, t, ps)
  BY QuotedRead
<1>4. Wire!ScannedOn(State("quoted", <<key>>, t, ps), <<Wire!Quote>>) = done
  <2>1. Wire!Scanned(State("quoted", <<key>>, t, ps), Wire!Quote) = done
    BY DEF Wire!Scanned, State, Wire!Inserted, Fresh
  <2> QED
    BY <1>1, <2>1, ScannedOne
<1>5. /\ <<key, "=", Wire!Quote>> \in Seq(C) /\ <<",", " ">> \in Seq(C)
      /\ <<Wire!Quote>> \in Seq(C) /\ Wire!Escape(t) \in Seq(C)
      /\ Wire!Param(key, t) \in Seq(C)
  BY <1>1, ParamType
<1> HIDE DEF r, done
<1>6. Wire!ScannedOn(r, Wire!Param(key, t)) = done
  <2> DEFINE a == <<key, "=", Wire!Quote>>
             b == Wire!Escape(t)
             z == <<Wire!Quote>>
  <2>1. Wire!Param(key, t) = (a \o b) \o z
    BY DEF Wire!Param
  <2>2. a \in Seq(C) /\ b \in Seq(C) /\ z \in Seq(C)
    BY <1>5
  <2> HIDE DEF a, b, z
  <2>3. a \o b \in Seq(C)
    BY <2>2, ConcatProperties
  <2>4. Wire!ScannedOn(r, (a \o b) \o z) = Wire!ScannedOn(Wire!ScannedOn(r, a \o b), z)
    BY <2>2, <2>3, ScannedConcat
  <2>5. Wire!ScannedOn(r, a \o b) = Wire!ScannedOn(Wire!ScannedOn(r, a), b)
    BY <2>2, ScannedConcat
  <2> QED
    BY <1>2, <1>3, <1>4, <2>1, <2>4, <2>5 DEF a, b, z
<1>7. Wire!ScannedOn(r, <<",", " ">>) = r
  <2>1. Wire!Scanned(r, ",") = r /\ Wire!Scanned(r, " ") = r
    BY DEF Wire!Scanned, State, Wire!Separators, r
  <2>2. "," \in C /\ " " \in C
    BY <1>1
  <2>3. Wire!ScannedOn(r, <<",", " ">>) = Wire!Scanned(Wire!Scanned(r, ","), " ")
    BY <2>2, ScannedTwo
  <2> QED
    BY <2>1, <2>3
<1>8. Wire!ScannedOn(r, <<",", " ">> \o Wire!Param(key, t)) = done
  <2>1. Wire!ScannedOn(r, <<",", " ">> \o Wire!Param(key, t))
          = Wire!ScannedOn(Wire!ScannedOn(r, <<",", " ">>), Wire!Param(key, t))
    BY <1>5, ScannedConcat
  <2> QED
    BY <1>6, <1>7, <2>1
<1> QED
  BY <1>6, <1>8 DEF Wire!Following, r, done

Option(T) == {Wire!None} \union {Wire!Some(t) : t \in T}

Challenges(C) ==
    [id : Seq(C), realm : Seq(C), method : Seq(C), intent : Seq(C), request : Seq(C),
     expires : Option(Seq(C)), description : Option(Seq(C)),
     digest : Option(Seq(C)), opaque : Option(Seq(C))]

(* Every field as one that may be absent. *)
Optionally(c) ==
    [id |-> Wire!Some(c.id), realm |-> Wire!Some(c.realm),
     method |-> Wire!Some(c.method), intent |-> Wire!Some(c.intent),
     request |-> Wire!Some(c.request), expires |-> c.expires,
     description |-> c.description, digest |-> c.digest, opaque |-> c.opaque]

PairsOf(F, K) == {<< <<key>>, F[key][1] >> : key \in {k \in K : F[k] # Wire!None}}

(* What has been read are the fields K of F. *)
Found(r, F, K) == \E k, v : r = State("between", k, v, PairsOf(F, K))

LEMMA OptionIs ==
    /\ \A x : Wire!Some(x) # Wire!None /\ Wire!Some(x)[1] = x
    /\ \A T : \A o \in Option(T) : o # Wire!None => o[1] \in T /\ o = Wire!Some(o[1])
    /\ \A T : Wire!None \in Option(T)
    /\ \A T, x : x \in T => Wire!Some(x) \in Option(T)
<1>1. \A x : Wire!Some(x) # Wire!None /\ Wire!Some(x)[1] = x
  BY DEF Wire!Some, Wire!None
<1> QED
  BY <1>1 DEF Option

(* What is absent leaves the scanner where it was.                         *)
LEMMA OptionalRead ==
    ASSUME NEW C, Fixed \subseteq C, NEW F, NEW K \in SUBSET Names, NEW key \in Names \ K,
           F[key] \in Option(Seq(C)), NEW r, Found(r, F, K)
    PROVE  Found(Wire!ScannedOn(r, Wire!Optional(key, F[key])), F, K \union {key})
<1> DEFINE ps == PairsOf(F, K)
<1>1. PICK k, v : r = State("between", k, v, ps)
  BY DEF Found
<1>2. CASE F[key] = Wire!None
  <2>1. PairsOf(F, K \union {key}) = ps
    BY <1>2 DEF PairsOf
  <2>2. Wire!ScannedOn(r, Wire!Optional(key, F[key])) = r
    BY <1>2, ScannedEmpty DEF Wire!Optional
  <2> QED
    BY <1>1, <2>1, <2>2 DEF Found
<1>3. CASE F[key] # Wire!None
  <2> DEFINE t == F[key][1]
  <2>1. t \in Seq(C)
    BY <1>3, OptionIs
  <2>2. Fresh(key, ps)
    <3>1. ASSUME NEW k2 \in K PROVE <<k2>> # <<key>>
      OBVIOUS
    <3> QED
      BY <3>1 DEF PairsOf, Fresh
  <2>3. PairsOf(F, K \union {key}) = ps \union {<< <<key>>, t >>}
    BY <1>3 DEF PairsOf
  <2>4. Wire!Optional(key, F[key]) = Wire!Following(key, t)
    BY <1>3 DEF Wire!Optional
  <2> HIDE DEF ps, t
  <2>5. Wire!ScannedOn(r, Wire!Following(key, t))
          = State("between", <<key>>, t, ps \union {<< <<key>>, t >>})
    <3>1. Wire!ScannedOn(State("between", k, v, ps), Wire!Following(key, t))
            = State("between", <<key>>, t, ps \union {<< <<key>>, t >>})
      <4>1. key \in Names
        OBVIOUS
      <4> QED
        BY <2>1, <2>2, <4>1, ParamRead
    <3> QED
      BY <1>1, <3>1 DEF ps
  <2> QED
    BY <2>3, <2>4, <2>5 DEF Found
<1> QED
  BY <1>2, <1>3

LEMMA OptionalType ==
    ASSUME NEW C, Fixed \subseteq C, NEW key \in Names, NEW o \in Option(Seq(C))
    PROVE  Wire!Optional(key, o) \in Seq(C)
<1>1. CASE o = Wire!None
  BY <1>1, EmptySeq DEF Wire!Optional
<1>2. CASE o # Wire!None
  <2>1. o[1] \in Seq(C) /\ key \in C
    BY <1>2, OptionIs, FixedIn
  <2> QED
    BY <1>2, <2>1, ParamType DEF Wire!Optional
<1> QED
  BY <1>1, <1>2

LEMMA NextRead ==
    ASSUME NEW C, Fixed \subseteq C, NEW F, NEW K \in SUBSET Names, NEW key \in Names \ K,
           F[key] \in Option(Seq(C)), NEW s \in Seq(C),
           Found(Wire!ScannedOn(Wire!Reading, s), F, K)
    PROVE  /\ s \o Wire!Optional(key, F[key]) \in Seq(C)
           /\ Found(Wire!ScannedOn(Wire!Reading, s \o Wire!Optional(key, F[key])),
                    F, K \union {key})
<1> DEFINE t == Wire!Optional(key, F[key])
<1>1. t \in Seq(C)
  BY OptionalType
<1>2. Found(Wire!ScannedOn(Wire!ScannedOn(Wire!Reading, s), t), F, K \union {key})
  BY OptionalRead
<1> HIDE DEF t
<1>3. Wire!ScannedOn(Wire!Reading, s \o t)
        = Wire!ScannedOn(Wire!ScannedOn(Wire!Reading, s), t)
  BY <1>1, ScannedConcat
<1>4. s \o t \in Seq(C)
  BY <1>1, ConcatProperties
<1> QED
  BY <1>2, <1>3, <1>4 DEF t

(* All the parameters: every field that is there, under its key, once.     *)
LEMMA ParamsRead ==
    ASSUME NEW C, Fixed \subseteq C, NEW c \in Challenges(C)
    PROVE  /\ Wire!ParamsOf(c) \in Seq(C)
           /\ Found(Wire!ScannedOn(Wire!Reading, Wire!ParamsOf(c)), Optionally(c), Names)
<1> DEFINE F == Optionally(c)
           Holds(s, K) == s \in Seq(C) /\ Found(Wire!ScannedOn(Wire!Reading, s), F, K)
           s1 == Wire!Param("id", c.id)
           s2 == s1 \o Wire!Optional("realm", F["realm"])
           s3 == s2 \o Wire!Optional("method", F["method"])
           s4 == s3 \o Wire!Optional("intent", F["intent"])
           s5 == s4 \o Wire!Optional("request", F["request"])
           s6 == s5 \o Wire!Optional("expires", F["expires"])
           s7 == s6 \o Wire!Optional("description", F["description"])
           s8 == s7 \o Wire!Optional("digest", F["digest"])
           s9 == s8 \o Wire!Optional("opaque", F["opaque"])
<1>1. /\ F["id"] = Wire!Some(c.id)
      /\ F["realm"] = Wire!Some(c.realm) /\ F["method"] = Wire!Some(c.method)
      /\ F["intent"] = Wire!Some(c.intent) /\ F["request"] = Wire!Some(c.request)
      /\ F["expires"] = c.expires /\ F["description"] = c.description
      /\ F["digest"] = c.digest /\ F["opaque"] = c.opaque
  BY DEF Optionally
<1>2. \A key \in Names : F[key] \in Option(Seq(C))
  <2>1. /\ c.id \in Seq(C) /\ c.realm \in Seq(C) /\ c.method \in Seq(C)
        /\ c.intent \in Seq(C) /\ c.request \in Seq(C)
        /\ c.expires \in Option(Seq(C)) /\ c.description \in Option(Seq(C))
        /\ c.digest \in Option(Seq(C)) /\ c.opaque \in Option(Seq(C))
    BY DEF Challenges
  <2> HIDE DEF F
  <2> QED
    BY <1>1, <2>1, OptionIs DEF Names
<1>3. Wire!ParamsOf(c) = s9
  <2>1. \A key, x : Wire!Optional(key, Wire!Some(x)) = Wire!Following(key, x)
    BY OptionIs DEF Wire!Optional
  <2> HIDE DEF F
  <2> QED
    BY <1>1, <2>1 DEF Wire!ParamsOf
<1>4. Holds(s1, {"id"})
  <2>1. Wire!Reading = State("between", << >>, << >>, {})
    BY DEF Wire!Reading, State
  <2>2. "id" \in Names /\ "id" \in C /\ c.id \in Seq(C)
    BY FixedIn DEF Names, Challenges
  <2>3. Wire!ScannedOn(Wire!Reading, s1)
          = State("between", <<"id">>, c.id, {} \union {<< <<"id">>, c.id >>})
    <3>1. Fresh("id", {})
      BY DEF Fresh
    <3>2. Wire!ScannedOn(State("between", << >>, << >>, {}), Wire!Param("id", c.id))
            = State("between", <<"id">>, c.id, {} \union {<< <<"id">>, c.id >>})
      BY <2>2, <3>1, ParamRead
    <3> QED
      BY <2>1, <3>2
  <2>4. PairsOf(F, {"id"}) = {} \union {<< <<"id">>, c.id >>}
    <3> HIDE DEF F
    <3> QED
      BY <1>1, OptionIs DEF PairsOf
  <2>5. s1 \in Seq(C)
    BY <2>2, ParamType
  <2> QED
    BY <2>3, <2>4, <2>5 DEF Found
<1>5. ASSUME NEW s, NEW K \in SUBSET Names, NEW key \in Names \ K, Holds(s, K)
      PROVE  Holds(s \o Wire!Optional(key, F[key]), K \union {key})
  <2> HIDE DEF F
  <2> QED
    BY <1>2, <1>5, NextRead
<1>6. /\ {"id"} \in SUBSET Names /\ "realm" \in Names \ {"id"}
      /\ {"id", "realm"} \in SUBSET Names /\ "method" \in Names \ {"id", "realm"}
      /\ {"id", "realm", "method"} \in SUBSET Names
      /\ "intent" \in Names \ {"id", "realm", "method"}
      /\ {"id", "realm", "method", "intent"} \in SUBSET Names
      /\ "request" \in Names \ {"id", "realm", "method", "intent"}
  BY DEF Names
<1>7. LET L == {"id", "realm", "method", "intent", "request"}
      IN  /\ L \in SUBSET Names /\ "expires" \in Names \ L
          /\ L \union {"expires"} \in SUBSET Names
          /\ "description" \in Names \ (L \union {"expires"})
          /\ L \union {"expires", "description"} \in SUBSET Names
          /\ "digest" \in Names \ (L \union {"expires", "description"})
          /\ L \union {"expires", "description", "digest"} \in SUBSET Names
          /\ "opaque" \in Names \ (L \union {"expires", "description", "digest"})
          /\ Names = L \union {"expires", "description", "digest", "opaque"}
  BY DEF Names
<1> HIDE DEF F, Holds, s1
<1>8. Holds(s2, {"id", "realm"})
  <2>1. {"id", "realm"} = {"id"} \union {"realm"}
    OBVIOUS
  <2> QED
    BY <1>4, <1>5, <1>6, <2>1
<1> HIDE DEF s2
<1>9. Holds(s3, {"id", "realm", "method"})
  <2>1. {"id", "realm", "method"} = {"id", "realm"} \union {"method"}
    OBVIOUS
  <2> QED
    BY <1>5, <1>6, <1>8, <2>1
<1> HIDE DEF s3
<1>10. Holds(s4, {"id", "realm", "method", "intent"})
  <2>1. {"id", "realm", "method", "intent"} = {"id", "realm", "method"} \union {"intent"}
    OBVIOUS
  <2> QED
    BY <1>5, <1>6, <1>9, <2>1
<1> HIDE DEF s4
<1> DEFINE L == {"id", "realm", "method", "intent", "request"}
<1>11. Holds(s5, L)
  <2>1. L = {"id", "realm", "method", "intent"} \union {"request"}
    OBVIOUS
  <2> HIDE DEF L
  <2> QED
    BY <1>5, <1>6, <1>10, <2>1
<1> HIDE DEF s5, L
<1>12. Holds(s6, L \union {"expires"})
  BY <1>5, <1>7, <1>11 DEF L
<1> HIDE DEF s6
<1>13. Holds(s7, L \union {"expires", "description"})
  <2>1. L \union {"expires", "description"} = (L \union {"expires"}) \union {"description"}
    OBVIOUS
  <2> QED
    BY <1>5, <1>7, <1>12, <2>1 DEF L
<1> HIDE DEF s7
<1>14. Holds(s8, L \union {"expires", "description", "digest"})
  <2>1. L \union {"expires", "description", "digest"}
          = (L \union {"expires", "description"}) \union {"digest"}
    OBVIOUS
  <2> QED
    BY <1>5, <1>7, <1>13, <2>1 DEF L
<1> HIDE DEF s8
<1>15. Holds(s9, Names)
  <2>1. L \union {"expires", "description", "digest", "opaque"}
          = (L \union {"expires", "description", "digest"}) \union {"opaque"}
    OBVIOUS
  <2> QED
    BY <1>5, <1>7, <1>14, <2>1 DEF L
<1> QED
  BY <1>3, <1>15 DEF Holds, F

(* The value of a key among the fields.                                    *)
LEMMA ValueFound ==
    ASSUME NEW C, NEW F, NEW K, NEW key \in K, F[key] \in Option(Seq(C))
    PROVE  Wire!ValueOf(PairsOf(F, K), key) = F[key]
<1> DEFINE those == {p \in PairsOf(F, K) : p[1] = <<key>>}
<1>1. \A k : <<k>> = <<key>> => k = key
  BY SMT
<1>2. CASE F[key] = Wire!None
  <2>1. those = {}
    BY <1>1, <1>2 DEF PairsOf
  <2> QED
    BY <1>2, <2>1 DEF Wire!ValueOf
<1>3. CASE F[key] # Wire!None
  <2>1. those = {<< <<key>>, F[key][1] >>}
    <3>1. << <<key>>, F[key][1] >> \in those
      BY <1>3 DEF PairsOf
    <3>2. ASSUME NEW p \in those PROVE p = << <<key>>, F[key][1] >>
      <4>1. PICK k \in K : p = << <<k>>, F[k][1] >>
        BY DEF PairsOf
      <4>2. k = key
        BY <1>1, <3>2, <4>1
      <4> QED
        BY <4>1, <4>2
    <3> HIDE DEF those
    <3> QED
      BY <3>1, <3>2
  <2> DEFINE one == CHOOSE p \in those : TRUE
  <2>2. one = << <<key>>, F[key][1] >>
    <3> HIDE DEF those
    <3> QED
      BY <2>1
  <2>3. Wire!ValueOf(PairsOf(F, K), key) = Wire!Some(one[2])
    <3>1. those # {}
      <4> HIDE DEF those
      <4> QED
        BY <2>1
    <3> QED
      BY <3>1 DEF Wire!ValueOf
  <2>4. F[key] = Wire!Some(F[key][1])
    BY <1>3, OptionIs
  <2> HIDE DEF one
  <2>5. one[2] = F[key][1]
    BY <2>2
  <2> QED
    BY <2>3, <2>4, <2>5
<1> QED
  BY <1>2, <1>3

(* The parameters are the header after its scheme.                         *)
LEMMA AfterScheme ==
    ASSUME NEW C, NEW a \in C, NEW b \in C, NEW t \in Seq(C)
    PROVE  LET h == <<a, b>> \o t
           IN  h \in Seq(C) /\ Len(h) = Len(t) + 2 /\ SubSeq(h, 3, Len(h)) = t
<1> DEFINE s == <<a, b>>
           h == s \o t
           n == Len(t)
<1>1. s \in Seq(C) /\ Len(s) = 2
  BY BothAreShort
<1> HIDE DEF s
<1>2. h \in Seq(C) /\ Len(h) = n + 2 /\ n \in Nat
      /\ \A i \in 1..(2 + n) : h[i] = IF i <= 2 THEN s[i] ELSE t[i - 2]
  <2>1. /\ s \o t \in Seq(C) /\ Len(s \o t) = Len(s) + Len(t)
        /\ \A i \in 1..(Len(s) + Len(t)) :
             (s \o t)[i] = IF i <= Len(s) THEN s[i] ELSE t[i - Len(s)]
    BY <1>1, ConcatProperties
  <2>2. n \in Nat
    BY LenProperties
  <2> QED
    BY <1>1, <2>1, <2>2
<1> HIDE DEF h
<1>3. \A i \in 3..(n + 2) : h[i] \in C
  <2>1. \A i \in 1..Len(h) : h[i] \in C
    BY <1>2, ElementOfSeq
  <2> QED
    BY <1>2, <2>1
<1>4. /\ SubSeq(h, 3, n + 2) \in Seq(C)
      /\ Len(SubSeq(h, 3, n + 2)) = n
      /\ \A i \in 1..n : SubSeq(h, 3, n + 2)[i] = h[i + 2]
  <2>1. /\ SubSeq(h, 3, n + 2) \in Seq(C)
        /\ Len(SubSeq(h, 3, n + 2)) = IF 3 <= n + 2 THEN (n + 2) - 3 + 1 ELSE 0
        /\ \A i \in 1 .. (n + 2) - 3 + 1 : SubSeq(h, 3, n + 2)[i] = h[3 + i - 1]
    <3>1. 3 \in Int /\ n + 2 \in Int
      BY <1>2
    <3> QED
      BY <1>3, <3>1, SubSeqProperties
  <2>2. (n + 2) - 3 + 1 = n /\ (IF 3 <= n + 2 THEN (n + 2) - 3 + 1 ELSE 0) = n
    BY <1>2
  <2>3. ASSUME NEW i \in 1..n PROVE SubSeq(h, 3, n + 2)[i] = h[i + 2]
    <3>1. i \in 1 .. (n + 2) - 3 + 1 /\ 3 + i - 1 = i + 2
      BY <1>2
    <3> QED
      BY <2>1, <3>1
  <2> QED
    BY <2>1, <2>2, <2>3
<1>5. ASSUME NEW i \in 1..n PROVE h[i + 2] = t[i]
  <2>1. i + 2 \in 1..(2 + n) /\ ~(i + 2 <= 2) /\ (i + 2) - 2 = i
    BY <1>2
  <2> QED
    BY <1>2, <2>1
<1>6. SubSeq(h, 3, n + 2) = t
  <2> DEFINE u == SubSeq(h, 3, n + 2)
  <2>1. u \in Seq(C) /\ Len(u) = Len(t) /\ \A i \in 1..Len(u) : u[i] = t[i]
    BY <1>4, <1>5
  <2> HIDE DEF u
  <2>2. u = t
    BY <2>1, SeqEqual
  <2> QED
    BY <2>2 DEF u
<1> QED
  BY <1>2, <1>6 DEF h, s

(* A header has the symbols of its challenge and the fixed ones.           *)
LEMMA HeaderType ==
    ASSUME NEW C, Fixed \subseteq C, NEW c \in Challenges(C)
    PROVE  LET h == Wire!FormatWwwAuthenticate(c)
           IN  /\ h \in Seq(C) /\ ~(Len(h) < 2)
               /\ SubSeq(h, 3, Len(h)) = Wire!ParamsOf(c)
<1>1. Wire!ParamsOf(c) \in Seq(C) /\ "Payment" \in C /\ " " \in C
  BY ParamsRead, FixedIn
<1> DEFINE t == Wire!ParamsOf(c)
           h == <<"Payment", " ">> \o t
<1>2. Wire!FormatWwwAuthenticate(c) = h
  BY DEF Wire!FormatWwwAuthenticate
<1>3. t \in Seq(C) /\ Len(t) \in Nat
  BY <1>1, LenProperties
<1> HIDE DEF t
<1>4. h \in Seq(C) /\ Len(h) = Len(t) + 2 /\ SubSeq(h, 3, Len(h)) = t
  <2>1. LET u == <<"Payment", " ">> \o t
        IN  u \in Seq(C) /\ Len(u) = Len(t) + 2 /\ SubSeq(u, 3, Len(u)) = t
    <3> DEFINE a == "Payment"
               b == " "
    <3>1. a \in C /\ b \in C
      BY <1>1
    <3> HIDE DEF a, b
    <3>2. LET u == <<a, b>> \o t
          IN  u \in Seq(C) /\ Len(u) = Len(t) + 2 /\ SubSeq(u, 3, Len(u)) = t
      BY <1>3, <3>1, AfterScheme
    <3> QED
      BY <3>2 DEF a, b
  <2> QED
    BY <2>1
<1> HIDE DEF h
<1>5. ~(Len(h) < 2)
  BY <1>3, <1>4
<1> QED
  BY <1>2, <1>4, <1>5 DEF t

(* What is written is read, whatever the texts. *)
LEMMA FieldsRead ==
    ASSUME NEW C, Fixed \subseteq C, NEW c \in Challenges(C)
    PROVE  Wire!Fields(Wire!FormatWwwAuthenticate(c)) = Wire!Some(c)
<1> DEFINE F == Optionally(c)
           h == Wire!FormatWwwAuthenticate(c)
           params == Wire!AuthParams(SubSeq(h, 3, Len(h)))
           V(key) == Wire!ValueOf(params.pairs, key)
<1>1. /\ c.id \in Seq(C) /\ c.realm \in Seq(C) /\ c.method \in Seq(C)
      /\ c.intent \in Seq(C) /\ c.request \in Seq(C)
      /\ c.expires \in Option(Seq(C)) /\ c.description \in Option(Seq(C))
      /\ c.digest \in Option(Seq(C)) /\ c.opaque \in Option(Seq(C))
      /\ c = [id |-> c.id, realm |-> c.realm, method |-> c.method,
              intent |-> c.intent, request |-> c.request, expires |-> c.expires,
              description |-> c.description, digest |-> c.digest, opaque |-> c.opaque]
  BY DEF Challenges
<1>2. /\ F["id"] = Wire!Some(c.id)
      /\ F["realm"] = Wire!Some(c.realm) /\ F["method"] = Wire!Some(c.method)
      /\ F["intent"] = Wire!Some(c.intent) /\ F["request"] = Wire!Some(c.request)
      /\ F["expires"] = c.expires /\ F["description"] = c.description
      /\ F["digest"] = c.digest /\ F["opaque"] = c.opaque
  BY DEF Optionally
<1> HIDE DEF F
<1>3. \A key \in Names : F[key] \in Option(Seq(C))
  BY <1>1, <1>2, OptionIs DEF Names
<1>4. \E k, v : params = State("between", k, v, PairsOf(F, Names))
  <2>1. PICK k, v : Wire!ScannedOn(Wire!Reading, Wire!ParamsOf(c))
                      = State("between", k, v, PairsOf(F, Names))
    BY ParamsRead DEF Found, F
  <2>2. params = Wire!Ended(State("between", k, v, PairsOf(F, Names)))
    BY <2>1, HeaderType DEF Wire!AuthParams
  <2>3. Wire!Ended(State("between", k, v, PairsOf(F, Names)))
          = State("between", k, v, PairsOf(F, Names))
    BY DEF Wire!Ended, State
  <2> QED
    BY <2>2, <2>3
<1>5. params.pairs = PairsOf(F, Names) /\ params.twice = FALSE
  BY <1>4 DEF State
<1>6. \A key \in Names : V(key) = F[key]
  <2>1. ASSUME NEW key \in Names
        PROVE  Wire!ValueOf(PairsOf(F, Names), key) = F[key]
    BY <1>3, ValueFound
  <2> HIDE DEF params
  <2> QED
    BY <1>5, <2>1
<1>7. /\ V("id") = Wire!Some(c.id) /\ V("realm") = Wire!Some(c.realm)
      /\ V("method") = Wire!Some(c.method) /\ V("intent") = Wire!Some(c.intent)
      /\ V("request") = Wire!Some(c.request) /\ V("expires") = c.expires
      /\ V("description") = c.description /\ V("digest") = c.digest
      /\ V("opaque") = c.opaque
  <2> HIDE DEF V
  <2> QED
    BY <1>2, <1>6 DEF Names
<1>8. ~(Len(h) < 2)
  BY HeaderType
<1>9. \A key \in Wire!RequiredKeys : V(key) # Wire!None
  <2> HIDE DEF V
  <2> QED
    BY <1>7, OptionIs DEF Wire!RequiredKeys
<1>10. /\ V("id")[1] = c.id /\ V("realm")[1] = c.realm /\ V("method")[1] = c.method
       /\ V("intent")[1] = c.intent /\ V("request")[1] = c.request
  <2> HIDE DEF V
  <2> QED
    BY <1>7, OptionIs
<1>11. Wire!Fields(h)
         = IF \/ Len(h) < 2 \/ params.twice
              \/ \E key \in Wire!RequiredKeys : V(key) = Wire!None
           THEN Wire!None
           ELSE Wire!Some([id |-> V("id")[1], realm |-> V("realm")[1],
                   method |-> V("method")[1], intent |-> V("intent")[1],
                   request |-> V("request")[1], expires |-> V("expires"),
                   description |-> V("description"),
                   digest |-> V("digest"), opaque |-> V("opaque")])
  <2> HIDE DEF h
  <2> QED
    BY DEF Wire!Fields
<1> HIDE DEF V, h, params
<1>12. Wire!Fields(h) = Wire!Some([id |-> V("id")[1], realm |-> V("realm")[1],
                   method |-> V("method")[1], intent |-> V("intent")[1],
                   request |-> V("request")[1], expires |-> V("expires"),
                   description |-> V("description"),
                   digest |-> V("digest"), opaque |-> V("opaque")])
  BY <1>5, <1>8, <1>9, <1>11
<1> QED
  BY <1>1, <1>7, <1>10, <1>12 DEF h

(* What a browser makes of the bytes of a text. *)
LEMMA BytewiseAre ==
    ASSUME NEW C, Fixed \subseteq C
    PROVE  /\ \A t \in Seq(C) : Wire!Bytewise(t) \in Seq(C)
           /\ \A s \in Seq(C), t \in Seq(C) :
                Wire!Bytewise(s \o t) = Wire!Bytewise(s) \o Wire!Bytewise(t)
           /\ \A c \in C : Wire!Bytewise(<<c>>)
                             = IF c \in Wire!Foreign THEN <<"A~", "(c)">> ELSE <<c>>
           /\ Wire!Bytewise(<< >>) = << >>
<1> DEFINE code == [c \in Wire!Foreign |-> <<"A~", "(c)">>]
<1>1. /\ DOMAIN code = Wire!Foreign /\ \A c \in Wire!Foreign : code[c] = <<"A~", "(c)">>
      /\ \A t : Wire!Bytewise(t) = Wire!Written(t, code)
  BY DEF Wire!Bytewise
<1>2. <<"A~", "(c)">> \in Seq(C)
  <2> DEFINE a == "A~"
             b == "(c)"
  <2>1. a \in C /\ b \in C
    BY FixedIn
  <2> HIDE DEF a, b
  <2>2. <<a, b>> \in Seq(C)
    BY <2>1, BothAreShort
  <2> QED
    BY <2>2 DEF a, b
<1> DEFINE out == <<"A~", "(c)">>
<1> HIDE DEF code, out
<1>3. \A c \in DOMAIN code : code[c] \in Seq(C)
  BY <1>1, <1>2 DEF out
<1>4. ASSUME NEW s \in Seq(C), NEW t \in Seq(C)
      PROVE  /\ Wire!Written(s, code) \in Seq(C)
             /\ Wire!Written(s \o t, code) = Wire!Written(s, code) \o Wire!Written(t, code)
  BY <1>3, WrittenConcat DEF Coded
<1>5. ASSUME NEW c \in C
      PROVE  Wire!Written(<<c>>, code) = IF c \in DOMAIN code THEN code[c] ELSE <<c>>
  BY <1>3, WrittenOne DEF Coded
<1>6. Wire!Written(<< >>, code) = << >>
  BY WrittenEmpty
<1> QED
  BY <1>1, <1>4, <1>5, <1>6

(* A visible text stays as it is.                                          *)
LEMMA BytewiseSame ==
    ASSUME NEW C, Fixed \subseteq C, C \cap Wire!Foreign = {}
    PROVE  \A t \in Seq(C) : Wire!Bytewise(t) = t
<1> DEFINE T == {t \in Seq(C) : Wire!Bytewise(t) = t}
<1>1. << >> \in T
  BY BytewiseAre, EmptySeq
<1>2. ASSUME NEW t \in Seq(C), NEW c \in C, t \in T PROVE Append(t, c) \in T
  <2>1. Append(t, c) \in Seq(C) /\ Append(t, c) = t \o <<c>> /\ <<c>> \in Seq(C)
    BY Pieces
  <2>2. Wire!Bytewise(<<c>>) = <<c>>
    BY BytewiseAre
  <2>3. Wire!Bytewise(t \o <<c>>) = Wire!Bytewise(t) \o Wire!Bytewise(<<c>>)
    BY <2>1, BytewiseAre
  <2> QED
    BY <1>2, <2>1, <2>2, <2>3
<1>3. \A t \in Seq(C) : t \in T
  <2> HIDE DEF T
  <2> QED
    BY <1>1, <1>2, SeqInduct
<1> QED
  BY <1>3

LEMMA EscapeConcat ==
    ASSUME NEW C, Fixed \subseteq C
    PROVE  /\ \A t \in Seq(C) : Wire!Escape(t) \in Seq(C)
           /\ \A s \in Seq(C), t \in Seq(C) :
                Wire!Escape(s \o t) = Wire!Escape(s) \o Wire!Escape(t)
           /\ \A c \in C : Wire!Escape(<<c>>)
                = IF c \in {Wire!Quote, Wire!Backslash} THEN <<Wire!Backslash, c>> ELSE <<c>>
<1> DEFINE code == [c \in {Wire!Quote, Wire!Backslash} |-> <<Wire!Backslash, c>>]
<1>1. /\ DOMAIN code = {Wire!Quote, Wire!Backslash}
      /\ \A c \in {Wire!Quote, Wire!Backslash} : code[c] = <<Wire!Backslash, c>>
      /\ \A t : Wire!Escape(t) = Wire!Written(t, code)
  BY DEF Wire!Escape
<1>2. Wire!Backslash \in C /\ Wire!Quote \in C
  BY FixedIn
<1> HIDE DEF code
<1>3. ASSUME NEW c \in DOMAIN code PROVE code[c] \in Seq(C)
  <2>1. c \in C /\ code[c] = <<Wire!Backslash, c>>
    BY <1>1, <1>2
  <2> QED
    BY <1>2, <2>1, BothAreShort
<1>4. ASSUME NEW s \in Seq(C), NEW t \in Seq(C)
      PROVE  /\ Wire!Written(s, code) \in Seq(C)
             /\ Wire!Written(s \o t, code) = Wire!Written(s, code) \o Wire!Written(t, code)
  BY <1>3, WrittenConcat DEF Coded
<1>5. ASSUME NEW c \in C
      PROVE  Wire!Written(<<c>>, code) = IF c \in DOMAIN code THEN code[c] ELSE <<c>>
  BY <1>3, WrittenOne DEF Coded
<1> QED
  BY <1>1, <1>4, <1>5

LEMMA Twofold ==
    ASSUME NEW C, NEW a \in C, NEW b \in C
    PROVE  <<a, b>> = <<a>> \o <<b>> /\ <<a>> \in Seq(C) /\ <<b>> \in Seq(C)
<1>1. <<a>> \in Seq(C) /\ <<b>> \in Seq(C) /\ <<a, b>> = Append(<<a>>, b)
  OBVIOUS
<1> QED
  BY <1>1, AppendIsConcat

(* Bytes that are escaped are those of an escaped text. *)
LEMMA BytewiseEscape ==
    ASSUME NEW C, Fixed \subseteq C
    PROVE  \A t \in Seq(C) : Wire!Bytewise(Wire!Escape(t)) = Wire!Escape(Wire!Bytewise(t))
<1> DEFINE T == {t \in Seq(C) : Wire!Bytewise(Wire!Escape(t)) = Wire!Escape(Wire!Bytewise(t))}
<1>1. << >> \in T
  <2>1. Wire!Escape(<< >>) = << >> /\ Wire!Bytewise(<< >>) = << >> /\ << >> \in Seq(C)
    BY BytewiseAre, EscapeAppend, EmptySeq
  <2> QED
    BY <2>1
<1>2. ASSUME NEW c \in C
      PROVE  Wire!Bytewise(Wire!Escape(<<c>>)) = Wire!Escape(Wire!Bytewise(<<c>>))
  <2>1. /\ Wire!Backslash \in C /\ Wire!Backslash \notin Wire!Foreign
        /\ Wire!Quote \notin Wire!Foreign
    BY FixedIn DEF Wire!Backslash, Wire!Quote, Wire!Foreign
  <2>2. CASE c \in {Wire!Quote, Wire!Backslash}
    <3>1. Wire!Bytewise(<<c>>) = <<c>> /\ Wire!Escape(<<c>>) = <<Wire!Backslash, c>>
      BY <2>1, <2>2, BytewiseAre, EscapeConcat
    <3>2. <<Wire!Backslash, c>> = <<Wire!Backslash>> \o <<c>>
          /\ <<Wire!Backslash>> \in Seq(C) /\ <<c>> \in Seq(C)
      BY <2>1
    <3>3. Wire!Bytewise(<<Wire!Backslash>> \o <<c>>)
            = Wire!Bytewise(<<Wire!Backslash>>) \o Wire!Bytewise(<<c>>)
      BY <3>2, BytewiseAre
    <3>4. Wire!Bytewise(<<Wire!Backslash>>) = <<Wire!Backslash>>
      BY <2>1, BytewiseAre
    <3> QED
      BY <3>1, <3>2, <3>3, <3>4
  <2>3. CASE c \in Wire!Foreign
    <3>1. Wire!Escape(<<c>>) = <<c>>
      BY <2>1, <2>3, EscapeConcat
    <3>2. Wire!Bytewise(<<c>>) = <<"A~", "(c)">>
      BY <2>3, BytewiseAre
    <3>3. Wire!Escape(<<"A~", "(c)">>) = <<"A~", "(c)">>
      <4> DEFINE a == "A~"
                 b == "(c)"
      <4>1. /\ a \in C /\ b \in C
            /\ a \notin {Wire!Quote, Wire!Backslash} /\ b \notin {Wire!Quote, Wire!Backslash}
        BY FixedIn DEF Wire!Quote, Wire!Backslash
      <4> HIDE DEF a, b
      <4>2. <<a, b>> = <<a>> \o <<b>> /\ <<a>> \in Seq(C) /\ <<b>> \in Seq(C)
        BY <4>1, Twofold
      <4>3. Wire!Escape(<<a>> \o <<b>>) = Wire!Escape(<<a>>) \o Wire!Escape(<<b>>)
        BY <4>2, EscapeConcat
      <4>4. Wire!Escape(<<a>>) = <<a>> /\ Wire!Escape(<<b>>) = <<b>>
        BY <4>1, EscapeConcat
      <4>5. Wire!Escape(<<a, b>>) = <<a, b>>
        BY <4>2, <4>3, <4>4
      <4> QED
        BY <4>5 DEF a, b
    <3> QED
      BY <3>1, <3>2, <3>3
  <2>4. CASE c \notin {Wire!Quote, Wire!Backslash} \union Wire!Foreign
    <3>1. Wire!Escape(<<c>>) = <<c>> /\ Wire!Bytewise(<<c>>) = <<c>>
      BY <2>4, EscapeConcat, BytewiseAre
    <3> QED
      BY <3>1
  <2> QED
    BY <2>2, <2>3, <2>4
<1>3. ASSUME NEW t \in Seq(C), NEW c \in C, t \in T PROVE Append(t, c) \in T
  <2>1. Append(t, c) \in Seq(C) /\ Append(t, c) = t \o <<c>> /\ <<c>> \in Seq(C)
    BY Pieces
  <2> DEFINE e == Wire!Escape(t)
             f == Wire!Escape(<<c>>)
             x == Wire!Bytewise(t)
             y == Wire!Bytewise(<<c>>)
  <2>2. e \in Seq(C) /\ f \in Seq(C) /\ x \in Seq(C) /\ y \in Seq(C)
    BY <2>1, EscapeConcat, BytewiseAre
  <2>3. Wire!Escape(t \o <<c>>) = e \o f /\ Wire!Bytewise(t \o <<c>>) = x \o y
    BY <2>1, EscapeConcat, BytewiseAre
  <2>4. Wire!Bytewise(e) = Wire!Escape(x) /\ Wire!Bytewise(f) = Wire!Escape(y)
    BY <1>2, <1>3
  <2> HIDE DEF e, f, x, y
  <2>5. Wire!Bytewise(e \o f) = Wire!Bytewise(e) \o Wire!Bytewise(f)
        /\ Wire!Escape(x \o y) = Wire!Escape(x) \o Wire!Escape(y)
    BY <2>2, EscapeConcat, BytewiseAre
  <2> QED
    BY <2>1, <2>3, <2>4, <2>5
<1>4. \A t \in Seq(C) : t \in T
  <2> HIDE DEF T
  <2> QED
    BY <1>1, <1>3, SeqInduct
<1> QED
  BY <1>4

(* The description as a browser has it. *)
Through(o) == IF o = Wire!None THEN Wire!None ELSE Wire!Some(Wire!Bytewise(o[1]))

LEMMA BytewiseDescription ==
    ASSUME NEW C, Fixed \subseteq C, NEW o \in Option(Seq(C))
    PROVE  /\ Wire!Bytewise(Wire!Optional("description", o))
                = Wire!Optional("description", Through(o))
           /\ Through(o) \in Option(Seq(C))
<1>1. CASE o = Wire!None
  BY <1>1, BytewiseAre, OptionIs DEF Through, Wire!Optional
<1>2. CASE o # Wire!None
  <2> DEFINE A == C \ Wire!Foreign
             t == o[1]
             u == <<",", " ">>
             v == <<"description", "=", Wire!Quote>>
             e == Wire!Escape(t)
             z == <<Wire!Quote>>
  <2>1. t \in Seq(C) /\ Through(o) = Wire!Some(Wire!Bytewise(t))
        /\ Wire!Bytewise(t) \in Seq(C)
    BY <1>2, OptionIs, BytewiseAre DEF Through
  <2>2. Fixed \subseteq A /\ A \cap Wire!Foreign = {} /\ A \subseteq C
        /\ "description" \in A /\ "description" \in C
    BY DEF Fixed, Names, Wire!Foreign
  <2> HIDE DEF A
  <2>3. /\ u \in Seq(A) /\ v \in Seq(A) /\ z \in Seq(A)
        /\ u \in Seq(C) /\ v \in Seq(C) /\ z \in Seq(C) /\ e \in Seq(C)
    <3>1. << >> \in Seq(A)
      BY EmptySeq
    <3> QED
      BY <2>1, <2>2, <3>1, ParamType
  <2>4. /\ Wire!Optional("description", o) = u \o ((v \o e) \o z)
        /\ Wire!Optional("description", Through(o))
             = u \o ((v \o Wire!Escape(Wire!Bytewise(t))) \o z)
    <3>1. Through(o) # Wire!None /\ Through(o)[1] = Wire!Bytewise(t)
      BY <2>1, OptionIs
    <3> QED
      BY <1>2, <3>1 DEF Wire!Optional, Wire!Following, Wire!Param
  <2>5. Wire!Bytewise(e) = Wire!Escape(Wire!Bytewise(t))
    BY <2>1, BytewiseEscape
  <2>6. Wire!Bytewise(u) = u /\ Wire!Bytewise(v) = v /\ Wire!Bytewise(z) = z
    BY <2>2, <2>3, BytewiseSame
  <2> HIDE DEF u, v, e, z, t
  <2>7. v \o e \in Seq(C) /\ (v \o e) \o z \in Seq(C)
    BY <2>3, ConcatProperties
  <2>8. /\ Wire!Bytewise(v \o e) = Wire!Bytewise(v) \o Wire!Bytewise(e)
        /\ Wire!Bytewise((v \o e) \o z) = Wire!Bytewise(v \o e) \o Wire!Bytewise(z)
        /\ Wire!Bytewise(u \o ((v \o e) \o z))
             = Wire!Bytewise(u) \o Wire!Bytewise((v \o e) \o z)
    BY <2>3, <2>7, BytewiseAre
  <2>9. Through(o) \in Option(Seq(C))
    BY <2>1, OptionIs
  <2> QED
    BY <2>4, <2>5, <2>6, <2>8, <2>9
<1> QED
  BY <1>1, <1>2

(* A challenge but for its description is of A. *)
Visible(A, c) == [c EXCEPT !.description = Wire!None] \in Challenges(A)

LEMMA VisibleIs ==
    ASSUME NEW A, NEW C, NEW c \in Challenges(C), Visible(A, c)
    PROVE  /\ c.id \in Seq(A) /\ c.realm \in Seq(A) /\ c.method \in Seq(A)
           /\ c.intent \in Seq(A) /\ c.request \in Seq(A)
           /\ c.expires \in Option(Seq(A)) /\ c.digest \in Option(Seq(A))
           /\ c.opaque \in Option(Seq(A)) /\ c.description \in Option(Seq(C))
<1> DEFINE d == [c EXCEPT !.description = Wire!None]
<1>1. /\ d.id = c.id /\ d.realm = c.realm /\ d.method = c.method
      /\ d.intent = c.intent /\ d.request = c.request /\ d.expires = c.expires
      /\ d.digest = c.digest /\ d.opaque = c.opaque /\ c.description \in Option(Seq(C))
  BY DEF Challenges
<1>2. /\ d.id \in Seq(A) /\ d.realm \in Seq(A) /\ d.method \in Seq(A)
      /\ d.intent \in Seq(A) /\ d.request \in Seq(A)
      /\ d.expires \in Option(Seq(A)) /\ d.digest \in Option(Seq(A))
      /\ d.opaque \in Option(Seq(A))
  <2> HIDE DEF d
  <2>1. d \in Challenges(A)
    BY DEF Visible, d
  <2> QED
    BY <2>1 DEF Challenges
<1> QED
  BY <1>1, <1>2

Mangled(c) == [c EXCEPT !.description = Through(@)]

(* The bytes of a header are a header: that of the mangled challenge.      *)
LEMMA BytewiseHeader ==
    ASSUME NEW A, Fixed \subseteq A, A \cap Wire!Foreign = {},
           NEW C, A \subseteq C, NEW c \in Challenges(C), Visible(A, c)
    PROVE  /\ Mangled(c) \in Challenges(C)
           /\ Wire!Bytewise(Wire!FormatWwwAuthenticate(c))
                = Wire!FormatWwwAuthenticate(Mangled(c))
<1>1. /\ c.id \in Seq(A) /\ c.realm \in Seq(A) /\ c.method \in Seq(A)
      /\ c.intent \in Seq(A) /\ c.request \in Seq(A)
      /\ c.expires \in Option(Seq(A)) /\ c.digest \in Option(Seq(A))
      /\ c.opaque \in Option(Seq(A)) /\ c.description \in Option(Seq(C))
  BY VisibleIs
<1> DEFINE d == Through(c.description)
           m == Mangled(c)
<1>2. Fixed \subseteq C
  OBVIOUS
<1>3. /\ d \in Option(Seq(C))
      /\ Wire!Bytewise(Wire!Optional("description", c.description))
           = Wire!Optional("description", d)
  BY <1>1, <1>2, BytewiseDescription
<1>4. /\ m \in Challenges(C)
      /\ m.id = c.id /\ m.realm = c.realm /\ m.method = c.method
      /\ m.intent = c.intent /\ m.request = c.request /\ m.expires = c.expires
      /\ m.digest = c.digest /\ m.opaque = c.opaque /\ m.description = d
  <2>1. /\ m.id = c.id /\ m.realm = c.realm /\ m.method = c.method
        /\ m.intent = c.intent /\ m.request = c.request /\ m.expires = c.expires
        /\ m.digest = c.digest /\ m.opaque = c.opaque /\ m.description = d
    BY DEF Challenges, Mangled
  <2>2. m \in Challenges(C)
    <3> HIDE DEF d
    <3>1. m = [c EXCEPT !.description = d]
      BY DEF Mangled, d
    <3> QED
      BY <1>3, <3>1 DEF Challenges
  <2> QED
    BY <2>1, <2>2
<1> DEFINE w == <<"Payment", " ">>
           p == Wire!Param("id", c.id)
           p2 == Wire!Following("realm", c.realm)
           p3 == Wire!Following("method", c.method)
           p4 == Wire!Following("intent", c.intent)
           p5 == Wire!Following("request", c.request)
           p6 == Wire!Optional("expires", c.expires)
           x == ((((p \o p2) \o p3) \o p4) \o p5) \o p6
           o == Wire!Optional("description", c.description)
           o2 == Wire!Optional("description", d)
           y == Wire!Optional("digest", c.digest)
           z == Wire!Optional("opaque", c.opaque)
<1>5. /\ Wire!FormatWwwAuthenticate(c) = w \o (((x \o o) \o y) \o z)
      /\ Wire!FormatWwwAuthenticate(m) = w \o (((x \o o2) \o y) \o z)
  <2> HIDE DEF d, m
  <2> QED
    BY <1>4 DEF Wire!FormatWwwAuthenticate, Wire!ParamsOf
<1>6. /\ p \in Seq(A) /\ p2 \in Seq(A) /\ p3 \in Seq(A) /\ p4 \in Seq(A)
      /\ p5 \in Seq(A) /\ p6 \in Seq(A) /\ y \in Seq(A) /\ z \in Seq(A)
      /\ o \in Seq(C)
  <2>1. /\ "id" \in A /\ "realm" \in A /\ "method" \in A /\ "intent" \in A
        /\ "request" \in A /\ "expires" \in Names /\ "digest" \in Names
        /\ "opaque" \in Names /\ "description" \in Names
    BY FixedIn DEF Names
  <2>2. /\ p \in Seq(A) /\ p2 \in Seq(A) /\ p3 \in Seq(A) /\ p4 \in Seq(A)
        /\ p5 \in Seq(A)
    BY <1>1, <2>1, ParamType
  <2>3. p6 \in Seq(A) /\ y \in Seq(A) /\ z \in Seq(A)
    BY <1>1, <2>1, OptionalType
  <2>4. o \in Seq(C)
    BY <1>1, <1>2, <2>1, OptionalType
  <2> QED
    BY <2>2, <2>3, <2>4
<1>7. w \in Seq(A)
  <2> DEFINE a == "Payment"
             b == " "
  <2>1. a \in A /\ b \in A
    BY FixedIn
  <2> HIDE DEF a, b
  <2>2. <<a, b>> \in Seq(A)
    BY <2>1, BothAreShort
  <2> QED
    BY <2>2 DEF a, b
<1> HIDE DEF w, p, p2, p3, p4, p5, p6, o, o2, y, z
<1>8. x \in Seq(A)
  <2>1. p \o p2 \in Seq(A)
    BY <1>6, ConcatProperties
  <2>2. (p \o p2) \o p3 \in Seq(A)
    BY <1>6, <2>1, ConcatProperties
  <2>3. ((p \o p2) \o p3) \o p4 \in Seq(A)
    BY <1>6, <2>2, ConcatProperties
  <2>4. (((p \o p2) \o p3) \o p4) \o p5 \in Seq(A)
    BY <1>6, <2>3, ConcatProperties
  <2> QED
    BY <1>6, <2>4, ConcatProperties
<1> HIDE DEF x
<1>9. /\ Wire!Bytewise(w) = w /\ Wire!Bytewise(x) = x
      /\ Wire!Bytewise(y) = y /\ Wire!Bytewise(z) = z /\ Wire!Bytewise(o) = o2
  BY <1>3, <1>6, <1>7, <1>8, BytewiseSame DEF o, o2
<1>10. w \in Seq(C) /\ x \in Seq(C) /\ y \in Seq(C) /\ z \in Seq(C)
  BY <1>6, <1>7, <1>8, SeqMonotonic
<1>11. /\ x \o o \in Seq(C) /\ (x \o o) \o y \in Seq(C)
       /\ ((x \o o) \o y) \o z \in Seq(C)
  BY <1>6, <1>10, ConcatProperties
<1>12. \A s \in Seq(C), t \in Seq(C) :
         Wire!Bytewise(s \o t) = Wire!Bytewise(s) \o Wire!Bytewise(t)
  BY <1>2, BytewiseAre
<1>13. Wire!Bytewise(x \o o) = x \o o2
  <2>1. Wire!Bytewise(x \o o) = Wire!Bytewise(x) \o Wire!Bytewise(o)
    BY <1>6, <1>10, <1>12
  <2> QED
    BY <1>9, <2>1
<1>14. Wire!Bytewise((x \o o) \o y) = (x \o o2) \o y
  <2>1. Wire!Bytewise((x \o o) \o y) = Wire!Bytewise(x \o o) \o Wire!Bytewise(y)
    BY <1>10, <1>11, <1>12
  <2> QED
    BY <1>9, <1>13, <2>1
<1>15. Wire!Bytewise(((x \o o) \o y) \o z) = ((x \o o2) \o y) \o z
  <2>1. Wire!Bytewise(((x \o o) \o y) \o z)
          = Wire!Bytewise((x \o o) \o y) \o Wire!Bytewise(z)
    BY <1>10, <1>11, <1>12
  <2> QED
    BY <1>9, <1>14, <2>1
<1>16. Wire!Bytewise(w \o (((x \o o) \o y) \o z)) = w \o (((x \o o2) \o y) \o z)
  <2>1. Wire!Bytewise(w \o (((x \o o) \o y) \o z))
          = Wire!Bytewise(w) \o Wire!Bytewise(((x \o o) \o y) \o z)
    BY <1>10, <1>11, <1>12
  <2> QED
    BY <1>9, <1>15, <2>1
<1> QED
  BY <1>4, <1>5, <1>16

-----------------------------------------------------------------------------
(* The id of a challenge *)

LEMMA ConcatOnce ==
    ASSUME NEW C, NEW a \in Seq(C), NEW b \in Seq(C), NEW s \in Seq(C), NEW t \in Seq(C),
           Len(a) = Len(b), a \o s = b \o t
    PROVE  a = b /\ s = t
<1>1. ASSUME NEW k \in 1..Len(a) PROVE a[k] = b[k]
  BY ConcatProperties
<1>2. a = b
  BY <1>1, SeqEqual
<1>3. Len(s) = Len(t)
  BY ConcatProperties
<1>4. ASSUME NEW k \in 1..Len(s) PROVE s[k] = t[k]
  <2> DEFINE j == Len(a) + k
  <2>1. /\ j \in 1..(Len(a) + Len(s)) /\ j \in 1..(Len(b) + Len(t))
        /\ j > Len(a) /\ j > Len(b) /\ j - Len(a) = k /\ j - Len(b) = k
    BY <1>3, LenProperties
  <2> HIDE DEF j
  <2>2. (a \o s)[j] = s[k]
    <3>1. \A i \in 1..(Len(a) + Len(s)) :
            (a \o s)[i] = IF i <= Len(a) THEN a[i] ELSE s[i - Len(a)]
      BY ConcatProperties
    <3>2. (a \o s)[j] = IF j <= Len(a) THEN a[j] ELSE s[j - Len(a)]
      BY <2>1, <3>1
    <3> QED
      BY <2>1, <3>2
  <2>3. (b \o t)[j] = t[k]
    <3>1. \A i \in 1..(Len(b) + Len(t)) :
            (b \o t)[i] = IF i <= Len(b) THEN b[i] ELSE t[i - Len(b)]
      BY ConcatProperties
    <3>2. (b \o t)[j] = IF j <= Len(b) THEN b[j] ELSE t[j - Len(b)]
      BY <2>1, <3>1
    <3> QED
      BY <2>1, <3>2
  <2> QED
    BY <2>2, <2>3
<1>5. s = t
  BY <1>3, <1>4, SeqEqual
<1> QED
  BY <1>2, <1>5

Bar == "|"

(* A field after the last mark is no longer than another. *)
LEMMA LastNotLonger ==
    ASSUME NEW C, NEW B, B \subseteq C, Bar \in C \ B, NEW x \in Seq(C), NEW y \in Seq(C),
           NEW f \in Seq(B), NEW g \in Seq(B),
           (x \o <<Bar>>) \o f = (y \o <<Bar>>) \o g
    PROVE  ~(Len(f) < Len(g))
<1> SUFFICES ASSUME Len(f) < Len(g) PROVE FALSE
  OBVIOUS
<1> DEFINE z == <<Bar>>
<1>1. z \in Seq(C) /\ Len(z) = 1 /\ z[1] = Bar
  OBVIOUS
<1>2. f \in Seq(C) /\ g \in Seq(C)
  BY SeqMonotonic
<1>3. /\ Len(x) \in Nat /\ Len(y) \in Nat /\ Len(f) \in Nat /\ Len(g) \in Nat
      /\ \A k \in 1..Len(g) : g[k] \in B
  BY LenProperties, ElementOfSeq
<1> HIDE DEF z
<1> DEFINE u == x \o z
           v == y \o z
           k == Len(x) + 1
<1>4. /\ u \in Seq(C) /\ Len(u) = k /\ u[k] = Bar
      /\ v \in Seq(C) /\ Len(v) = Len(y) + 1
  <2>1. /\ x \o z \in Seq(C) /\ Len(x \o z) = Len(x) + Len(z)
        /\ \A i \in 1..(Len(x) + Len(z)) :
             (x \o z)[i] = IF i <= Len(x) THEN x[i] ELSE z[i - Len(x)]
        /\ y \o z \in Seq(C) /\ Len(y \o z) = Len(y) + Len(z)
    BY <1>1, ConcatProperties
  <2>2. k \in 1..(Len(x) + Len(z)) /\ ~(k <= Len(x)) /\ k - Len(x) = 1
    BY <1>1, <1>3
  <2> QED
    BY <1>1, <2>1, <2>2
<1>5. u \o f = v \o g
  BY DEF z
<1> HIDE DEF u, v, k
<1>6. /\ Len(u \o f) = Len(u) + Len(f)
      /\ \A i \in 1..(Len(u) + Len(f)) :
           (u \o f)[i] = IF i <= Len(u) THEN u[i] ELSE f[i - Len(u)]
  <2>1. u \in Seq(C) /\ f \in Seq(C)
    BY <1>2, <1>4
  <2> QED
    BY <2>1, ConcatProperties
<1>7. /\ Len(v \o g) = Len(v) + Len(g)
       /\ \A i \in 1..(Len(v) + Len(g)) :
            (v \o g)[i] = IF i <= Len(v) THEN v[i] ELSE g[i - Len(v)]
  <2>1. v \in Seq(C) /\ g \in Seq(C)
    BY <1>2, <1>4
  <2> QED
    BY <2>1, ConcatProperties
<1>8. Len(u) + Len(f) = Len(v) + Len(g)
  BY <1>5, <1>6, <1>7
<1>9. /\ k \in 1..(Len(u) + Len(f)) /\ k <= Len(u)
      /\ k \in 1..(Len(v) + Len(g)) /\ ~(k <= Len(v)) /\ k - Len(v) \in 1..Len(g)
  BY <1>3, <1>4, <1>8 DEF k
<1>10. Bar = g[k - Len(v)]
  BY <1>4, <1>5, <1>6, <1>9, <1>7
<1> QED
  BY <1>3, <1>9, <1>10

(* So a text is cut at its last mark in one way.                           *)
LEMMA LastOnce ==
    ASSUME NEW C, NEW B, B \subseteq C, Bar \in C \ B, NEW x \in Seq(C), NEW y \in Seq(C),
           NEW f \in Seq(B), NEW g \in Seq(B),
           (x \o <<Bar>>) \o f = (y \o <<Bar>>) \o g
    PROVE  x = y /\ f = g
<1>1. ~(Len(f) < Len(g)) /\ ~(Len(g) < Len(f))
  BY LastNotLonger
<1>2. Len(f) \in Nat /\ Len(g) \in Nat /\ Len(x) \in Nat /\ Len(y) \in Nat
  BY LenProperties
<1>3. f \in Seq(C) /\ g \in Seq(C) /\ <<Bar>> \in Seq(C) /\ Len(<<Bar>>) = 1
  BY SeqMonotonic
<1> DEFINE z == <<Bar>>
           u == x \o z
           v == y \o z
<1> HIDE DEF z
<1>4. /\ u \in Seq(C) /\ v \in Seq(C) /\ Len(u) = Len(x) + 1 /\ Len(v) = Len(y) + 1
  BY <1>3, ConcatProperties DEF z
<1>5. u \o f = v \o g
  BY DEF z
<1> HIDE DEF u, v
<1>6. Len(u) = Len(v)
  <2>1. Len(u \o f) = Len(u) + Len(f) /\ Len(v \o g) = Len(v) + Len(g)
    BY <1>3, <1>4, ConcatProperties
  <2> QED
    BY <1>1, <1>2, <1>4, <1>5, <2>1
<1>7. u = v /\ f = g
  BY <1>3, <1>4, <1>5, <1>6, ConcatOnce
<1>8. x \o z = y \o z /\ Len(x) = Len(y)
  BY <1>2, <1>4, <1>6, <1>7 DEF u, v
<1>9. x = y
  <2>1. z \in Seq(C)
    BY <1>3 DEF z
  <2> QED
    BY <1>8, <2>1, ConcatOnce
<1> QED
  BY <1>7, <1>9

(* A field after a mark. *)
Marked(x, y) == x \o <<Bar>> \o y

Apart(B, C) ==
    /\ \A x \in Seq(C), y \in Seq(B) : Marked(x, y) \in Seq(C)
    /\ \A x \in Seq(C), y \in Seq(C), f \in Seq(B), g \in Seq(B) :
         Marked(x, f) = Marked(y, g) => x = y /\ f = g

LEMMA MarkedAre ==
    ASSUME NEW C, NEW B, B \subseteq C, Bar \in C \ B
    PROVE  Apart(B, C)
<1>1. ASSUME NEW x \in Seq(C), NEW y \in Seq(B) PROVE Marked(x, y) \in Seq(C)
  <2> DEFINE z == <<Bar>>
  <2>1. z \in Seq(C) /\ y \in Seq(C)
    BY SeqMonotonic
  <2>2. Marked(x, y) = (x \o z) \o y
    BY DEF Marked
  <2> HIDE DEF z
  <2>3. x \o z \in Seq(C)
    BY <2>1, ConcatProperties
  <2> QED
    BY <2>1, <2>2, <2>3, ConcatProperties
<1>2. ASSUME NEW x \in Seq(C), NEW y \in Seq(C), NEW f \in Seq(B), NEW g \in Seq(B),
             Marked(x, f) = Marked(y, g)
      PROVE  x = y /\ f = g
  BY <1>2, LastOnce DEF Marked
<1> QED
  BY <1>1, <1>2 DEF Apart
-----------------------------------------------------------------------------
(* A challenge as it is made *)

Barless ==
    {"movement", "charge", "session", "minute", "soon", "sha-256=", "d", "o"}
        \union Payments

Basic == Fixed \union Barless \union {Bar} \union {s.secret : s \in Servers}

(* What a challenge of a server is written with, but for a description. *)
Visibles(s) == Basic \union Wire!ToSet(s.realm)

Times == Seq({"minute", "soon"}) \ {<< >>}

(* The fields that are in an id have no mark between fields. *)
Plain(b) ==
    /\ b.method \in Seq(Barless) /\ b.intent \in Seq(Barless)
    /\ b.request \in Seq(Barless) /\ Wire!Given(b.expires) \in Seq(Barless)
    /\ Wire!Given(b.digest) \in Seq(Barless) /\ Wire!Given(b.opaque) \in Seq(Barless)

LinesOf(realm, b) ==
    Marked(Marked(Marked(Marked(Marked(Marked(realm, b.method), b.intent), b.request),
                         Wire!Given(b.expires)), Wire!Given(b.digest)),
           Wire!Given(b.opaque))

IdOf(s, b) == <<s.secret>> \o LinesOf(s.realm, b)

Symbolic(s, c) == Visibles(s) \union Wire!ToSet(Wire!Given(c.description))

Made(s, c) ==
    /\ c \in Challenges(Symbolic(s, c)) /\ Visible(Visibles(s), c)
    /\ c.realm = s.realm /\ c.method = <<"movement">>
    /\ c.intent \in {<<"charge">>, <<"session">>}
    /\ Plain(c) /\ \E b : Plain(b) /\ c.id = IdOf(s, b)
    /\ c.id # << >> /\ c.request # << >>
    /\ Wire!Some(<< >>) \notin {c.expires, c.digest, c.opaque}

LEMMA VisiblesAre ==
    ASSUME Wire!WireAssumption, NEW s \in Servers
    PROVE  /\ Fixed \subseteq Visibles(s) /\ Barless \subseteq Visibles(s)
           /\ Bar \in Visibles(s) \ Barless /\ s.secret \in Visibles(s)
           /\ s.realm \in Seq(Visibles(s)) /\ s.realm # << >>
           /\ Visibles(s) \cap Wire!Foreign = {}
           /\ Basic \cap (Wire!Control \union Wire!Foreign) = {}
<1>1. /\ s.realm \in Seq(Wire!ToSet(s.realm)) /\ s.realm # << >>
      /\ Wire!ToSet(s.realm) \cap Wire!Foreign = {}
      /\ Payments \cap ({"|"} \union Wire!Control \union Wire!Foreign) = {}
      /\ \A t \in Servers : t.secret \notin Wire!Control \union Wire!Foreign
  BY DEF Wire!WireAssumption
<1>2. /\ Fixed \cap (Wire!Control \union Wire!Foreign) = {}
      /\ Barless \cap (Wire!Control \union Wire!Foreign) = {}
      /\ Bar \notin Wire!Control \union Wire!Foreign /\ Bar \notin Barless
  BY <1>1 DEF Fixed, Names, Barless, Bar, Wire!Control, Wire!Foreign, Wire!LineBreak
<1>3. Wire!ToSet(s.realm) \subseteq Visibles(s)
  BY DEF Visibles
<1>4. s.realm \in Seq(Visibles(s))
  BY <1>1, <1>3, SeqMonotonic
<1>5. Basic \cap (Wire!Control \union Wire!Foreign) = {}
  BY <1>1, <1>2 DEF Basic
<1>6. Visibles(s) \cap Wire!Foreign = {}
  BY <1>1, <1>5 DEF Visibles
<1>7. /\ Fixed \subseteq Visibles(s) /\ Barless \subseteq Visibles(s)
      /\ Bar \in Visibles(s) /\ s.secret \in Visibles(s)
  BY DEF Visibles, Basic
<1> QED
  BY <1>1, <1>2, <1>4, <1>5, <1>6, <1>7

(* The fields do not run into each other. *)
LEMMA LinesOfAre ==
    ASSUME NEW C, Barless \subseteq C, Bar \in C \ Barless,
           NEW r \in Seq(C), NEW b, Plain(b), NEW r2 \in Seq(C), NEW d, Plain(d)
    PROVE  /\ LinesOf(r, b) \in Seq(C)
           /\ LinesOf(r, b) = LinesOf(r2, d) => r = r2
<1> DEFINE m == b.method
           i == b.intent
           q == b.request
           e == Wire!Given(b.expires)
           g == Wire!Given(b.digest)
           o == Wire!Given(b.opaque)
           m2 == d.method
           i2 == d.intent
           q2 == d.request
           e2 == Wire!Given(d.expires)
           g2 == Wire!Given(d.digest)
           o2 == Wire!Given(d.opaque)
           a1 == Marked(r, m)
           a2 == Marked(a1, i)
           a3 == Marked(a2, q)
           a4 == Marked(a3, e)
           a5 == Marked(a4, g)
           b1 == Marked(r2, m2)
           b2 == Marked(b1, i2)
           b3 == Marked(b2, q2)
           b4 == Marked(b3, e2)
           b5 == Marked(b4, g2)
<1>1. /\ m \in Seq(Barless) /\ i \in Seq(Barless) /\ q \in Seq(Barless)
      /\ e \in Seq(Barless) /\ g \in Seq(Barless) /\ o \in Seq(Barless)
      /\ m2 \in Seq(Barless) /\ i2 \in Seq(Barless) /\ q2 \in Seq(Barless)
      /\ e2 \in Seq(Barless) /\ g2 \in Seq(Barless) /\ o2 \in Seq(Barless)
  BY DEF Plain
<1>2. LinesOf(r, b) = Marked(a5, o) /\ LinesOf(r2, d) = Marked(b5, o2)
  BY DEF LinesOf
<1>3. Apart(Barless, C)
  BY MarkedAre
<1> HIDE DEF m, i, q, e, g, o, m2, i2, q2, e2, g2, o2
<1>4. a1 \in Seq(C) /\ b1 \in Seq(C) /\ (a1 = b1 => r = r2)
  BY <1>1, <1>3 DEF Apart
<1> HIDE DEF a1, b1
<1>5. a2 \in Seq(C) /\ b2 \in Seq(C) /\ (a2 = b2 => a1 = b1)
  BY <1>1, <1>3, <1>4 DEF Apart
<1> HIDE DEF a2, b2
<1>6. a3 \in Seq(C) /\ b3 \in Seq(C) /\ (a3 = b3 => a2 = b2)
  BY <1>1, <1>3, <1>5 DEF Apart
<1> HIDE DEF a3, b3
<1>7. a4 \in Seq(C) /\ b4 \in Seq(C) /\ (a4 = b4 => a3 = b3)
  BY <1>1, <1>3, <1>6 DEF Apart
<1> HIDE DEF a4, b4
<1>8. a5 \in Seq(C) /\ b5 \in Seq(C) /\ (a5 = b5 => a4 = b4)
  BY <1>1, <1>3, <1>7 DEF Apart
<1> HIDE DEF a5, b5
<1>9. Marked(a5, o) \in Seq(C) /\ (Marked(a5, o) = Marked(b5, o2) => a5 = b5)
  BY <1>1, <1>3, <1>8 DEF Apart
<1> QED
  BY <1>2, <1>4, <1>5, <1>6, <1>7, <1>8, <1>9

LEMMA IdType ==
    ASSUME Wire!WireAssumption, NEW s \in Servers, NEW b, Plain(b)
    PROVE  IdOf(s, b) \in Seq(Visibles(s)) /\ IdOf(s, b) # << >>
<1> DEFINE l == LinesOf(s.realm, b)
           h == <<s.secret>>
<1>1. Bar \in Visibles(s) \ Barless /\ Barless \subseteq Visibles(s)
      /\ s.realm \in Seq(Visibles(s)) /\ s.secret \in Visibles(s)
  BY VisiblesAre
<1>2. l \in Seq(Visibles(s))
  BY <1>1, LinesOfAre
<1>3. h \in Seq(Visibles(s)) /\ Len(h) = 1
  BY <1>1
<1> HIDE DEF l, h
<1>4. h \o l \in Seq(Visibles(s)) /\ Len(h \o l) = Len(h) + Len(l) /\ Len(l) \in Nat
  BY <1>2, <1>3, ConcatProperties, LenProperties
<1>5. h \o l # << >>
  <2>1. Len(h \o l) # 0
    BY <1>3, <1>4
  <2> QED
    BY <2>1, EmptySeq
<1> QED
  BY <1>4, <1>5 DEF IdOf, l, h

(* No two servers, and no two challenges, have an id in common. *)
LEMMA IdOnce ==
    ASSUME Wire!WireAssumption, NEW s \in Servers, NEW t \in Servers,
           NEW b, Plain(b), NEW d, Plain(d), IdOf(s, b) = IdOf(t, d)
    PROVE  s = t
<1> DEFINE C == Visibles(s) \union Visibles(t)
           l == LinesOf(s.realm, b)
           k == LinesOf(t.realm, d)
           h == <<s.secret>>
           g == <<t.secret>>
<1>1. /\ Bar \in C \ Barless /\ Barless \subseteq C
      /\ s.realm \in Seq(C) /\ s.secret \in C /\ t.realm \in Seq(C) /\ t.secret \in C
  <2>1. /\ Bar \in Visibles(s) \ Barless /\ Barless \subseteq Visibles(s)
        /\ s.realm \in Seq(Visibles(s)) /\ s.secret \in Visibles(s)
        /\ t.realm \in Seq(Visibles(t)) /\ t.secret \in Visibles(t)
    BY VisiblesAre
  <2>2. s.realm \in Seq(C) /\ t.realm \in Seq(C)
    <3>1. Visibles(s) \subseteq C /\ Visibles(t) \subseteq C
      OBVIOUS
    <3> HIDE DEF C
    <3> QED
      BY <2>1, <3>1, SeqMonotonic
  <2> QED
    BY <2>1, <2>2
<1> HIDE DEF C
<1>2. /\ l \in Seq(C) /\ k \in Seq(C)
      /\ l = k => s.realm = t.realm
  <2>1. l \in Seq(C) /\ (l = k => s.realm = t.realm)
    BY <1>1, LinesOfAre
  <2>2. k \in Seq(C)
    BY <1>1, LinesOfAre
  <2> QED
    BY <2>1, <2>2
<1>3. h \in Seq(C) /\ g \in Seq(C) /\ Len(h) = 1 /\ Len(g) = 1 /\ h[1] = s.secret
      /\ g[1] = t.secret
  BY <1>1
<1>4. h \o l = g \o k
  BY DEF IdOf
<1> HIDE DEF l, k, h, g
<1>5. h = g /\ l = k
  BY <1>2, <1>3, <1>4, ConcatOnce
<1>6. s.secret = t.secret /\ s.realm = t.realm
  BY <1>2, <1>3, <1>5
<1>7. /\ s = [secret |-> s.secret, realm |-> s.realm]
      /\ t = [secret |-> t.secret, realm |-> t.realm]
  BY DEF Wire!WireAssumption
<1> QED
  BY <1>6, <1>7

Complete(c) ==
    c = [id |-> c.id, realm |-> c.realm, method |-> c.method, intent |-> c.intent,
         request |-> c.request, expires |-> c.expires, description |-> c.description,
         digest |-> c.digest, opaque |-> c.opaque]

LEMMA ComputeIs ==
    ASSUME NEW s, NEW c
    PROVE  /\ Complete(c) => Wire!ComputeChallengeId(s.secret, s.realm, c) = IdOf(s, c)
           /\ Wire!ComputeChallengeId(s.secret, s.realm, Wire!Echo(c)) = IdOf(s, c)
<1> DEFINE J(x) == x.realm \o <<"|">> \o x.method \o <<"|">> \o x.intent \o <<"|">>
                     \o x.request \o <<"|">> \o Wire!Given(x.expires) \o <<"|">>
                     \o Wire!Given(x.digest) \o <<"|">> \o Wire!Given(x.opaque)
           SameFields(x) ==
             /\ x.realm = s.realm /\ x.method = c.method /\ x.intent = c.intent
             /\ x.request = c.request /\ x.expires = c.expires
             /\ x.digest = c.digest /\ x.opaque = c.opaque
<1>1. ASSUME NEW x, SameFields(x)
      PROVE  <<s.secret>> \o Wire!Joined(x) = IdOf(s, c)
  BY <1>1 DEF Wire!Joined, IdOf, LinesOf, Marked, Bar
<1>2. Complete(c) => SameFields([c EXCEPT !.realm = s.realm])
  <2> SUFFICES ASSUME Complete(c) PROVE SameFields([c EXCEPT !.realm = s.realm])
    OBVIOUS
  <2> DEFINE id == c.id
             realm == c.realm
             manner == c.method
             intent == c.intent
             asked == c.request
             expires == c.expires
             description == c.description
             digest == c.digest
             opaque == c.opaque
  <2>1. c = [id |-> id, realm |-> realm, method |-> manner, intent |-> intent,
             request |-> asked, expires |-> expires, description |-> description,
             digest |-> digest, opaque |-> opaque]
    BY DEF Complete
  <2> HIDE DEF id, realm, manner, intent, asked, expires, description, digest, opaque
  <2> QED
    BY <2>1
<1>3. SameFields([Wire!Echo(c) EXCEPT !.realm = s.realm])
  BY DEF Wire!Echo
<1> HIDE DEF SameFields
<1> QED
  BY <1>1, <1>2, <1>3 DEF Wire!ComputeChallengeId

Dates == Wire!Expiries \union {Wire!Some(Wire!Moment(t)) : t \in Nat}

(* A moment is a text without a mark, and not empty.                       *)
LEMMA MomentIs ==
    ASSUME NEW t \in Nat
    PROVE  Wire!Moment(t) \in Seq(Barless) /\ Wire!Moment(t) # << >>
<1> DEFINE w == "minute"
<1>1. w \in Barless
  BY DEF Barless
<1>2. Wire!Moment(t) = [k \in 1..(t + 1) |-> w]
  BY DEF Wire!Moment
<1> HIDE DEF w
<1> DEFINE f == [k \in 1..(t + 1) |-> w]
<1>3. f \in [1..(t + 1) -> Barless] /\ t + 1 \in Nat
  BY <1>1
<1>4. f \in Seq(Barless) /\ Len(f) = t + 1
  BY <1>3, SeqDef, LenProperties
<1>5. f # << >>
  BY <1>4, EmptySeq
<1> QED
  BY <1>2, <1>4, <1>5

(* What is given is a text, and none that is empty. *)
Worded(o) == o \in Option(Seq(Barless)) /\ o # Wire!Some(<< >>)

LEMMA WordedIs ==
    /\ \A o : Worded(o) => Wire!Given(o) \in Seq(Barless)
    /\ Worded(Wire!None)
    /\ \A t \in Seq(Barless) \ {<< >>} : Worded(Wire!Some(t))
<1>1. ASSUME NEW o, Worded(o) PROVE Wire!Given(o) \in Seq(Barless)
  <2>1. CASE o = Wire!None
    BY <2>1, EmptySeq DEF Wire!Given
  <2>2. CASE o # Wire!None
    BY <1>1, <2>2, OptionIs DEF Wire!Given, Worded
  <2> QED
    BY <2>1, <2>2
<1>2. Worded(Wire!None)
  BY OptionIs DEF Worded
<1>3. ASSUME NEW t \in Seq(Barless) \ {<< >>} PROVE Worded(Wire!Some(t))
  <2>1. Wire!Some(t) # Wire!Some(<< >>)
    BY OptionIs
  <2> QED
    BY <2>1, OptionIs DEF Worded
<1> QED
  BY <1>1, <1>2, <1>3

LEMMA WordsAre ==
    ASSUME NEW a \in Barless, NEW b \in Barless
    PROVE  /\ <<a>> \in Seq(Barless) \ {<< >>} /\ <<a, b>> \in Seq(Barless) \ {<< >>}
OBVIOUS

(* The expiries, digests and opaque values that are combined.              *)
LEMMA OptionsAre ==
    /\ \A o \in Dates : Worded(o)
    /\ \A o \in Wire!Digests : Worded(o)
    /\ \A o \in Wire!Opaques : Worded(o)
<1> DEFINE soon == "soon"
           sha == "sha-256="
           d == "d"
           x == "o"
<1>1. soon \in Barless /\ sha \in Barless /\ d \in Barless /\ x \in Barless
  BY DEF Barless
<1>2. /\ Wire!Expiries = {Wire!None, Wire!Some(Wire!Moment(1)), Wire!Some(Wire!Moment(2)),
                         Wire!Some(<<soon>>)}
      /\ Wire!Digests = {Wire!None, Wire!Some(<<sha, d>>), Wire!Some(<<d>>)}
      /\ Wire!Opaques = {Wire!None, Wire!Some(<<x>>)}
  BY DEF Wire!Expiries, Wire!Digests, Wire!Opaques
<1> HIDE DEF soon, sha, d, x
<1>3. /\ Worded(Wire!Some(<<soon>>)) /\ Worded(Wire!Some(<<sha, d>>))
      /\ Worded(Wire!Some(<<d>>)) /\ Worded(Wire!Some(<<x>>))
  BY <1>1, WordedIs, WordsAre
<1>4. ASSUME NEW t \in Nat PROVE Worded(Wire!Some(Wire!Moment(t)))
  BY WordedIs, MomentIs
<1>5. Worded(Wire!Some(Wire!Moment(1))) /\ Worded(Wire!Some(Wire!Moment(2)))
  BY <1>4
<1> QED
  BY <1>2, <1>3, <1>4, <1>5, WordedIs DEF Dates

LEMMA TextIs ==
    ASSUME NEW S, NEW t \in Seq(S)
    PROVE  t \in Seq(Wire!ToSet(t)) /\ \A k \in 1..Len(t) : t[k] \in Wire!ToSet(t)
<1>1. /\ Len(t) \in Nat /\ DOMAIN t = 1..Len(t) /\ t \in [1..Len(t) -> S]
  BY LenProperties
<1>2. \A k \in 1..Len(t) : t[k] \in Wire!ToSet(t)
  BY <1>1 DEF Wire!ToSet
<1>3. t \in [1..Len(t) -> Wire!ToSet(t)]
  BY <1>1, <1>2
<1>4. t \in Seq(Wire!ToSet(t))
  BY <1>1, <1>3, SeqDef
<1> QED
  BY <1>2, <1>4
(* A challenge of the fields given to it. *)
Filled(s, id, intent, asked, expires, description, digest, opaque) ==
    [id |-> id, realm |-> s.realm, method |-> <<"movement">>, intent |-> <<intent>>,
     request |-> <<asked>>, expires |-> expires, description |-> description,
     digest |-> digest, opaque |-> opaque]

Described == {Wire!None} \union {Wire!Some(t) : t \in Seq(Symbols)}

LEMMA FilledIsPlain ==
    ASSUME NEW s, NEW id, NEW intent \in {"charge", "session"}, NEW asked \in Payments,
           NEW expires \in Dates, NEW description, NEW digest \in Wire!Digests,
           NEW opaque \in Wire!Opaques
    PROVE  Plain(Filled(s, id, intent, asked, expires, description, digest, opaque))
<1> DEFINE m == "movement"
           f == Filled(s, id, intent, asked, expires, description, digest, opaque)
<1>1. m \in Barless /\ intent \in Barless /\ asked \in Barless
  BY DEF Barless
<1>2. /\ f.method = <<m>> /\ f.intent = <<intent>> /\ f.request = <<asked>>
      /\ f.expires = expires /\ f.digest = digest /\ f.opaque = opaque
  BY DEF Filled
<1> HIDE DEF m, f
<1>3. f.method \in Seq(Barless) /\ f.intent \in Seq(Barless) /\ f.request \in Seq(Barless)
  BY <1>1, <1>2, WordsAre
<1>4. /\ Wire!Given(expires) \in Seq(Barless) /\ Wire!Given(digest) \in Seq(Barless)
      /\ Wire!Given(opaque) \in Seq(Barless)
  BY OptionsAre, WordedIs
<1> QED
  BY <1>2, <1>3, <1>4 DEF Plain, f

(* A challenge of fields as the constructors get them is one of Made.      *)
LEMMA FilledIsMade ==
    ASSUME Wire!WireAssumption, NEW s \in Servers, NEW b, Plain(b),
           NEW intent \in {"charge", "session"}, NEW asked \in Payments,
           NEW expires \in Dates, NEW description \in Described,
           NEW digest \in Wire!Digests, NEW opaque \in Wire!Opaques
    PROVE  Made(s, Filled(s, IdOf(s, b), intent, asked, expires, description,
                          digest, opaque))
<1> DEFINE c == Filled(s, IdOf(s, b), intent, asked, expires, description, digest, opaque)
           A == Visibles(s)
           C == Symbolic(s, c)
           m == "movement"
           n == <<m>>
           i == <<intent>>
           r == <<asked>>
           id == IdOf(s, b)
<1>1. /\ c.id = id /\ c.realm = s.realm /\ c.method = n /\ c.intent = i
      /\ c.request = r /\ c.expires = expires /\ c.description = description
      /\ c.digest = digest /\ c.opaque = opaque
      /\ c = [id |-> id, realm |-> s.realm, method |-> n, intent |-> i, request |-> r,
              expires |-> expires, description |-> description, digest |-> digest,
              opaque |-> opaque]
      /\ [c EXCEPT !.description = Wire!None]
           = [id |-> id, realm |-> s.realm, method |-> n, intent |-> i, request |-> r,
              expires |-> expires, description |-> Wire!None, digest |-> digest,
              opaque |-> opaque]
  <2> HIDE DEF n, i, r, id
  <2>1. c = [id |-> id, realm |-> s.realm, method |-> n, intent |-> i, request |-> r,
              expires |-> expires, description |-> description, digest |-> digest,
              opaque |-> opaque]
    BY DEF Filled, n, i, r, id, m
  <2> HIDE DEF c
  <2> QED
    BY <2>1
<1>2. id \in Seq(A) /\ id # << >> /\ Barless \subseteq A /\ s.realm \in Seq(A)
  BY IdType, VisiblesAre
<1>3. n \in Seq(Barless) /\ i \in Seq(Barless) /\ r \in Seq(Barless) /\ r # << >>
  <2>1. m \in Barless /\ intent \in Barless /\ asked \in Barless
    BY DEF Barless
  <2> HIDE DEF m
  <2> QED
    BY <2>1, WordsAre
<1>4. Worded(expires) /\ Worded(digest) /\ Worded(opaque)
  BY OptionsAre
<1>5. Plain(c)
  BY FilledIsPlain
<1>6. A \subseteq C /\ Wire!ToSet(Wire!Given(description)) \subseteq C
  BY <1>1 DEF Symbolic
<1>7. i \in {<<"charge">>, <<"session">>} /\ n = <<"movement">>
  OBVIOUS
<1> HIDE DEF n, i, r, id, m, c, A, C
<1>8. /\ n \in Seq(A) /\ i \in Seq(A) /\ r \in Seq(A)
      /\ expires \in Option(Seq(A)) /\ digest \in Option(Seq(A))
      /\ opaque \in Option(Seq(A)) /\ Wire!None \in Option(Seq(A))
  <2>1. Seq(Barless) \subseteq Seq(A)
    BY <1>2, SeqMonotonic
  <2>2. Option(Seq(Barless)) \subseteq Option(Seq(A))
    BY <2>1 DEF Option
  <2> QED
    BY <1>3, <1>4, <2>1, <2>2, OptionIs DEF Worded
<1>9. Seq(A) \subseteq Seq(C) /\ Option(Seq(A)) \subseteq Option(Seq(C))
  <2>1. Seq(A) \subseteq Seq(C)
    BY <1>6, SeqMonotonic
  <2> QED
    BY <2>1 DEF Option
<1>10. description \in Option(Seq(C))
  <2>1. CASE description = Wire!None
    BY <2>1, OptionIs
  <2>2. CASE description # Wire!None
    <3>1. PICK t \in Seq(Symbols) : description = Wire!Some(t)
      BY <2>2 DEF Described
    <3>2. Wire!Given(description) = t
      BY <2>2, <3>1, OptionIs DEF Wire!Given
    <3>3. t \in Seq(Wire!ToSet(t))
      BY TextIs
    <3>4. t \in Seq(C)
      BY <1>6, <3>2, <3>3, SeqMonotonic
    <3> QED
      BY <3>1, <3>4, OptionIs
  <2> QED
    BY <2>1, <2>2
<1>11. c \in Challenges(C)
  BY <1>1, <1>2, <1>8, <1>9, <1>10 DEF Challenges
<1>12. Visible(A, c)
  BY <1>1, <1>2, <1>8 DEF Challenges, Visible
<1>13. Wire!Some(<< >>) \notin {expires, digest, opaque}
  BY <1>4 DEF Worded
<1>14. \E d : Plain(d) /\ id = IdOf(s, d)
  BY DEF id
<1>15. /\ c \in Challenges(Symbolic(s, c)) /\ Visible(Visibles(s), c) /\ Plain(c)
  BY <1>5, <1>11, <1>12 DEF A, C
<1> QED
  BY <1>1, <1>2, <1>3, <1>7, <1>13, <1>14, <1>15 DEF Made, c

LEMMA WithIdIs ==
    ASSUME NEW s, NEW b, Complete(b), NEW intent, NEW asked, NEW expires,
           NEW description, NEW digest, NEW opaque
    PROVE  Wire!WithId(s, Filled(s, << >>, intent, asked, expires, description,
                                 digest, opaque), b)
             = Filled(s, IdOf(s, b), intent, asked, expires, description, digest, opaque)
<1> DEFINE id == IdOf(s, b)
<1>1. Wire!ComputeChallengeId(s.secret, s.realm, b) = id
  BY ComputeIs
<1> HIDE DEF id
<1> QED
  BY <1>1 DEF Wire!WithId, Filled, id

LEMMA FilledIsComplete ==
    ASSUME NEW s, NEW id, NEW intent, NEW asked, NEW expires, NEW description,
           NEW digest, NEW opaque
    PROVE  Complete(Filled(s, id, intent, asked, expires, description, digest, opaque))
BY DEF Filled, Complete

Dated(c, expires, description) == [c EXCEPT !.expires = expires, !.description = description]

Opted(c, expires, digest, opaque) ==
    [c EXCEPT !.expires = expires, !.digest = digest, !.opaque = opaque]

LEMMA BareIs ==
    ASSUME NEW s, NEW intent, NEW asked, NEW expires, NEW description, NEW digest, NEW opaque
    PROVE  /\ Wire!Bare(s, intent, asked)
                = Filled(s, << >>, intent, asked, Wire!None, Wire!None, Wire!None, Wire!None)
           /\ Dated(Wire!Bare(s, intent, asked), expires, description)
                = Filled(s, << >>, intent, asked, expires, description, Wire!None, Wire!None)
           /\ Opted(Wire!Bare(s, intent, asked), expires, digest, opaque)
                = Filled(s, << >>, intent, asked, expires, Wire!None, digest, opaque)
<1> DEFINE bare == Wire!Bare(s, intent, asked)
           m == <<"movement">>
           i == <<intent>>
           q == <<asked>>
           none == Wire!None
           empty == << >>
           realm == s.realm
<1>1. bare = [id |-> empty, realm |-> realm, method |-> m, intent |-> i, request |-> q,
              expires |-> none, description |-> none, digest |-> none, opaque |-> none]
  BY DEF Wire!Bare
<1>2. \A e, d, g, o :
        Filled(s, empty, intent, asked, e, d, g, o)
          = [id |-> empty, realm |-> realm, method |-> m, intent |-> i, request |-> q,
             expires |-> e, description |-> d, digest |-> g, opaque |-> o]
  BY DEF Filled
<1> HIDE DEF bare, m, i, q, none, empty, realm
<1>3. bare = Filled(s, empty, intent, asked, none, none, none, none)
  BY <1>1, <1>2
<1> DEFINE x == [bare EXCEPT !.expires = expires]
           y == [x EXCEPT !.digest = digest]
<1>4. x = [id |-> empty, realm |-> realm, method |-> m, intent |-> i, request |-> q,
           expires |-> expires, description |-> none, digest |-> none, opaque |-> none]
  BY <1>1
<1>5. /\ Dated(bare, expires, description) = [x EXCEPT !.description = description]
      /\ Opted(bare, expires, digest, opaque) = [y EXCEPT !.opaque = opaque]
  BY DEF Dated, Opted
<1> HIDE DEF x
<1>6. y = [id |-> empty, realm |-> realm, method |-> m, intent |-> i, request |-> q,
           expires |-> expires, description |-> none, digest |-> digest, opaque |-> none]
  BY <1>4
<1>7. [x EXCEPT !.description = description]
        = Filled(s, empty, intent, asked, expires, description, none, none)
  <2> DEFINE u == [x EXCEPT !.description = description]
  <2>1. u = [id |-> empty, realm |-> realm, method |-> m, intent |-> i, request |-> q,
             expires |-> expires, description |-> description, digest |-> none,
             opaque |-> none]
    BY <1>4
  <2> HIDE DEF u
  <2> QED
    BY <1>2, <2>1 DEF u
<1> HIDE DEF y
<1>8. [y EXCEPT !.opaque = opaque]
        = Filled(s, empty, intent, asked, expires, none, digest, opaque)
  <2> DEFINE u == [y EXCEPT !.opaque = opaque]
  <2>1. u = [id |-> empty, realm |-> realm, method |-> m, intent |-> i, request |-> q,
             expires |-> expires, description |-> none, digest |-> digest,
             opaque |-> opaque]
    BY <1>6
  <2> HIDE DEF u
  <2> QED
    BY <1>2, <2>1 DEF u
<1> QED
  BY <1>3, <1>5, <1>7, <1>8 DEF bare, none, empty

(* Whatever of the constructors made it. *)
LEMMA ConstructedIsMade ==
    ASSUME Wire!WireAssumption, clock \in Nat, NEW s \in Servers, NEW asked \in Payments
    PROVE  /\ \A intent \in {"charge", "session"}, expires \in Wire!Expiries :
                Made(s, Wire!Offered(s, intent, asked, expires, Wire!None))
           /\ \A text \in Seq(Symbols) :
                Made(s, Wire!Offered(s, "charge", asked, Wire!None, Wire!Some(text)))
           /\ \A expires \in Wire!Expiries, digest \in Wire!Digests, opaque \in Wire!Opaques :
                /\ Made(s, Wire!Full(s, asked, expires, digest, opaque))
                /\ Made(s, Wire!SetAfterwards(s, asked, expires, digest, opaque))
<1>1. Lifetime \in Nat /\ clock + Lifetime \in Nat
  BY DEF Wire!WireAssumption
<1>2. /\ Wire!Expiries \subseteq Dates /\ Wire!None \in Wire!Expiries
      /\ Wire!Some(Wire!Moment(clock + Lifetime)) \in Dates
      /\ Wire!None \in Wire!Digests /\ Wire!None \in Wire!Opaques
      /\ Wire!None \in Described /\ \A t \in Seq(Symbols) : Wire!Some(t) \in Described
  BY <1>1 DEF Dates, Wire!Expiries, Wire!Digests, Wire!Opaques, Described
<1>3. ASSUME NEW intent \in {"charge", "session"}, NEW expires \in Dates,
             NEW description \in Described, NEW digest \in Wire!Digests,
             NEW opaque \in Wire!Opaques, NEW b, Plain(b), Complete(b)
      PROVE  Made(s, Wire!WithId(s, Filled(s, << >>, intent, asked, expires, description,
                                           digest, opaque), b))
  BY <1>3, FilledIsMade, WithIdIs
<1>4. ASSUME NEW intent \in {"charge", "session"}, NEW expires \in Wire!Expiries,
             NEW description \in Described
      PROVE  Made(s, Wire!Offered(s, intent, asked, expires, description))
  <2> DEFINE e == IF expires = Wire!None
                  THEN Wire!Some(Wire!Moment(clock + Lifetime)) ELSE expires
             f == Filled(s, << >>, intent, asked, e, description, Wire!None, Wire!None)
  <2>1. e \in Dates
    BY <1>2
  <2>2. Wire!Offered(s, intent, asked, expires, description) = Wire!WithId(s, f, f)
    <3>1. Dated(Wire!Bare(s, intent, asked), e, description) = f
      BY BareIs
    <3> HIDE DEF f
    <3>2. Wire!Offered(s, intent, asked, expires, description)
            = LET c == Dated(Wire!Bare(s, intent, asked), e, description)
              IN  Wire!WithId(s, c, c)
      BY DEF Wire!Offered, Dated, e
    <3> QED
      BY <3>1, <3>2
  <2> HIDE DEF e
  <2>3. Plain(f) /\ Complete(f)
    BY <1>2, <2>1, FilledIsPlain, FilledIsComplete
  <2>4. Made(s, Wire!WithId(s, f, f))
    BY <1>2, <1>3, <2>1, <2>3
  <2> QED
    BY <2>2, <2>4
<1>5. ASSUME NEW expires \in Wire!Expiries, NEW digest \in Wire!Digests,
             NEW opaque \in Wire!Opaques
      PROVE  /\ Made(s, Wire!Full(s, asked, expires, digest, opaque))
             /\ Made(s, Wire!SetAfterwards(s, asked, expires, digest, opaque))
  <2> DEFINE i == "charge"
             f == Filled(s, << >>, i, asked, expires, Wire!None, digest, opaque)
             g == Filled(s, << >>, i, asked, Wire!None, Wire!None, Wire!None, Wire!None)
  <2>1. /\ Wire!Full(s, asked, expires, digest, opaque) = Wire!WithId(s, f, f)
        /\ Wire!SetAfterwards(s, asked, expires, digest, opaque) = Wire!WithId(s, f, g)
    <3>1. /\ Opted(Wire!Bare(s, i, asked), expires, digest, opaque) = f
          /\ Wire!Bare(s, i, asked) = g
      BY BareIs
    <3> HIDE DEF f, g
    <3>2. /\ Wire!Full(s, asked, expires, digest, opaque)
               = LET c == Opted(Wire!Bare(s, i, asked), expires, digest, opaque)
                 IN  Wire!WithId(s, c, c)
          /\ Wire!SetAfterwards(s, asked, expires, digest, opaque)
               = Wire!WithId(s, Opted(Wire!Bare(s, i, asked), expires, digest, opaque),
                             Wire!Bare(s, i, asked))
      BY DEF Wire!Full, Wire!SetAfterwards, Opted
    <3> QED
      BY <3>1, <3>2
  <2>2. i \in {"charge", "session"} /\ expires \in Dates /\ Wire!None \in Dates
    BY <1>2
  <2> HIDE DEF i
  <2>3. Plain(f) /\ Complete(f) /\ Plain(g) /\ Complete(g)
    BY <1>2, <2>2, FilledIsPlain, FilledIsComplete
  <2>4. Made(s, Wire!WithId(s, f, f)) /\ Made(s, Wire!WithId(s, f, g))
    BY <1>2, <1>3, <2>2, <2>3
  <2> QED
    BY <2>1, <2>4
<1> QED
  BY <1>2, <1>4, <1>5
-----------------------------------------------------------------------------
(* What is read of a challenge *)

Retold(c, o) == [c EXCEPT !.description = o]

(* It is the challenge, with its description or one read bytewise. *)
AsRead(x, c) ==
    \E o : /\ x = Retold(c, o)
           /\ Wire!Given(o) \in {Wire!Given(c.description),
                                 Wire!Bytewise(Wire!Given(c.description))}

LEMMA RetoldIs ==
    ASSUME NEW c, Complete(c), NEW o
    PROVE  /\ Complete(Retold(c, o)) /\ Retold(c, o).description = o
           /\ Retold(c, o).id = c.id /\ Retold(c, o).realm = c.realm
           /\ Retold(c, o).method = c.method /\ Retold(c, o).intent = c.intent
           /\ Retold(c, o).request = c.request /\ Retold(c, o).expires = c.expires
           /\ Retold(c, o).digest = c.digest /\ Retold(c, o).opaque = c.opaque
           /\ Retold(Retold(c, o), Wire!None) = Retold(c, Wire!None)
<1> DEFINE id == c.id
           realm == c.realm
           manner == c.method
           intent == c.intent
           asked == c.request
           expires == c.expires
           description == c.description
           digest == c.digest
           opaque == c.opaque
           none == Wire!None
           x == Retold(c, o)
           y == Retold(x, none)
           z == Retold(c, none)
<1>1. c = [id |-> id, realm |-> realm, method |-> manner, intent |-> intent,
           request |-> asked, expires |-> expires, description |-> description,
           digest |-> digest, opaque |-> opaque]
  BY DEF Complete
<1> HIDE DEF id, realm, manner, intent, asked, expires, description, digest, opaque, none
<1>2. x = [id |-> id, realm |-> realm, method |-> manner, intent |-> intent,
           request |-> asked, expires |-> expires, description |-> o,
           digest |-> digest, opaque |-> opaque]
  BY <1>1 DEF Retold
<1>3. z = [id |-> id, realm |-> realm, method |-> manner, intent |-> intent,
           request |-> asked, expires |-> expires, description |-> none,
           digest |-> digest, opaque |-> opaque]
  BY <1>1 DEF Retold
<1> HIDE DEF x
<1>4. y = [id |-> id, realm |-> realm, method |-> manner, intent |-> intent,
           request |-> asked, expires |-> expires, description |-> none,
           digest |-> digest, opaque |-> opaque]
  BY <1>2 DEF Retold
<1>5. y = z
  BY <1>3, <1>4
<1>6. Complete(x)
  BY <1>2 DEF Complete
<1>7. /\ x.description = o /\ x.id = id /\ x.realm = realm /\ x.method = manner
      /\ x.intent = intent /\ x.request = asked /\ x.expires = expires
      /\ x.digest = digest /\ x.opaque = opaque
  BY <1>2
<1> QED
  BY <1>5, <1>6, <1>7 DEF x, none, id, realm, manner, intent, asked, expires, digest, opaque

LEMMA PresentIs ==
    /\ \A o : Wire!Given(Wire!Present(o)) = Wire!Given(o)
    /\ \A o : o # Wire!Some(<< >>) => Wire!Present(o) = o
<1>1. Wire!Given(Wire!None) = << >> /\ Wire!Given(Wire!Some(<< >>)) = << >>
  <2>1. Wire!Some(<< >>) # Wire!None /\ Wire!Some(<< >>)[1] = << >>
    BY OptionIs
  <2> QED
    BY <2>1 DEF Wire!Given
<1> QED
  BY <1>1 DEF Wire!Present

LEMMA ThroughIs ==
    ASSUME NEW C, Fixed \subseteq C, NEW o \in Option(Seq(C))
    PROVE  Wire!Given(Through(o)) = Wire!Bytewise(Wire!Given(o))
<1>1. CASE o = Wire!None
  BY <1>1, BytewiseAre DEF Wire!Given, Through
<1>2. CASE o # Wire!None
  <2>1. Through(o) = Wire!Some(Wire!Bytewise(o[1]))
    BY <1>2 DEF Through
  <2>2. Wire!Given(Through(o)) = Wire!Bytewise(o[1])
    BY <2>1, OptionIs DEF Wire!Given
  <2> QED
    BY <1>2, <2>2 DEF Wire!Given
<1> QED
  BY <1>1, <1>2

LEMMA NonemptyIs ==
    ASSUME NEW c, Complete(c), Wire!Some(<< >>) \notin {c.expires, c.digest, c.opaque}
    PROVE  Wire!Nonempty(c) = Retold(c, Wire!Present(c.description))
<1> DEFINE id == c.id
           realm == c.realm
           manner == c.method
           intent == c.intent
           asked == c.request
           expires == c.expires
           description == c.description
           digest == c.digest
           opaque == c.opaque
           e == Wire!Present(expires)
           p == Wire!Present(description)
           g == Wire!Present(digest)
           o == Wire!Present(opaque)
           x1 == [c EXCEPT !.expires = e]
           x2 == [x1 EXCEPT !.description = p]
           x3 == [x2 EXCEPT !.digest = g]
           x4 == [x3 EXCEPT !.opaque = o]
<1>1. c = [id |-> id, realm |-> realm, method |-> manner, intent |-> intent,
           request |-> asked, expires |-> expires, description |-> description,
           digest |-> digest, opaque |-> opaque]
  BY DEF Complete
<1>2. e = expires /\ g = digest /\ o = opaque
  BY PresentIs
<1>3. Wire!Nonempty(c) = x4
  BY DEF Wire!Nonempty
<1> HIDE DEF id, realm, manner, intent, asked, expires, description, digest, opaque,
             e, p, g, o
<1>4. Retold(c, p) = [id |-> id, realm |-> realm, method |-> manner, intent |-> intent,
           request |-> asked, expires |-> expires, description |-> p,
           digest |-> digest, opaque |-> opaque]
  BY <1>1 DEF Retold
<1>5. x1 = [id |-> id, realm |-> realm, method |-> manner, intent |-> intent,
            request |-> asked, expires |-> expires, description |-> description,
            digest |-> digest, opaque |-> opaque]
  BY <1>1, <1>2
<1> HIDE DEF x1
<1>6. x2 = [id |-> id, realm |-> realm, method |-> manner, intent |-> intent,
            request |-> asked, expires |-> expires, description |-> p,
            digest |-> digest, opaque |-> opaque]
  BY <1>5
<1> HIDE DEF x2
<1>7. x3 = [id |-> id, realm |-> realm, method |-> manner, intent |-> intent,
            request |-> asked, expires |-> expires, description |-> p,
            digest |-> digest, opaque |-> opaque]
  BY <1>2, <1>6
<1> HIDE DEF x3
<1>8. x4 = [id |-> id, realm |-> realm, method |-> manner, intent |-> intent,
            request |-> asked, expires |-> expires, description |-> p,
            digest |-> digest, opaque |-> opaque]
  BY <1>2, <1>7
<1> HIDE DEF x4
<1> QED
  BY <1>3, <1>4, <1>8 DEF p, description
LEMMA MadeIs ==
    ASSUME NEW s, NEW c, Made(s, c)
    PROVE  /\ Complete(c) /\ c \in Challenges(Symbolic(s, c)) /\ Visible(Visibles(s), c)
           /\ c.description \in Option(Seq(Symbolic(s, c)))
           /\ Wire!Some(<< >>) \notin {c.expires, c.digest, c.opaque}
           /\ c.realm = s.realm /\ c.id # << >> /\ c.request # << >>
<1>1. c \in Challenges(Symbolic(s, c))
  BY DEF Made
<1> QED
  BY <1>1 DEF Made, Complete, Challenges

(* The header's fields, as each client finds them. *)
LEMMA HeaderRead ==
    ASSUME Wire!WireAssumption, NEW s \in Servers, NEW c, Made(s, c)
    PROVE  LET h == Wire!FormatWwwAuthenticate(c)
           IN  /\ h \in Seq(Symbolic(s, c)) /\ Wire!Fields(h) = Wire!Some(c)
               /\ Wire!Fields(Wire!Bytewise(h)) = Wire!Some(Mangled(c))
<1> DEFINE A == Visibles(s)
           C == Symbolic(s, c)
<1>1. Fixed \subseteq A /\ A \cap Wire!Foreign = {}
  BY VisiblesAre
<1>2. A \subseteq C
  BY DEF Symbolic
<1>3. c \in Challenges(C) /\ Visible(A, c)
  BY MadeIs
<1> HIDE DEF A, C
<1>4. Fixed \subseteq C
  BY <1>1, <1>2
<1>5. /\ Wire!FormatWwwAuthenticate(c) \in Seq(C)
      /\ Wire!Fields(Wire!FormatWwwAuthenticate(c)) = Wire!Some(c)
  BY <1>3, <1>4, HeaderType, FieldsRead
<1>6. /\ Mangled(c) \in Challenges(C)
      /\ Wire!Bytewise(Wire!FormatWwwAuthenticate(c)) = Wire!FormatWwwAuthenticate(Mangled(c))
  BY <1>1, <1>2, <1>3, BytewiseHeader
<1>7. Wire!Fields(Wire!FormatWwwAuthenticate(Mangled(c))) = Wire!Some(Mangled(c))
  BY <1>4, <1>6, FieldsRead
<1> QED
  BY <1>5, <1>6, <1>7 DEF C

(* A browser has the challenge but for its description. *)
LEMMA MangledIs ==
    ASSUME Wire!WireAssumption, NEW s \in Servers, NEW c, Made(s, c)
    PROVE  AsRead(Wire!Nonempty(Mangled(c)), c)
<1> DEFINE C == Symbolic(s, c)
           t == Through(c.description)
           m == Mangled(c)
           o == Wire!Present(t)
<1>1. Fixed \subseteq C
  BY VisiblesAre DEF Symbolic
<1>2. Complete(c) /\ c.description \in Option(Seq(C))
      /\ Wire!Some(<< >>) \notin {c.expires, c.digest, c.opaque}
  BY MadeIs
<1>3. m = Retold(c, t)
  BY DEF Mangled, Retold
<1> HIDE DEF C, t, m
<1>4. /\ Complete(m) /\ m.description = t /\ m.expires = c.expires
      /\ m.digest = c.digest /\ m.opaque = c.opaque
  BY <1>2, <1>3, RetoldIs
<1>5. Wire!Nonempty(m) = Retold(m, o)
  BY <1>2, <1>4, NonemptyIs
<1>6. Retold(m, o) = Retold(c, o)
  BY <1>3 DEF Retold
<1>7. Wire!Given(o) = Wire!Bytewise(Wire!Given(c.description))
  BY <1>1, <1>2, PresentIs, ThroughIs DEF t
<1> QED
  BY <1>5, <1>6, <1>7 DEF AsRead, m

(* A challenge that comes as JSON is read as it is.                        *)
LEMMA SelfRead ==
    ASSUME NEW c, Complete(c)
    PROVE  AsRead(c, c)
<1> DEFINE id == c.id
           realm == c.realm
           manner == c.method
           intent == c.intent
           asked == c.request
           expires == c.expires
           description == c.description
           digest == c.digest
           opaque == c.opaque
<1>1. c = [id |-> id, realm |-> realm, method |-> manner, intent |-> intent,
           request |-> asked, expires |-> expires, description |-> description,
           digest |-> digest, opaque |-> opaque]
  BY DEF Complete
<1> HIDE DEF id, realm, manner, intent, asked, expires, description, digest, opaque
<1>2. Retold(c, description) = c
  BY <1>1 DEF Retold
<1> QED
  BY <1>2 DEF AsRead, description

(* What can make a challenge unreadable. *)
Reason(c) ==
    \/ (Wire!ToSet(c.realm) \union Wire!ToSet(Wire!Given(c.description)))
         \cap (Wire!Control \union Wire!Foreign) # {}
    \/ c.digest # Wire!None /\ ~Wire!ValidDigest(c.digest[1])

(* Nothing is read of the bare scheme.                                     *)
LEMMA BareScheme ==
    LET h == <<"Payment">>
    IN  Wire!ParseWwwAuthenticate(h) = Wire!None /\ Wire!ParseInBrowser(h) = Wire!None
<1> DEFINE a == "Payment"
           h == <<a>>
           A == Fixed
<1>1. a \in A /\ A \cap Wire!Foreign = {} /\ Fixed \subseteq A
  BY DEF Fixed, Names, Wire!Foreign
<1> HIDE DEF a, A
<1>2. h \in Seq(A) /\ Len(h) < 2
  BY <1>1
<1> HIDE DEF h
<1>3. Wire!Fields(h) = Wire!None
  BY <1>2 DEF Wire!Fields
<1>4. Wire!Bytewise(h) = h
  BY <1>1, <1>2, BytewiseSame
<1>5. Wire!ParseWwwAuthenticate(h) = Wire!None /\ Wire!ParseInBrowser(h) = Wire!None
  BY <1>3, <1>4 DEF Wire!ParseWwwAuthenticate, Wire!ParseInBrowser
<1> QED
  BY <1>5 DEF h, a
(* Each client has the challenge, or nothing. *)
LEMMA HeaderTold ==
    ASSUME Wire!WireAssumption, NEW s \in Servers, NEW c, Made(s, c)
    PROVE  LET h == Wire!FormatWwwAuthenticate(c)
           IN  /\ \/ Wire!ParseWwwAuthenticate(h) = Wire!Some(c)
                  \/ Wire!ParseWwwAuthenticate(h) = Wire!None
               /\ \/ Wire!ParseInBrowser(h) = Wire!Some(Wire!Nonempty(Mangled(c)))
                  \/ Wire!ParseInBrowser(h) = Wire!None
<1> DEFINE h == Wire!FormatWwwAuthenticate(c)
<1>1. /\ Wire!Fields(h) = Wire!Some(c)
      /\ Wire!Fields(Wire!Bytewise(h)) = Wire!Some(Mangled(c))
  BY HeaderRead
<1> HIDE DEF h
<1>2. Wire!Some(c) # Wire!None /\ Wire!Some(Mangled(c))[1] = Mangled(c)
  BY OptionIs
<1>3. \/ Wire!ParseWwwAuthenticate(h) = Wire!Some(c)
      \/ Wire!ParseWwwAuthenticate(h) = Wire!None
  BY <1>1 DEF Wire!ParseWwwAuthenticate
<1>4. \/ Wire!ParseInBrowser(h) = Wire!Some(Wire!Nonempty(Mangled(c)))
      \/ Wire!ParseInBrowser(h) = Wire!None
  BY <1>1, <1>2 DEF Wire!ParseInBrowser
<1> QED
  BY <1>3, <1>4 DEF h

LEMMA ToSetOfSome ==
    ASSUME NEW x
    PROVE  Wire!ToSet(Wire!Some(x)) = {x}
<1>1. <<x>> \in Seq({x}) /\ Len(<<x>>) = 1 /\ <<x>>[1] = x /\ DOMAIN <<x>> = {1}
  OBVIOUS
<1> QED
  BY <1>1 DEF Wire!ToSet, Wire!Some

LEMMA ToSetIn ==
    ASSUME NEW C, NEW t \in Seq(C)
    PROVE  Wire!ToSet(t) \subseteq C
<1>1. DOMAIN t = 1..Len(t) /\ \A k \in 1..Len(t) : t[k] \in C
  BY LenProperties, ElementOfSeq
<1> QED
  BY <1>1 DEF Wire!ToSet

(* Without a reason each of them has it. *)
LEMMA HeaderHeard ==
    ASSUME Wire!WireAssumption, NEW s \in Servers, NEW c, Made(s, c), ~Reason(c)
    PROVE  LET h == Wire!FormatWwwAuthenticate(c)
           IN  /\ Wire!ToSet(h) \cap (Wire!Control \union Wire!Foreign) = {}
               /\ Wire!ParseWwwAuthenticate(h) = Wire!Some(c)
               /\ Wire!ParseInBrowser(h) = Wire!Some(Wire!Nonempty(Mangled(c)))
<1> DEFINE h == Wire!FormatWwwAuthenticate(c)
           C == Symbolic(s, c)
           m == Mangled(c)
<1>1. /\ h \in Seq(C) /\ Wire!Fields(h) = Wire!Some(c)
      /\ Wire!Fields(Wire!Bytewise(h)) = Wire!Some(m)
  BY HeaderRead
<1>2. C \cap (Wire!Control \union Wire!Foreign) = {}
  <2>1. C = Basic \union Wire!ToSet(c.realm) \union Wire!ToSet(Wire!Given(c.description))
    BY MadeIs DEF Symbolic, Visibles
  <2>2. Basic \cap (Wire!Control \union Wire!Foreign) = {}
    BY VisiblesAre
  <2> HIDE DEF C
  <2> QED
    BY <2>1, <2>2 DEF Reason
<1> HIDE DEF h, C
<1>3. Wire!ToSet(h) \cap (Wire!Control \union Wire!Foreign) = {}
  BY <1>1, <1>2, ToSetIn
<1>4. /\ Complete(c) /\ c.id # << >> /\ c.realm # << >> /\ c.method # << >>
      /\ c.intent # << >> /\ c.request # << >>
      /\ c.digest # Wire!None => Wire!ValidDigest(c.digest[1])
      /\ c.digest # Wire!Some(<< >>)
  <2>1. Complete(c) /\ c.id # << >> /\ c.request # << >> /\ c.realm = s.realm
        /\ Wire!Some(<< >>) \notin {c.expires, c.digest, c.opaque}
    BY MadeIs
  <2>2. s.realm # << >>
    BY DEF Wire!WireAssumption
  <2>3. \A x : <<x>> # << >>
    OBVIOUS
  <2>4. c.method # << >> /\ c.intent # << >>
    BY <2>3 DEF Made
  <2> QED
    BY <2>1, <2>2, <2>4 DEF Reason
<1>5. Wire!ParseWwwAuthenticate(h) = Wire!Some(c)
  <2>1. Wire!ToSet(Wire!Some(c)) = {c}
    BY ToSetOfSome
  <2> QED
    BY <1>1, <1>3, <1>4, <2>1 DEF Wire!ParseWwwAuthenticate
<1>6. Wire!ParseInBrowser(h) = Wire!Some(Wire!Nonempty(m))
  <2>1. /\ m.id = c.id /\ m.realm = c.realm /\ m.method = c.method
        /\ m.intent = c.intent /\ m.request = c.request /\ m.digest = c.digest
    <3>1. m = Retold(c, Through(c.description))
      BY DEF Mangled, Retold
    <3> HIDE DEF m
    <3> QED
      BY <1>4, <3>1, RetoldIs
  <2> HIDE DEF m
  <2>2. Wire!ToSet(Wire!Some(m)) = {m} /\ Wire!Some(m) # Wire!None /\ Wire!Some(m)[1] = m
    BY ToSetOfSome, OptionIs
  <2>3. Wire!Present(c.digest) = c.digest
    BY <1>4, PresentIs
  <2>4. \A x \in Wire!ToSet(Wire!Fields(Wire!Bytewise(h))) :
           /\ << >> \notin {x.id, x.realm, x.method, x.intent, x.request}
           /\ Wire!Present(x.digest) # Wire!None => Wire!ValidDigest(x.digest[1])
    BY <1>1, <1>4, <2>1, <2>2, <2>3
  <2> QED
    BY <1>1, <2>2, <2>4 DEF Wire!ParseInBrowser
<1> QED
  BY <1>3, <1>5, <1>6 DEF h, m

Mcp == [by |-> "mcp", header |-> << >>]

(* What is told by an answer that has come. *)
Told(a, c) ==
    CASE a.by = "error" -> {Wire!None}
      [] a.by = "mcp" -> {Wire!Some(c)}
      [] a.by = "header" ->
           {Wire!ParseWwwAuthenticate(a.header), Wire!ParseInBrowser(a.header)}

LEMMA ToldIs ==
    ASSUME Wire!WireAssumption, NEW s \in Servers, NEW c, Made(s, c),
           NEW a \in {Wire!Send(c), Mcp}, NEW r \in Told(a, c)
    PROVE  \/ r = Wire!None /\ Reason(c)
           \/ \E x : r = Wire!Some(x) /\ AsRead(x, c)
<1> DEFINE h == Wire!FormatWwwAuthenticate(c)
           p == <<"Payment">>
           e == << >>
<1>1. Complete(c)
  BY MadeIs
<1>2. AsRead(c, c)
  BY <1>1, SelfRead
<1>3. AsRead(Wire!Nonempty(Mangled(c)), c)
  BY MangledIs
<1>4. \/ Wire!ParseWwwAuthenticate(h) = Wire!Some(c)
      \/ Wire!ParseWwwAuthenticate(h) = Wire!None
  BY HeaderTold
<1>5. \/ Wire!ParseInBrowser(h) = Wire!Some(Wire!Nonempty(Mangled(c)))
      \/ Wire!ParseInBrowser(h) = Wire!None
  BY HeaderTold
<1>6. ~Reason(c) => /\ Wire!ToSet(h) \cap (Wire!Control \union Wire!Foreign) = {}
                    /\ Wire!ParseWwwAuthenticate(h) = Wire!Some(c)
                    /\ Wire!ParseInBrowser(h) = Wire!Some(Wire!Nonempty(Mangled(c)))
  BY HeaderHeard
<1>7. Wire!ParseWwwAuthenticate(p) = Wire!None /\ Wire!ParseInBrowser(p) = Wire!None
  BY BareScheme
<1>8. Wire!LineBreak \in Wire!Control
  BY DEF Wire!Control
<1>9. Wire!Some(c) # Wire!None /\ Wire!Some(Wire!Nonempty(Mangled(c))) # Wire!None
  BY OptionIs
<1>10. Wire!Send(c)
         = IF Wire!LineBreak \in Wire!ToSet(h) THEN [by |-> "error", header |-> e]
           ELSE IF Wire!ToSet(h) \cap Wire!Control # {}
                THEN [by |-> "header", header |-> p]
                ELSE [by |-> "header", header |-> h]
  BY DEF Wire!Send
<1> HIDE DEF h, p, e
<1>11. CASE a = Mcp
  <2>1. Told(a, c) = {Wire!Some(c)}
    BY <1>11 DEF Told, Mcp
  <2> QED
    BY <1>2, <2>1
<1>12. CASE a = Wire!Send(c)
  <2>1. CASE Wire!LineBreak \in Wire!ToSet(h)
    <3>1. Told(a, c) = {Wire!None}
      BY <1>10, <1>12, <2>1 DEF Told
    <3>2. Reason(c)
      BY <1>6, <1>8, <2>1
    <3> QED
      BY <3>1, <3>2
  <2>2. CASE Wire!LineBreak \notin Wire!ToSet(h) /\ Wire!ToSet(h) \cap Wire!Control # {}
    <3>1. a.by = "header" /\ a.header = p
      BY <1>10, <1>12, <2>2
    <3>2. Told(a, c) = {Wire!None}
      BY <1>7, <3>1 DEF Told
    <3>3. Reason(c)
      BY <1>6, <2>2
    <3> QED
      BY <3>2, <3>3
  <2>3. CASE Wire!LineBreak \notin Wire!ToSet(h) /\ Wire!ToSet(h) \cap Wire!Control = {}
    <3>1. a.by = "header" /\ a.header = h
      BY <1>10, <1>12, <2>3
    <3>2. Told(a, c) = {Wire!ParseWwwAuthenticate(h), Wire!ParseInBrowser(h)}
      BY <3>1 DEF Told
    <3> QED
      BY <1>2, <1>3, <1>4, <1>5, <1>6, <1>9, <3>2
  <2> QED
    BY <2>1, <2>2, <2>3
<1> QED
  BY <1>11, <1>12
-----------------------------------------------------------------------------
(* The echo and its verification *)

LEMMA AsReadIs ==
    ASSUME NEW s, NEW c, Made(s, c), NEW x, AsRead(x, c)
    PROVE  /\ Complete(x) /\ x.id = c.id /\ x.realm = c.realm /\ x.method = c.method
           /\ x.intent = c.intent /\ x.request = c.request /\ x.expires = c.expires
           /\ x.digest = c.digest /\ x.opaque = c.opaque
           /\ Retold(x, Wire!None) = Retold(c, Wire!None)
           /\ Wire!Given(x.description) \in {Wire!Given(c.description),
                                             Wire!Bytewise(Wire!Given(c.description))}
           /\ \A t : IdOf(t, x) = IdOf(t, c)
<1>1. PICK o : /\ x = Retold(c, o)
               /\ Wire!Given(o) \in {Wire!Given(c.description),
                                     Wire!Bytewise(Wire!Given(c.description))}
  BY DEF AsRead
<1>2. Complete(c)
  BY MadeIs
<1>3. /\ Complete(x) /\ x.id = c.id /\ x.realm = c.realm /\ x.method = c.method
      /\ x.intent = c.intent /\ x.request = c.request /\ x.expires = c.expires
      /\ x.digest = c.digest /\ x.opaque = c.opaque /\ x.description = o
      /\ Retold(x, Wire!None) = Retold(c, Wire!None)
  BY <1>1, <1>2, RetoldIs
<1>4. \A t : IdOf(t, x) = IdOf(t, c)
  BY <1>3 DEF IdOf, LinesOf
<1> QED
  BY <1>1, <1>3, <1>4

(* A server takes for its own what has the id it would make. *)
LEMMA CheckedIs ==
    ASSUME Wire!WireAssumption, NEW s \in Servers, NEW t \in Servers, NEW c, Made(s, c),
           NEW x, AsRead(x, c)
    PROVE  /\ c.id = IdOf(t, c) => t = s
           /\ Wire!Checked(t, Wire!Echo(x)) # "mismatch" <=> c.id = IdOf(t, c)
           /\ Wire!Checked(t, Wire!Echo(x)) = "accepted"
                <=> c.id = IdOf(t, c) /\ ~Wire!IsExpired(c.expires)
           /\ Wire!VerifyChallenge(s.secret, c) <=> c.id = IdOf(s, c)
           /\ Wire!VerifyChallenge(s.secret, x) <=> c.id = IdOf(s, c)
<1>1. /\ Complete(x) /\ x.id = c.id /\ x.realm = c.realm /\ x.expires = c.expires
      /\ \A u : IdOf(u, x) = IdOf(u, c)
  BY AsReadIs
<1>2. c.realm = s.realm /\ Complete(c)
  BY MadeIs
<1>3. ASSUME c.id = IdOf(t, c) PROVE t = s
  <2>1. PICK b : Plain(b) /\ c.id = IdOf(s, b)
    BY DEF Made
  <2>2. Plain(c)
    BY DEF Made
  <2>3. IdOf(t, c) = IdOf(s, b)
    BY <1>3, <2>1
  <2> QED
    BY <2>1, <2>2, <2>3, IdOnce
<1>4. /\ Wire!ComputeChallengeId(t.secret, t.realm, Wire!Echo(x)) = IdOf(t, c)
      /\ Wire!ComputeChallengeId(s.secret, s.realm, c) = IdOf(s, c)
      /\ Wire!ComputeChallengeId(s.secret, s.realm, x) = IdOf(s, c)
  <2>1. Wire!ComputeChallengeId(t.secret, t.realm, Wire!Echo(x)) = IdOf(t, x)
    BY ComputeIs
  <2>2. Wire!ComputeChallengeId(s.secret, s.realm, c) = IdOf(s, c)
    BY <1>2, ComputeIs
  <2>3. Wire!ComputeChallengeId(s.secret, s.realm, x) = IdOf(s, x)
    BY <1>1, ComputeIs
  <2> QED
    BY <1>1, <2>1, <2>2, <2>3
<1>5. Wire!Echo(x).id = c.id /\ Wire!Echo(x).expires = c.expires
  BY <1>1 DEF Wire!Echo
<1>6. Wire!Checked(t, Wire!Echo(x))
        = IF c.id # IdOf(t, c) THEN "mismatch"
          ELSE IF Wire!IsExpired(c.expires) THEN "expired" ELSE "accepted"
  BY <1>4, <1>5 DEF Wire!Checked
<1>7. /\ Wire!VerifyChallenge(s.secret, c) <=> c.id = IdOf(s, c)
      /\ Wire!VerifyChallenge(s.secret, x) <=> c.id = IdOf(s, c)
  BY <1>1, <1>2, <1>4 DEF Wire!VerifyChallenge
<1> QED
  BY <1>3, <1>6, <1>7

(* Accepted is what the server made, in time and for what it expects.      *)
LEMMA VerifiedIs ==
    ASSUME Wire!WireAssumption, NEW s \in Servers, NEW t \in Servers, NEW c, Made(s, c),
           NEW x, AsRead(x, c), NEW expected \in Wire!Expectations,
           Wire!Verified(t, Wire!Echo(x), expected) = "accepted"
    PROVE  /\ t = s /\ ~Wire!IsExpired(c.expires)
           /\ expected # Wire!None => Wire!SameCharge(c.request, expected[1])
<1>1. /\ Wire!Checked(t, Wire!Echo(x)) = "accepted"
      /\ expected # Wire!None => Wire!SameCharge(Wire!Echo(x).request, expected[1])
  BY DEF Wire!Verified
<1>2. c.id = IdOf(t, c) /\ ~Wire!IsExpired(c.expires) /\ t = s
  BY <1>1, CheckedIs
<1>3. Wire!Echo(x).request = c.request
  BY AsReadIs DEF Wire!Echo
<1> QED
  BY <1>1, <1>2, <1>3

Its == challenge[1]

(* The inductive invariant: what has been made is a challenge of its       *)
(* maker; the answer carries it; what has been read is it, or there is a   *)
(* reason; and what a server has accepted is its own, in time and for its  *)
(* request.                                                                *)
WireInv ==
    /\ clock \in Nat /\ maker \in Servers
    /\ stage \in {"start", "made", "answered", "read", "verified"}
    /\ stage # "start" => challenge = Wire!Some(Its) /\ Made(maker, Its)
    /\ stage = "answered" => sent \in {Wire!Send(Its), Mcp}
    /\ stage \notin {"read", "verified"} => received = Wire!None
    /\ stage \in {"read", "verified"} =>
         \/ received = Wire!None /\ Reason(Its)
         \/ \E x : received = Wire!Some(x) /\ AsRead(x, Its)
    /\ stage # "verified" => judgement = Wire!None
    /\ Wire!AcceptedAsMade

LEMMA NothingJudged ==
    ASSUME judgement = Wire!None
    PROVE  Wire!AcceptedAsMade
<1>1. Wire!ToSet(<< >>) = {}
  BY DEF Wire!ToSet
<1> QED
  BY <1>1 DEF Wire!AcceptedAsMade, Wire!None

LEMMA WireInit ==
    ASSUME Wire!Init
    PROVE  WireInv
<1>1. Wire!AcceptedAsMade
  BY NothingJudged DEF Wire!Init
<1> QED
  BY <1>1 DEF Wire!Init, WireInv

(* Each step keeps the invariant.                                          *)
LEMMA WireMake ==
    ASSUME Wire!WireAssumption, WireInv, Wire!Make
    PROVE  WireInv'
<1>1. /\ stage = "start" /\ stage' = "made" /\ clock' = clock /\ maker' = maker
      /\ sent' = sent /\ received' = received /\ judgement' = judgement
  BY DEF Wire!Make
<1>2. clock \in Nat /\ maker \in Servers /\ received = Wire!None /\ judgement = Wire!None
  BY <1>1 DEF WireInv
<1>3. \A text \in Wire!Texts : text \in Seq(Symbols)
  <2>1. MaxSymbols \in Nat
    BY DEF Wire!WireAssumption
  <2>2. ASSUME NEW n \in 0..MaxSymbols, NEW text \in [1..n -> Symbols]
        PROVE  text \in Seq(Symbols)
    BY <2>1, SeqDef
  <2> QED
    BY <2>2 DEF Wire!Texts
<1>4. \E c : challenge' = Wire!Some(c) /\ Made(maker, c)
  <2>1. PICK asked \in Payments :
          \/ \E intent \in {"charge", "session"}, expires \in Wire!Expiries :
                challenge' = Wire!Some(Wire!Offered(maker, intent, asked, expires, Wire!None))
          \/ \E text \in Wire!Texts :
                challenge' = Wire!Some(Wire!Offered(maker, "charge", asked, Wire!None,
                                                    Wire!Some(text)))
          \/ \E expires \in Wire!Expiries, digest \in Wire!Digests, opaque \in Wire!Opaques :
                \/ challenge' = Wire!Some(Wire!Full(maker, asked, expires, digest, opaque))
                \/ challenge' = Wire!Some(Wire!SetAfterwards(maker, asked, expires, digest,
                                                             opaque))
    BY DEF Wire!Make
  <2>2. CASE \E intent \in {"charge", "session"}, expires \in Wire!Expiries :
                challenge' = Wire!Some(Wire!Offered(maker, intent, asked, expires, Wire!None))
    BY <1>2, <2>2, ConstructedIsMade
  <2>3. CASE \E text \in Wire!Texts :
                challenge' = Wire!Some(Wire!Offered(maker, "charge", asked, Wire!None,
                                                    Wire!Some(text)))
    BY <1>2, <1>3, <2>3, ConstructedIsMade
  <2>4. CASE \E expires \in Wire!Expiries, digest \in Wire!Digests, opaque \in Wire!Opaques :
                \/ challenge' = Wire!Some(Wire!Full(maker, asked, expires, digest, opaque))
                \/ challenge' = Wire!Some(Wire!SetAfterwards(maker, asked, expires, digest,
                                                             opaque))
    BY <1>2, <2>4, ConstructedIsMade
  <2> QED
    BY <2>1, <2>2, <2>3, <2>4
<1>5. challenge' = Wire!Some(Its') /\ Made(maker', Its')
  BY <1>1, <1>4, OptionIs DEF Its
<1>6. Wire!AcceptedAsMade'
  <2>1. judgement' = Wire!None
    BY <1>1, <1>2
  <2>2. Wire!ToSet(<< >>) = {}
    BY DEF Wire!ToSet
  <2> QED
    BY <2>1, <2>2 DEF Wire!AcceptedAsMade, Wire!None
<1> QED
  BY <1>1, <1>2, <1>5, <1>6 DEF WireInv

LEMMA WireRespond ==
    ASSUME WireInv, Wire!Respond
    PROVE  WireInv'
<1>1. /\ stage = "made" /\ stage' = "answered" /\ clock' = clock /\ maker' = maker
      /\ challenge' = challenge /\ received' = received /\ judgement' = judgement
      /\ sent' \in {Wire!Send(Its), Mcp}
  BY DEF Wire!Respond, Its, Mcp
<1>2. Wire!AcceptedAsMade' /\ Its' = Its
  BY <1>1 DEF Wire!AcceptedAsMade, Its, WireInv
<1>3. Wire!Send(Its)' = Wire!Send(Its)
  BY <1>1 DEF Its
<1> QED
  BY <1>1, <1>2 DEF WireInv

LEMMA WireRead ==
    ASSUME Wire!WireAssumption, WireInv, Wire!Read
    PROVE  WireInv'
<1>1. /\ stage = "answered" /\ stage' = "read" /\ clock' = clock /\ maker' = maker
      /\ challenge' = challenge /\ sent' = sent /\ judgement' = judgement
  BY DEF Wire!Read
<1>2. /\ challenge = Wire!Some(Its) /\ Made(maker, Its) /\ maker \in Servers
      /\ sent \in {Wire!Send(Its), Mcp} /\ judgement = Wire!None
  BY <1>1 DEF WireInv
<1>3. received' \in Told(sent, Its)
  BY <1>2 DEF Wire!Read, Told
<1>4. \/ received' = Wire!None /\ Reason(Its)
      \/ \E x : received' = Wire!Some(x) /\ AsRead(x, Its)
  BY <1>2, <1>3, ToldIs
<1>5. Wire!AcceptedAsMade' /\ Its' = Its
  BY <1>1 DEF Wire!AcceptedAsMade, Its, WireInv
<1> QED
  BY <1>1, <1>2, <1>4, <1>5 DEF WireInv

LEMMA WireTick ==
    ASSUME WireInv, Wire!Tick
    PROVE  WireInv'
<1>1. /\ clock' = clock + 1 /\ stage' = stage /\ maker' = maker /\ challenge' = challenge
      /\ sent' = sent /\ received' = received /\ judgement' = judgement
  BY DEF Wire!Tick
<1>2. Wire!AcceptedAsMade' /\ Its' = Its /\ clock' \in Nat
  BY <1>1 DEF Wire!AcceptedAsMade, Wire!ExpiredAt, Its, WireInv
<1> QED
  BY <1>1, <1>2 DEF WireInv

LEMMA WireVerify ==
    ASSUME Wire!WireAssumption, WireInv, NEW s \in Servers,
           NEW expected \in Wire!Expectations, Wire!Verify(s, expected)
    PROVE  WireInv'
<1> DEFINE v == [by |-> s, expected |-> expected, at |-> clock,
                 says |-> Wire!Verified(s, Wire!Echo(received[1]), expected)]
<1>1. /\ stage = "read" /\ received # Wire!None /\ stage' = "verified"
      /\ judgement' = Wire!Some(v) /\ clock' = clock /\ maker' = maker
      /\ challenge' = challenge /\ sent' = sent /\ received' = received
  BY DEF Wire!Verify
<1>2. PICK x : received = Wire!Some(x) /\ AsRead(x, Its)
  BY <1>1 DEF WireInv
<1>3. received[1] = x
  BY <1>2, OptionIs
<1>4. v.says = Wire!Verified(s, Wire!Echo(x), expected) /\ v.by = s
      /\ v.expected = expected /\ v.at = clock
  BY <1>3
<1>5. Wire!ToSet(judgement') = {v}
  BY <1>1, ToSetOfSome
<1> HIDE DEF v
<1>6. v.says = "accepted" =>
        /\ v.by = maker /\ ~Wire!ExpiredAt(v.at, Its.expires)
        /\ v.expected # Wire!None => Wire!SameCharge(Its.request, v.expected[1])
  <2> SUFFICES ASSUME v.says = "accepted"
               PROVE  /\ v.by = maker /\ ~Wire!ExpiredAt(v.at, Its.expires)
                      /\ v.expected # Wire!None => Wire!SameCharge(Its.request, v.expected[1])
    OBVIOUS
  <2>1. Made(maker, Its) /\ maker \in Servers
    BY <1>1 DEF WireInv
  <2>2. Wire!Verified(s, Wire!Echo(x), expected) = "accepted"
    BY <1>4
  <2>3. /\ s = maker /\ ~Wire!IsExpired(Its.expires)
        /\ expected # Wire!None => Wire!SameCharge(Its.request, expected[1])
    BY <1>2, <2>1, <2>2, VerifiedIs
  <2> QED
    BY <1>4, <2>3 DEF Wire!IsExpired
<1>7. Wire!AcceptedAsMade'
  BY <1>1, <1>5, <1>6 DEF Wire!AcceptedAsMade, Its
<1>8. Its' = Its
  BY <1>1 DEF Its
<1> QED
  BY <1>1, <1>7, <1>8 DEF WireInv

LEMMA WireNext ==
    ASSUME Wire!WireAssumption, WireInv, [Wire!Next]_(Wire!vars)
    PROVE  WireInv'
<1>1. CASE Wire!Make
  BY <1>1, WireMake
<1>2. CASE Wire!Respond
  BY <1>2, WireRespond
<1>3. CASE Wire!Read
  BY <1>3, WireRead
<1>4. CASE Wire!Tick
  BY <1>4, WireTick
<1>5. CASE \E s \in Servers, expected \in Wire!Expectations : Wire!Verify(s, expected)
  BY <1>5, WireVerify
<1>6. CASE UNCHANGED Wire!vars
  <2>1. /\ clock' = clock /\ stage' = stage /\ maker' = maker /\ challenge' = challenge
        /\ sent' = sent /\ received' = received /\ judgement' = judgement
    BY <1>6 DEF Wire!vars
  <2>2. Wire!AcceptedAsMade' /\ Its' = Its
    BY <2>1 DEF Wire!AcceptedAsMade, Its, WireInv
  <2> QED
    BY <2>1, <2>2 DEF WireInv
<1> QED
  BY <1>1, <1>2, <1>3, <1>4, <1>5, <1>6 DEF Wire!Next
(* And the invariant has the properties.                                   *)
LEMMA WireReadIsMade ==
    ASSUME WireInv
    PROVE  Wire!ReadIsMade
<1> SUFFICES ASSUME received # Wire!None
             PROVE  /\ Retold(received[1], Wire!None) = Retold(challenge[1], Wire!None)
                    /\ Wire!Given(received[1].description) \in
                          {Wire!Given(challenge[1].description),
                           Wire!Bytewise(Wire!Given(challenge[1].description))}
  BY DEF Wire!ReadIsMade, Retold
<1>1. stage \in {"read", "verified"}
  BY DEF WireInv
<1>2. PICK x : received = Wire!Some(x) /\ AsRead(x, Its)
  BY <1>1 DEF WireInv
<1>3. received[1] = x /\ Made(maker, Its)
  BY <1>1, <1>2, OptionIs DEF WireInv
<1> QED
  BY <1>2, <1>3, AsReadIs DEF Its

LEMMA WireUnreadable ==
    ASSUME WireInv
    PROVE  Wire!UnreadableHasReason
<1> SUFFICES ASSUME stage = "read", received = Wire!None
             PROVE  Reason(Its)
  BY DEF Wire!UnreadableHasReason, Reason, Its
<1>1. \A x : Wire!Some(x) # Wire!None
  BY OptionIs
<1> QED
  BY <1>1 DEF WireInv

LEMMA WireBound ==
    ASSUME Wire!WireAssumption, WireInv
    PROVE  Wire!BoundToMaker /\ Wire!BothEndsAgree
<1> SUFFICES ASSUME received # Wire!None
             PROVE  Wire!BoundToMaker /\ Wire!BothEndsAgree
  BY DEF Wire!BoundToMaker, Wire!BothEndsAgree
<1>1. stage \in {"read", "verified"}
  BY DEF WireInv
<1>2. PICK x : received = Wire!Some(x) /\ AsRead(x, Its)
  BY <1>1 DEF WireInv
<1>3. received[1] = x /\ Made(maker, Its) /\ maker \in Servers
  BY <1>1, <1>2, OptionIs DEF WireInv
<1>4. /\ Wire!VerifyChallenge(maker.secret, Its) <=> Its.id = IdOf(maker, Its)
      /\ Wire!VerifyChallenge(maker.secret, x) <=> Its.id = IdOf(maker, Its)
      /\ Wire!Checked(maker, Wire!Echo(x)) = "accepted"
           <=> Its.id = IdOf(maker, Its) /\ ~Wire!IsExpired(Its.expires)
  BY <1>2, <1>3, CheckedIs
<1>5. ASSUME NEW s \in Servers
      PROVE  Wire!Checked(s, Wire!Echo(x)) # "mismatch" <=>
               s = maker /\ Wire!VerifyChallenge(maker.secret, Its)
  <2>1. /\ Its.id = IdOf(s, Its) => s = maker
        /\ Wire!Checked(s, Wire!Echo(x)) # "mismatch" <=> Its.id = IdOf(s, Its)
    BY <1>2, <1>3, CheckedIs
  <2> QED
    BY <1>4, <2>1
<1>6. Wire!BoundToMaker
  BY <1>3, <1>5 DEF Wire!BoundToMaker, Its
<1>7. /\ x.method = <<"movement">> /\ x.intent \in {<<"charge">>, <<"session">>}
      /\ x.expires = Its.expires
  BY <1>2, <1>3, AsReadIs DEF Made
<1>8. (\E intent \in {"charge", "session"} : Wire!ValidFor(intent, x))
        <=> ~Wire!IsExpired(Its.expires)
  BY <1>7 DEF Wire!ValidFor
<1>9. Wire!BothEndsAgree
  BY <1>3, <1>4, <1>8 DEF Wire!BothEndsAgree
<1> QED
  BY <1>6, <1>9

(* A challenge comes through header or MCP error to either client as it    *)
(* was made, or one of its texts is the reason why not; the server that    *)
(* made it takes it back, no other does, and only until it expires and for *)
(* its request.                                                            *)
THEOREM ChallengesAreBound ==
    ASSUME Wire!WireAssumption
    PROVE  Wire!Spec => [](/\ Wire!ReadIsMade /\ Wire!UnreadableHasReason
                           /\ Wire!BoundToMaker /\ Wire!BothEndsAgree
                           /\ Wire!AcceptedAsMade)
<1>1. Wire!Init => WireInv
  BY WireInit
<1>2. WireInv /\ [Wire!Next]_(Wire!vars) => WireInv'
  BY WireNext
<1>3. WireInv => /\ Wire!ReadIsMade /\ Wire!UnreadableHasReason
                 /\ Wire!BoundToMaker /\ Wire!BothEndsAgree /\ Wire!AcceptedAsMade
  BY WireReadIsMade, WireUnreadable, WireBound DEF WireInv
<1> QED
  BY <1>1, <1>2, <1>3, PTL DEF Wire!Spec
=============================================================================
