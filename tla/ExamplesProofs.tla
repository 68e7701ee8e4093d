----------------------------- MODULE ExamplesProofs -----------------------------
(***************************************************************************)
(* That the count of a pay-per-token stream is fair to both sides, for any *)
(* number of vouchers, price, text and deposit; and that the services of   *)
(* PaidServiceProofs keep their promises beside it, too.                   *)
(***************************************************************************)
EXTENDS MCExamples, FiniteSetTheorems, TLAPS

-----------------------------------------------------------------------------
(* Sums over requests, as sets of pairs *)

(* So many pairs as the sum of w. *)
Pairs(w) == UNION {{i} \X (1..w[i]) : i \in Requests}
Sum(w) == Cardinality(Pairs(w))

LEMMA PairsOfOne ==
  ASSUME NEW i, NEW n \in Nat
  PROVE  IsFiniteSet({i} \X (1..n)) /\ Cardinality({i} \X (1..n)) = n
  <1> DEFINE f == [k \in 1..n |-> <<i, k>>]
  <1>1. f \in Bijection(1..n, {i} \X (1..n))
    BY DEF Bijection, Injection, Surjection, IsInjective
  <1>2. IsFiniteSet(1..n) /\ Cardinality(1..n) = n
    BY FS_Interval
  <1>3. ExistsBijection(1..n, {i} \X (1..n))
    BY <1>1 DEF ExistsBijection
  <1>4. QED BY <1>2, <1>3, FS_Bijection

LEMMA RequestsAreFinite == IsFiniteSet(Requests)
  BY FS_Interval, StreamAssumption DEF Requests

LEMMA PairsAreFinite ==
  ASSUME NEW w \in [Requests -> Nat]
  PROVE  IsFiniteSet(Pairs(w)) /\ Sum(w) \in Nat
  <1> DEFINE T == {{i} \X (1..w[i]) : i \in Requests}
             f == [i \in Requests |-> {i} \X (1..w[i])]
  <1>1. f \in Surjection(Requests, T)
    BY DEF Surjection
  <1>2. IsFiniteSet(T)
    BY <1>1, RequestsAreFinite, FS_Surjection
  <1>3. ASSUME NEW t \in T PROVE IsFiniteSet(t)
    <2>1. PICK i \in Requests : t = {i} \X (1..w[i])
      OBVIOUS
    <2>2. w[i] \in Nat
      OBVIOUS
    <2>3. QED BY <2>1, <2>2, PairsOfOne
  <1> HIDE DEF T
  <1>4. IsFiniteSet(UNION T)
    BY <1>2, <1>3, FS_UNION
  <1>5. QED BY <1>4, FS_CardinalityType DEF T, Pairs, Sum

LEMMA NoPairs ==
  ASSUME NEW w \in [Requests -> Nat], \A j \in Requests : w[j] = 0
  PROVE  Sum(w) = 0
  <1>1. Pairs(w) = {}
    BY DEF Pairs
  <1>2. QED BY <1>1, FS_EmptySet DEF Sum

(* When one summand changes, the sum changes by as much. *)
LEMMA OneChanges ==
  ASSUME NEW w \in [Requests -> Nat], NEW v \in [Requests -> Nat],
         NEW i \in Requests,
         \A j \in Requests \ {i} : v[j] = w[j]
  PROVE  Sum(v) + w[i] = Sum(w) + v[i]
  <1> DEFINE R == UNION {{j} \X (1..w[j]) : j \in Requests \ {i}}
             P == {i} \X (1..w[i])
             Q == {i} \X (1..v[i])
  <1>1. Pairs(w) = R \cup P /\ R \cap P = {}
    BY DEF Pairs
  <1>2. Pairs(v) = R \cup Q /\ R \cap Q = {}
    BY DEF Pairs
  <1>3. w[i] \in Nat /\ v[i] \in Nat
    OBVIOUS
  <1>4. IsFiniteSet(P) /\ Cardinality(P) = w[i]
    BY <1>3, PairsOfOne
  <1>5. IsFiniteSet(Q) /\ Cardinality(Q) = v[i]
    BY <1>3, PairsOfOne
  <1> HIDE DEF R, P, Q
  <1>6. IsFiniteSet(R)
    BY <1>1, FS_Subset, PairsAreFinite
  <1>7. Cardinality(R) \in Nat
    BY <1>6, FS_CardinalityType
  <1>8. Cardinality(R \cap P) = 0 /\ Cardinality(R \cap Q) = 0
    BY <1>1, <1>2, FS_EmptySet
  <1>9. Cardinality(R \cup P)
          = Cardinality(R) + Cardinality(P) - Cardinality(R \cap P)
    BY <1>4, <1>6, FS_Union
  <1>10. Cardinality(R \cup Q)
          = Cardinality(R) + Cardinality(Q) - Cardinality(R \cap Q)
    BY <1>5, <1>6, FS_Union
  <1>11. QED BY <1>1, <1>2, <1>3, <1>4, <1>5, <1>7, <1>8, <1>9, <1>10 DEF Sum

LEMMA OneOfMany ==
  ASSUME NEW w \in [Requests -> Nat], NEW i \in Requests
  PROVE  w[i] <= Sum(w)
  <1> DEFINE v == [w EXCEPT ![i] = 0]
  <1>1. v \in [Requests -> Nat] /\ v[i] = 0
        /\ \A j \in Requests \ {i} : v[j] = w[j]
    OBVIOUS
  <1> HIDE DEF v
  <1>2. Sum(v) + w[i] = Sum(w) + 0
    BY <1>1, OneChanges
  <1>3. Sum(v) \in Nat /\ Sum(w) \in Nat /\ w[i] \in Nat
    BY <1>1, PairsAreFinite
  <1>4. QED BY <1>2, <1>3

(* A sum of smaller summands is smaller. *)
LEMMA SumGrows ==
  ASSUME NEW w \in [Requests -> Nat], NEW v \in [Requests -> Nat],
         \A j \in Requests : v[j] <= w[j]
  PROVE  Sum(v) <= Sum(w)
  <1>1. Pairs(v) \subseteq Pairs(w)
    <2>1. ASSUME NEW j \in Requests PROVE 1..v[j] \subseteq 1..w[j]
      <3>1. v[j] \in Nat /\ w[j] \in Nat /\ v[j] <= w[j]
        OBVIOUS
      <3>2. QED BY <3>1
    <2>2. QED BY <2>1 DEF Pairs
  <1>2. QED BY <1>1, FS_Subset, PairsAreFinite DEF Sum

-----------------------------------------------------------------------------
(* Types *)

LEMMA ConstantFacts ==
  /\ MaxRequests \in Nat /\ Text \in Nat
  /\ Price \in Nat /\ Price > 0
  /\ \A d \in Deltas : d \in Nat /\ d > 0
  /\ \A d \in Deposits : d \in Nat
  BY StreamAssumption

LEMMA AmountIsNat ==
  ASSUME TypeOK, NEW i \in Requests
  PROVE  Amount(i) \in Nat
  BY ConstantFacts DEF Amount, TypeOK, Requests

LEMMA WholeTokens ==
  ASSUME NEW a \in Nat
  PROVE  a \div Price \in Nat /\ (a \div Price) * Price <= a
  <1>1. Price \in Nat /\ Price > 0
    BY ConstantFacts
  <1>2. QED BY <1>1

LEMMA SessionFacts ==
  ASSUME TypeOK
  PROVE  /\ session.known \in BOOLEAN
         /\ Highest \in Nat /\ Delivered \in Nat /\ Count \in Nat /\ Settled \in Nat
         /\ session.known =>
              /\ session \in ChannelSession
              /\ session.highest = Highest /\ session.delivered = Delivered
         /\ ~session.known => Highest = 0 /\ Delivered = 0
  <1>1. CASE session \in ChannelSession
    BY <1>1 DEF ChannelSession, Highest, Delivered, Count, Settled
  <1>2. CASE session = NoSession
    BY <1>2 DEF NoSession, Highest, Delivered, Count, Settled
  <1>3. QED BY <1>1, <1>2 DEF TypeOK

Numbers == Highest \in Nat /\ Delivered \in Nat

LEMMA NumbersAreNat == TypeOK => Numbers
  BY SessionFacts DEF Numbers

LEMMA StreamFacts ==
  ASSUME TypeOK, NEW i \in Requests, request[i].phase \in {"streaming", "done", "dropped", "lost"}
  PROVE  /\ request[i] \in Stream
         /\ request[i].offset \in Nat /\ request[i].bought \in Nat
         /\ request[i].bought > 0
         /\ request[i].streamed \in 0..Text /\ request[i].streamed \in Nat
         /\ Available(i) \in 0..Text /\ Available(i) \in Nat
         /\ Available(i) <= request[i].bought
         /\ request[i] = [phase |-> request[i].phase, offset |-> request[i].offset,
                bought |-> request[i].bought, streamed |-> request[i].streamed]
  <1>1. request[i] \in Stream
    BY DEF TypeOK, Stream, Pending, NoRequest
  <1>2. QED BY <1>1, ConstantFacts DEF Stream, Available

LEMMA TypeInit == Init => TypeOK
  <1> SUFFICES ASSUME Init PROVE TypeOK
    OBVIOUS
  <1>1. client \in [phase : {"idle", "streaming", "stopping", "closed"},
          delta : Deltas, deposit : Deposits,
          sent : 0..MaxRequests, waiting : BOOLEAN]
    <2>1. 0 \in 0..MaxRequests
      BY ConstantFacts
    <2>2. QED BY <2>1 DEF Init
  <1>2. chain \in [deposit : Deposits \cup {0}, settled : Nat, closed : BOOLEAN]
    BY DEF Init
  <1>3. QED BY <1>1, <1>2 DEF Init, TypeOK, Settlements

LEMMA TypeStep == TypeOK /\ [Next]_vars => TypeOK'
  <1> SUFFICES ASSUME TypeOK, [Next]_vars PROVE TypeOK'
    OBVIOUS
  <1>1. CASE OpenLands
    BY <1>1 DEF OpenLands, TypeOK
  <1>2. CASE ClientStep
    <2>1. CASE SendVoucher
      <3>1. client.sent + 1 \in 0..MaxRequests
        BY <2>1, ConstantFacts DEF SendVoucher, TypeOK
      <3>2. client' \in [phase : {"idle", "streaming", "stopping", "closed"},
          delta : Deltas, deposit : Deposits,
          sent : 0..MaxRequests, waiting : BOOLEAN]
        BY <2>1, <3>1 DEF SendVoucher, TypeOK
      <3>3. QED BY <2>1, <3>2 DEF SendVoucher, TypeOK, Pending
    <2>2. QED BY ZenonT(40), <1>2, <2>1 DEF ClientStep, Start, ReadToEnd, StreamBreaks,
                                Stop, Leave, TypeOK
  <1>3. CASE Close
    <2>1. CASE CloseStart
      <3>1. SettleAmount \in Nat /\ session.highest \in Nat
        BY <2>1, SessionFacts, ConstantFacts
           DEF CloseStart, SettleAmount, FairAmount, ChannelSession
      <3>2. QED BY <2>1, <3>1 DEF CloseStart, TypeOK, Closing
    <2>2. CASE CloseLands
      <3>1. closing \in Closing
        BY <2>2 DEF CloseLands, TypeOK, NotClosing
      <3>2. closing' \in Closing
        BY <2>2, <3>1 DEF CloseLands, Closing
      <3>3. chain' \in [deposit : Deposits \cup {0}, settled : Nat, closed : BOOLEAN]
        BY <2>2, <3>1 DEF CloseLands, ChainClose, TypeOK, Closing
      <3>4. QED BY <2>2, <3>2, <3>3 DEF CloseLands, TypeOK
    <2>3. CASE CloseFails
      <3>1. closing \in Closing
        BY <2>3 DEF CloseFails, TypeOK, NotClosing
      <3>2. QED BY <2>3, <3>1 DEF CloseFails, TypeOK, Closing
    <2>4. QED BY <1>3, <2>1, <2>2, <2>3 DEF Close
  <1>4. CASE Repeat
    BY <1>4 DEF Repeat, TypeOK, Pending
  <1>5. CASE RequestFails
    BY <1>5 DEF RequestFails, TypeOK, Pending
  <1>6. CASE Restart
    <2>1. request' \in [Requests -> Pending \cup Stream \cup {NoRequest}]
      BY <1>6, StreamFacts DEF Restart, TypeOK, Stream
    <2>2. settlement' \in [Requests -> Settlements]
      BY <1>6 DEF Restart, TypeOK, Settlements
    <2>3. closing' \in Closing \cup {NotClosing}
      BY <1>6 DEF Restart, TypeOK, Closing, NotClosing
    <2>4. QED BY <1>6, <2>1, <2>2, <2>3 DEF Restart, TypeOK
  <1>7. ASSUME NEW i \in Requests, Serving(i) PROVE TypeOK'
    <2>1. Amount(i) \in Nat
      BY AmountIsNat
    <2>2. CASE Accept(i)
      <3>1. Bought(Amount(i)) \in Nat
        BY <2>1, <2>2, WholeTokens, SessionFacts DEF Accept, Bought
      <3>2. session' \in ChannelSession
        BY <2>1, <2>2, <3>1, SessionFacts DEF Accept, ChannelSession, CountedAhead
      <3>3. request' \in [Requests -> Pending \cup Stream \cup {NoRequest}]
        BY <2>2, <3>1, SessionFacts, ConstantFacts DEF Accept, TypeOK, Pending, Stream
      <3>4. settlement' \in [Requests -> Settlements]
        BY <2>2 DEF Accept, TypeOK, Settlements
      <3>5. QED BY <2>2, <3>2, <3>3, <3>4 DEF Accept, TypeOK
    <2>3. CASE Refuse(i)
      BY <2>3 DEF Refuse, TypeOK, Pending
    <2>4. CASE Token(i)
      <3>1. request'[i] \in Stream
        <4>1. request[i].streamed + 1 \in 0..Text
          <5>1. request[i].streamed \in 0..Text /\ Available(i) \in 0..Text
            BY <2>4, StreamFacts DEF Token
          <5>2. request[i].streamed < Available(i)
            BY <2>4 DEF Token
          <5>3. QED BY <5>1, <5>2, ConstantFacts
        <4>2. request[i] \in Stream
          BY <2>4, StreamFacts DEF Token
        <4>3. QED BY <2>4, <4>1, <4>2 DEF Token, Stream, TypeOK
      <3>2. QED BY <2>4, <3>1 DEF Token, TypeOK
    <2>5. CASE LastToken(i)
      <3>1. request'[i] \in Stream
        BY <2>5, StreamFacts DEF LastToken, Stream, TypeOK
      <3>2. session' \in ChannelSession \cup {NoSession}
        <4>1. CASE session.known
          <5>1. Corrected(i) \in Nat
            <6>1. request[i].streamed \in Nat /\ request[i].bought \in Nat
              BY <2>5, StreamFacts DEF LastToken
            <6>2. session.delivered \in Nat
              BY <4>1, SessionFacts
            <6>3. QED BY <6>1, <6>2 DEF Corrected, Overshoot
          <5>2. QED BY <2>5, <4>1, <5>1, SessionFacts DEF LastToken, ChannelSession
        <4>2. QED BY <2>5, <4>1 DEF LastToken, TypeOK
      <3>3. QED BY <2>5, <3>1, <3>2 DEF LastToken, TypeOK
    <2>6. QED BY <1>7, <2>2, <2>3, <2>4, <2>5 DEF Serving
  <1>8. ASSUME NEW i \in Requests, Dropped(i) PROVE TypeOK'
    <2>1. request'[i] \in Stream
      BY <1>8, StreamFacts DEF Dropped, Stream, TypeOK
    <2>2. QED BY <1>8, <2>1 DEF Dropped, TypeOK
  <1>9. ASSUME NEW i \in Requests, Settling(i) PROVE TypeOK'
    <2>1. Amount(i) \in Nat
      BY AmountIsNat
    <2>2. CASE SettleLands(i)
      BY <2>1, <2>2 DEF SettleLands, ChainSettle, TypeOK, Settlements
    <2>3. CASE SettleFails(i)
      BY <2>3 DEF SettleFails, TypeOK, Settlements
    <2>4. CASE SettleNoted(i)
      BY <2>1, <2>4 DEF SettleNoted, TypeOK, Settlements, ChannelSession, NoSession
    <2>5. QED BY <1>9, <2>2, <2>3, <2>4 DEF Settling
  <1>10. CASE UNCHANGED vars
    BY <1>10 DEF vars, TypeOK
  <1>11. QED
    BY <1>1, <1>2, <1>3, <1>4, <1>5, <1>6, <1>7, <1>8, <1>9, <1>10 DEF Next

-----------------------------------------------------------------------------
(* The invariant *)

(* Vouchers are sent one after another, and at most the last one waits to  *)
(* be served.                                                              *)
InOrder ==
    /\ \A i \in Requests : i > client.sent => request[i].phase = "none"
    /\ \A i \in Requests : request[i].phase = "sent" => i = client.sent
    /\ client.phase = "idle" => client.sent = 0
    /\ client.waiting => client.phase = "streaming" /\ client.sent > 0
    /\ client.phase = "streaming" /\ ~client.waiting =>
         \A i \in Requests : request[i].phase # "sent"

(* What a stream stands for in the count: all it was bought for until its  *)
(* end, what was streamed from then on.                                    *)
Size == [i \in Requests |->
    IF i \notin Current THEN 0
    ELSE IF request[i].phase = "done" THEN request[i].streamed
    ELSE request[i].bought]

(* What a stream will take off the count at its end. *)
Over == [i \in Requests |->
    IF request[i].phase = "streaming"
    THEN request[i].bought - Available(i) ELSE 0]

(* Where the tokens of a stream end. *)
End(i) == IF request[i].offset + request[i].bought < Text
          THEN request[i].offset + request[i].bought ELSE Text

Beyond == IF Delivered > Text THEN Delivered - Text ELSE 0

Within ==
    \A i \in Requests :
        /\ request[i].phase \in {"streaming", "done", "dropped"} =>
             /\ session.known /\ Amount(i) <= Highest
             /\ request[i].streamed <= Available(i)
             /\ End(i) <= Delivered
        /\ request[i].phase = "done" => request[i].streamed = Available(i)

Counted ==
    /\ Sum(Size) <= Delivered
    /\ Delivered * Price <= Highest
    /\ Sum(Over) <= Beyond

Apart ==
    \A i, j \in Current : i < j => End(i) <= request[j].offset

(* What the close knows of. *)
Known == [i \in Requests |-> IF Amount(i) <= closing.signed THEN Size[i] ELSE 0]

Claimed ==
    /\ closing.phase \in {"submitted", "closed"} =>
         /\ session.known /\ closing.signed <= Highest
         /\ Sum(Known) * Price <= closing.amount
    /\ closing.phase = "closed" =>
         chain.closed /\ closing.amount <= chain.settled

StreamInv == TypeOK /\ InOrder /\ Within /\ Counted /\ Apart /\ Claimed

(* The vouchers before the last one have been streamed to their end. *)
Ended ==
    \A i \in Requests : i <= client.sent =>
        \/ request[i].phase = "done"
        \/ /\ i = client.sent /\ client.waiting
           /\ request[i].phase \in {"sent", "streaming", "refused"}

(* Where nothing is lost, every stream but the last has ended, and the     *)
(* count is not only a bound.                                              *)
Exact ==
    "reliable" \in premises =>
        Sum(Size) = Delivered /\ Ended

-----------------------------------------------------------------------------
(* What a step does to the streams *)

OthersKept(i) == \A j \in Requests \ {i} : request'[j] = request[j]

Quiet ==
    /\ request' = request
    /\ session'.known = session.known
    /\ Highest' = Highest /\ Delivered' = Delivered

(* A request is sent, sent again, refused or lost. *)
Turned(i) ==
    /\ request'[i].phase \in {"sent", "failed", "refused"}
    /\ OthersKept(i)
    /\ session' = session

LEMMA StepShape ==
  ASSUME TypeOK, InOrder, [Next]_vars
  PROVE  /\ client'.delta = client.delta
         /\ \/ Quiet
            \/ Restart
            \/ \E i \in Requests :
                 Turned(i) \/ Accept(i) \/ Token(i) \/ LastToken(i) \/ Dropped(i)
  <1>1. client'.delta = client.delta
    BY DEF TypeOK, Next, vars, OpenLands, ClientStep, Start, SendVoucher, ReadToEnd,
           StreamBreaks, Stop, Leave, Close, CloseStart, CloseLands, CloseFails,
           Repeat, RequestFails, Restart, Serving, Accept, Refuse, Token, LastToken,
           Dropped, Settling, SettleLands, SettleFails, SettleNoted
  <1>2. CASE UNCHANGED <<session, request>>
    BY <1>1, <1>2 DEF Quiet, Highest, Delivered
  <1>3. CASE SendVoucher
    <2>1. client.sent + 1 \in Requests
      BY <1>3, ConstantFacts DEF SendVoucher, TypeOK, Requests
    <2>2. Turned(client.sent + 1)
      BY <1>3, <2>1 DEF SendVoucher, Turned, OthersKept, TypeOK
    <2>3. QED BY <1>1, <2>1, <2>2
  <1>4. ASSUME Repeat \/ RequestFails, client.sent \in Requests
        PROVE  Turned(client.sent)
    BY <1>4 DEF Repeat, RequestFails, Turned, OthersKept, TypeOK
  <1>5. ASSUME NEW i \in Requests, Refuse(i) PROVE Turned(i)
    BY <1>5 DEF Refuse, Turned, OthersKept, TypeOK
  <1>6. ASSUME NEW i \in Requests, SettleNoted(i) PROVE Quiet
    <2>1. CASE session \in ChannelSession
      BY <1>6, <2>1 DEF SettleNoted, Quiet, Highest, Delivered, ChannelSession
    <2>2. CASE session = NoSession
      BY <1>6, <2>2 DEF SettleNoted, Quiet, Highest, Delivered, NoSession
    <2>3. QED BY <2>1, <2>2 DEF TypeOK
  <1>7. CASE Repeat \/ RequestFails
    <2>1. client.sent \in Requests
      BY <1>7, ConstantFacts DEF Repeat, RequestFails, TypeOK, InOrder, Requests
    <2>2. QED BY <1>1, <1>4, <1>7, <2>1
  <1>8. CASE OpenLands \/ Start \/ ReadToEnd \/ StreamBreaks \/ Stop \/ Leave \/ Close
    BY <1>1, <1>2, <1>8 DEF OpenLands, Start, ReadToEnd, StreamBreaks, Stop, Leave,
                           Close, CloseStart, CloseLands, CloseFails
  <1>9. ASSUME NEW i \in Requests, SettleLands(i) \/ SettleFails(i)
        PROVE  UNCHANGED <<session, request>>
    BY <1>9 DEF SettleLands, SettleFails
  <1>10. CASE Next
    BY <1>1, <1>2, <1>3, <1>5, <1>6, <1>7, <1>8, <1>9, <1>10
       DEF Next, ClientStep, Serving, Settling
  <1>11. QED BY <1>1, <1>2, <1>10 DEF vars

(* A voucher that is accepted buys what is then counted. *)
LEMMA AcceptShape ==
  ASSUME TypeOK, NEW i \in Requests, Accept(i)
  PROVE  \E bought \in Nat :
           /\ session'.known
           /\ Highest' = Amount(i) /\ Delivered' = Delivered + bought
           /\ Highest < Amount(i)
           /\ bought * Price <= Amount(i) - Highest
           /\ OthersKept(i)
           /\ request[i].phase = "sent"
           /\ \/ bought = 0 /\ request'[i].phase = "refused"
              \/ /\ request'[i].phase = "streaming"
                 /\ request'[i].offset = Delivered
                 /\ request'[i].bought = bought
                 /\ request'[i].streamed = 0
  <1>1. Amount(i) \in Nat /\ Highest \in Nat /\ Highest < Amount(i)
    BY AmountIsNat, SessionFacts DEF Accept
  <1>2. Amount(i) - Highest \in Nat
    BY <1>1
  <1>3. /\ Bought(Amount(i)) \in Nat
        /\ Bought(Amount(i)) * Price <= Amount(i) - Highest
    BY <1>2, WholeTokens DEF Bought
  <1>4. /\ session'.known
        /\ Highest' = Amount(i) /\ Delivered' = Delivered + Bought(Amount(i))
    BY DEF Accept, Highest, Delivered, CountedAhead
  <1>5. /\ OthersKept(i) /\ request[i].phase = "sent"
        /\ IF Bought(Amount(i)) = 0 THEN request'[i].phase = "refused"
           ELSE /\ request'[i].phase = "streaming"
                /\ request'[i].offset = Delivered
                /\ request'[i].bought = Bought(Amount(i))
                /\ request'[i].streamed = 0
    BY DEF Accept, OthersKept, TypeOK
  <1>6. QED BY <1>1, <1>3, <1>4, <1>5

-----------------------------------------------------------------------------
(* The order of the vouchers *)

LEMMA OrderStep == TypeOK /\ InOrder /\ [Next]_vars => InOrder'
  <1> SUFFICES ASSUME TypeOK, InOrder, [Next]_vars PROVE InOrder'
    OBVIOUS
  <1>1. client.sent \in Nat /\ \A i \in Requests : i \in Nat
    BY ConstantFacts DEF TypeOK, Requests
  <1>2. CASE UNCHANGED <<client, request>>
    BY <1>2 DEF InOrder
  <1>3. CASE SendVoucher
    <2>1. /\ client'.sent = client.sent + 1 /\ client'.waiting
          /\ client'.phase = "streaming" /\ client.phase = "streaming" /\ ~client.waiting
      BY <1>3 DEF SendVoucher, TypeOK
    <2>2. \A i \in Requests : i # client.sent + 1 => request'[i] = request[i]
      BY <1>3 DEF SendVoucher, TypeOK
    <2>3. client.sent + 1 \in Requests => request'[client.sent + 1].phase = "sent"
      BY <1>3 DEF SendVoucher, TypeOK
    <2>4. \A i \in Requests : request[i].phase # "sent"
      BY <2>1 DEF InOrder
    <2>5. QED BY <1>1, <2>1, <2>2, <2>3, <2>4 DEF InOrder
  <1>4. CASE Start
    <2>1. client'.phase = "streaming" /\ client'.sent = 0 /\ ~client'.waiting
      BY <1>4 DEF Start, InOrder, TypeOK
    <2>2. request' = request /\ client.sent = 0 /\ \A i \in Requests : i > 0
      BY <1>4 DEF Start, InOrder, TypeOK, Requests
    <2>3. QED BY <2>1, <2>2 DEF InOrder
  <1>5. CASE ReadToEnd \/ StreamBreaks \/ Stop \/ Leave
    <2>1. /\ request' = request
          /\ client'.sent = client.sent
          /\ \/ ~client'.waiting
             \/ client' = client
             \/ client'.phase = "closed"
      BY <1>5 DEF ReadToEnd, StreamBreaks, Stop, Leave, TypeOK
    <2>2. CASE ReadToEnd \/ StreamBreaks
      <3>1. ~client'.waiting /\ client'.phase = client.phase
            /\ client.waiting /\ request[client.sent].phase # "sent"
        BY <2>2 DEF ReadToEnd, StreamBreaks, TypeOK
      <3>2. QED BY <2>1, <3>1 DEF InOrder
    <2>3. CASE Stop \/ Leave
      <3>1. /\ client'.phase \in {"stopping", "closed"}
            /\ client'.waiting => client.waiting /\ client.phase = "stopping"
        BY <2>3 DEF Stop, Leave, TypeOK
      <3>2. QED BY <2>1, <3>1 DEF InOrder
    <2>4. QED BY <1>5, <2>2, <2>3
  <1>6. ASSUME client' = client, NEW i \in Requests, OthersKept(i),
               request[i].phase # "none",
               request'[i].phase = "sent" => client.waiting /\ i = client.sent
        PROVE  InOrder'
    BY <1>6 DEF InOrder, OthersKept
  <1>7. CASE Repeat \/ RequestFails
    <2>1. client.sent \in Requests
      BY <1>7, ConstantFacts DEF Repeat, RequestFails, TypeOK, InOrder, Requests
    <2>2. QED BY <1>6, <1>7, <2>1 DEF Repeat, RequestFails, OthersKept, TypeOK
  <1>8. CASE Restart
    <2>1. \A i \in Requests :
            /\ request'[i].phase = "sent" => request[i].phase = "sent"
            /\ request[i].phase = "none" => request'[i].phase = "none"
      BY <1>8 DEF Restart
    <2>2. QED BY <1>8, <2>1 DEF InOrder, Restart
  <1>9. ASSUME NEW i \in Requests, Serving(i) \/ Dropped(i) PROVE InOrder'
    <2>1. /\ client' = client
          /\ \A j \in Requests \ {i} : request'[j] = request[j]
          /\ request[i].phase # "none" /\ request'[i].phase # "sent"
      <3>1. CASE Accept(i) \/ Refuse(i)
        BY <3>1 DEF Accept, Refuse, TypeOK
      <3>2. CASE Token(i) \/ LastToken(i) \/ Dropped(i)
        <4>1. request[i] \in Stream /\ request[i].phase = "streaming"
          BY <3>2, StreamFacts DEF Token, LastToken, Dropped
        <4>2. QED BY <3>2, <4>1 DEF Token, LastToken, Dropped, TypeOK, Stream
      <3>3. QED BY <1>9, <3>1, <3>2 DEF Serving
    <2>2. QED BY <1>6, <2>1 DEF OthersKept
  <1>10. ASSUME NEW i \in Requests, Settling(i) PROVE InOrder'
    BY <1>2, <1>10 DEF Settling, SettleLands, SettleFails, SettleNoted
  <1>11. CASE OpenLands \/ Close
    BY <1>2, <1>11 DEF OpenLands, Close, CloseStart, CloseLands, CloseFails
  <1>12. QED
    BY <1>2, <1>3, <1>4, <1>5, <1>7, <1>8, <1>9, <1>10, <1>11
       DEF Next, ClientStep, vars

-----------------------------------------------------------------------------
(* One stream at a time *)

LEMMA AvailableKept ==
  ASSUME NEW i \in Requests, request'[i] = request[i]
  PROVE  Available(i)' = Available(i) /\ End(i)' = End(i)
  BY DEF Available, End

LEMMA AmountKept ==
  ASSUME client'.delta = client.delta
  PROVE  \A i \in Requests : Amount(i)' = Amount(i)
  BY DEF Amount

(* What is streamed, and where it ends. *)
LEMMA EndFacts ==
  ASSUME TypeOK, NEW i \in Requests,
         request[i].phase \in {"streaming", "done", "dropped", "lost"}
  PROVE  /\ End(i) \in Nat /\ End(i) <= Text
         /\ Available(i) > 0 => request[i].offset + Available(i) = End(i)
         /\ Available(i) < request[i].bought => End(i) = Text
  <1> DEFINE o == request[i].offset
             b == request[i].bought
  <1>1. o \in Nat /\ b \in Nat /\ b > 0 /\ Text \in Nat
    BY StreamFacts, ConstantFacts
  <1>2. /\ End(i) = IF o + b < Text THEN o + b ELSE Text
        /\ Available(i) = LET left == IF Text > o THEN Text - o ELSE 0
                          IN IF b < left THEN b ELSE left
    BY DEF End, Available
  <1> HIDE DEF o, b
  <1>3. /\ End(i) \in Nat /\ End(i) <= Text
        /\ Available(i) > 0 => o + Available(i) = End(i)
        /\ Available(i) < b => End(i) = Text
    BY <1>1, <1>2
  <1>4. QED BY <1>3 DEF o, b

(* A stream that goes on or ends. *)
Continued(i) ==
    /\ OthersKept(i)
    /\ request[i].phase = "streaming"
    /\ request'[i].phase \in {"streaming", "done", "dropped"}
    /\ request'[i].offset = request[i].offset
    /\ request'[i].bought = request[i].bought
    /\ Available(i)' = Available(i) /\ End(i)' = End(i)
    /\ session'.known = session.known /\ Highest' = Highest

LEMMA TokenShape ==
  ASSUME TypeOK, NEW i \in Requests, Token(i)
  PROVE  /\ Continued(i)
         /\ request'[i].phase = "streaming" /\ Delivered' = Delivered
         /\ request'[i].streamed = request[i].streamed + 1
         /\ request[i].streamed < Available(i)
  <1>1. request[i] \in Stream /\ request[i].phase = "streaming"
    BY StreamFacts DEF Token
  <1>2. /\ request'[i].phase = "streaming"
        /\ request'[i].offset = request[i].offset
        /\ request'[i].bought = request[i].bought
        /\ request'[i].streamed = request[i].streamed + 1
        /\ OthersKept(i) /\ session' = session
    BY <1>1 DEF Token, TypeOK, Stream, OthersKept
  <1>3. Available(i)' = Available(i) /\ End(i)' = End(i)
    BY <1>2 DEF Available, End
  <1>4. Highest' = Highest /\ Delivered' = Delivered
    BY <1>2 DEF Highest, Delivered
  <1>5. QED BY <1>1, <1>2, <1>3, <1>4 DEF Continued, Token

LEMMA DroppedShape ==
  ASSUME TypeOK, NEW i \in Requests, Dropped(i)
  PROVE  /\ Continued(i)
         /\ request'[i].phase = "dropped" /\ Delivered' = Delivered
         /\ request'[i].streamed = request[i].streamed
  <1>1. request[i] \in Stream /\ request[i].phase = "streaming"
    BY StreamFacts DEF Dropped
  <1>2. /\ request'[i].phase = "dropped"
        /\ request'[i].offset = request[i].offset
        /\ request'[i].bought = request[i].bought
        /\ request'[i].streamed = request[i].streamed
        /\ OthersKept(i) /\ session' = session
    BY <1>1 DEF Dropped, TypeOK, Stream, OthersKept
  <1>3. Available(i)' = Available(i) /\ End(i)' = End(i)
    BY <1>2 DEF Available, End
  <1>4. Highest' = Highest /\ Delivered' = Delivered
    BY <1>2 DEF Highest, Delivered
  <1>5. QED BY <1>1, <1>2, <1>3, <1>4 DEF Continued

LEMMA LastShape ==
  ASSUME TypeOK, NEW i \in Requests, LastToken(i)
  PROVE  /\ Continued(i)
         /\ request'[i].phase = "done"
         /\ request'[i].streamed = request[i].streamed
         /\ request[i].streamed = Available(i)
         /\ request[i].bought - Available(i) \in Nat
         /\ session.known =>
              Delivered' = IF Delivered > request[i].bought - Available(i)
                           THEN Delivered - (request[i].bought - Available(i))
                           ELSE 0
  <1>1. /\ request[i] \in Stream /\ request[i].phase = "streaming"
        /\ request[i].bought \in Nat /\ Available(i) \in Nat
        /\ Available(i) <= request[i].bought
    BY StreamFacts DEF LastToken
  <1>2. /\ request'[i].phase = "done"
        /\ request'[i].offset = request[i].offset
        /\ request'[i].bought = request[i].bought
        /\ request'[i].streamed = request[i].streamed
        /\ OthersKept(i)
    BY <1>1 DEF LastToken, TypeOK, Stream, OthersKept
  <1>3. Available(i)' = Available(i) /\ End(i)' = End(i)
    BY <1>2 DEF Available, End
  <1>4. /\ session'.known = session.known /\ Highest' = Highest
        /\ session.known => Delivered' = Corrected(i)
    <2>1. CASE session.known
      <3>1. session \in ChannelSession
        BY <2>1, SessionFacts
      <3>2. /\ session'.known = session.known /\ session'.highest = session.highest
            /\ session'.delivered = Corrected(i)
        BY <2>1, <3>1 DEF LastToken, ChannelSession
      <3>3. QED BY <2>1, <3>2 DEF Highest, Delivered
    <2>2. CASE ~session.known
      BY <2>2 DEF LastToken, Highest
    <2>3. QED BY <2>1, <2>2
  <1>5. request[i].streamed = Available(i)
    BY DEF LastToken
  <1>6. session.known =>
          Corrected(i) = IF Delivered > request[i].bought - Available(i)
                         THEN Delivered - (request[i].bought - Available(i)) ELSE 0
    BY <1>5, SessionFacts DEF Corrected, Overshoot
  <1>7. request[i].bought - Available(i) \in Nat
    BY <1>1
  <1>8. QED BY <1>1, <1>2, <1>3, <1>4, <1>5, <1>6, <1>7 DEF Continued

-----------------------------------------------------------------------------
(* The sums *)

Summands ==
    /\ Size \in [Requests -> Nat] /\ Over \in [Requests -> Nat]
    /\ Known \in [Requests -> Nat]

LEMMA SizesAreNat == TypeOK => Summands
  <1> SUFFICES ASSUME TypeOK PROVE Summands
    OBVIOUS
  <1>1. Size \in [Requests -> Nat]
    BY StreamFacts DEF Size, Current
  <1>2. ASSUME NEW i \in Requests, request[i].phase = "streaming"
        PROVE  request[i].bought - Available(i) \in Nat
    <2>1. /\ request[i].bought \in Nat /\ Available(i) \in Nat
          /\ Available(i) <= request[i].bought
      BY <1>2, StreamFacts
    <2>2. QED BY <2>1
  <1>3. Over \in [Requests -> Nat]
    BY <1>2 DEF Over
  <1>4. Known \in [Requests -> Nat]
    BY <1>1 DEF Known
  <1>5. QED BY <1>1, <1>3, <1>4 DEF Summands

(* Streams that are not touched stand for what they did. *)
LEMMA SizeKept ==
  ASSUME NEW i \in Requests, request'[i] = request[i]
  PROVE  Size'[i] = Size[i] /\ Over'[i] = Over[i]
  BY AvailableKept DEF Size, Over, Current

LEMMA CountedStep ==
  ASSUME TypeOK, InOrder, Within, Counted, [Next]_vars, TypeOK'
  PROVE  Counted'
  <1>1. /\ Size \in [Requests -> Nat] /\ Over \in [Requests -> Nat]
        /\ Sum(Size) \in Nat /\ Sum(Over) \in Nat
    BY SizesAreNat, PairsAreFinite DEF Summands
  <1>2. /\ Size' \in [Requests -> Nat] /\ Over' \in [Requests -> Nat]
        /\ Sum(Size') \in Nat /\ Sum(Over') \in Nat
    <2>1. Summands'
      BY SizesAreNat, PTL
    <2>2. QED BY <2>1, PairsAreFinite DEF Summands
  <1>3. Highest \in Nat /\ Delivered \in Nat /\ Text \in Nat /\ Price \in Nat
    BY SessionFacts, ConstantFacts
  <1>4. /\ Sum(Size) <= Delivered /\ Delivered * Price <= Highest
        /\ Sum(Over) <= Beyond
    BY DEF Counted
  <1>5. SUFFICES /\ Sum(Size') <= Delivered'
                 /\ Delivered' * Price <= Highest'
                 /\ Sum(Over') <= Beyond'
    BY DEF Counted, Sum, Pairs
  <1>6. ASSUME NEW i \in Requests, OthersKept(i)
        PROVE  /\ Sum(Size') + Size[i] = Sum(Size) + Size'[i]
               /\ Sum(Over') + Over[i] = Sum(Over) + Over'[i]
    <2>1. \A j \in Requests \ {i} : Size'[j] = Size[j] /\ Over'[j] = Over[j]
      BY <1>6, SizeKept DEF OthersKept
    <2>2. QED BY <1>1, <1>2, <2>1, OneChanges
  <1>7. CASE Quiet
    <2>1. Size' = Size /\ Over' = Over
      BY <1>7 DEF Quiet, Size, Over, Current, Available
    <2>2. QED BY <1>4, <1>7, <2>1 DEF Quiet, Beyond
  <1>8. CASE Restart
    <2>1. \A i \in Requests :
            request'[i].phase \notin {"streaming", "done", "dropped"}
      BY <1>8, StreamFacts DEF Restart, Stream
    <2>2. \A i \in Requests : Size'[i] = 0 /\ Over'[i] = 0
      BY <2>1 DEF Size, Over, Current
    <2>3. Sum(Size') = 0 /\ Sum(Over') = 0
      BY <1>2, <2>2, NoPairs
    <2>4. Delivered' = 0 /\ Highest' = 0
      BY <1>8 DEF Restart, NoSession, Delivered, Highest
    <2>5. QED BY <1>3, <2>3, <2>4 DEF Beyond
  <1>9. ASSUME NEW i \in Requests, Turned(i)
        PROVE  /\ Sum(Size') <= Sum(Size) /\ Sum(Over') <= Sum(Over)
               /\ Delivered' = Delivered /\ Highest' = Highest
    <2>1. Size'[i] = 0 /\ Over'[i] = 0 /\ Size[i] \in Nat /\ Over[i] \in Nat
      BY <1>1, <1>9 DEF Turned, Size, Over, Current
    <2>2. Delivered' = Delivered /\ Highest' = Highest
      BY <1>9 DEF Turned, Delivered, Highest
    <2>3. QED BY <1>1, <1>2, <1>6, <1>9, <2>1, <2>2 DEF Turned
  <1>10. ASSUME NEW i \in Requests, Accept(i)
         PROVE  /\ Sum(Size') <= Delivered' /\ Delivered' * Price <= Highest'
                /\ Sum(Over') <= Beyond'
    <2>1. PICK b \in Nat :
           /\ Highest' = Amount(i) /\ Delivered' = Delivered + b
           /\ Highest < Amount(i)
           /\ b * Price <= Amount(i) - Highest
           /\ OthersKept(i)
           /\ request[i].phase = "sent"
           /\ \/ b = 0 /\ request'[i].phase = "refused"
              \/ /\ request'[i].phase = "streaming"
                 /\ request'[i].offset = Delivered
                 /\ request'[i].bought = b
                 /\ request'[i].streamed = 0
      BY <1>10, AcceptShape
    <2>2. Delivered' * Price <= Highest'
      <3>1. (Delivered + b) * Price = Delivered * Price + b * Price
        BY <1>3
      <3>2. Delivered * Price \in Nat /\ b * Price \in Nat /\ Amount(i) \in Nat
        BY <1>3, AmountIsNat
      <3>3. QED BY <1>3, <1>4, <2>1, <3>1, <3>2
    <2>3. Size[i] = 0 /\ Over[i] = 0
      BY <2>1 DEF Size, Over, Current
    <2>4. Size'[i] = b
      BY <2>1 DEF Size, Current
    <2>5. Over'[i] = IF request'[i].phase = "refused" THEN 0
                     ELSE b - IF b < IF Text > Delivered THEN Text - Delivered ELSE 0
                              THEN b
                              ELSE IF Text > Delivered THEN Text - Delivered ELSE 0
      BY <2>1 DEF Over, Available
    <2>6. Sum(Size') = Sum(Size) + b /\ Sum(Over') = Sum(Over) + Over'[i]
      BY <1>1, <1>2, <1>6, <2>1, <2>3, <2>4
    <2>7. Sum(Size') <= Delivered'
      BY <1>1, <1>3, <1>4, <2>1, <2>6
    <2>8. Sum(Over') <= Beyond'
      BY <1>1, <1>3, <1>4, <2>1, <2>5, <2>6 DEF Beyond
    <2>9. QED BY <2>2, <2>7, <2>8
  <1>11. ASSUME NEW i \in Requests, Token(i) \/ Dropped(i)
         PROVE  /\ Sum(Size') <= Sum(Size) /\ Sum(Over') <= Sum(Over)
                /\ Delivered' = Delivered /\ Highest' = Highest
    <2>1. /\ Continued(i) /\ Delivered' = Delivered
          /\ request'[i].phase \in {"streaming", "dropped"}
      BY <1>11, TokenShape, DroppedShape
    <2>2. /\ Size'[i] = Size[i] /\ Over'[i] \in {Over[i], 0}
          /\ Size[i] \in Nat /\ Over[i] \in Nat
      BY <1>1, <2>1 DEF Continued, Size, Over, Current
    <2>3. QED BY <1>1, <1>2, <1>6, <2>1, <2>2 DEF Continued
  <1>12. ASSUME NEW i \in Requests, LastToken(i)
         PROVE  /\ Sum(Size') <= Delivered' /\ Delivered' * Price <= Highest'
                /\ Sum(Over') <= Beyond'
    <2> DEFINE over == request[i].bought - Available(i)
    <2>1. /\ Continued(i) /\ session.known
          /\ request'[i].phase = "done"
          /\ request'[i].streamed = Available(i)
          /\ over \in Nat
          /\ Delivered' = IF Delivered > over THEN Delivered - over ELSE 0
      BY <1>12, LastShape DEF Within, Continued
    <2>2. Size[i] = request[i].bought /\ Over[i] = over
      BY <2>1 DEF Continued, Size, Over, Current
    <2>3. Size'[i] = Available(i) /\ Over'[i] = 0
      BY <2>1 DEF Size, Over, Current
    <2>4. /\ Available(i) \in Nat /\ request[i].bought = Available(i) + over
      <3>1. /\ request[i].bought \in Nat /\ Available(i) \in Nat
        BY <2>1, StreamFacts DEF Continued
      <3>2. QED BY <3>1
    <2> HIDE DEF over
    <2>5. /\ Sum(Size') + over = Sum(Size)
          /\ Sum(Over') + over = Sum(Over)
      BY <1>1, <1>2, <1>6, <2>1, <2>2, <2>3, <2>4 DEF Continued
    <2>6. Delivered' = Delivered - over /\ over <= Delivered
      BY <1>1, <1>2, <1>3, <1>4, <2>1, <2>5
    <2>7. Delivered' * Price <= Delivered * Price
      <3>1. PICK d \in Nat : d = Delivered'
        <4>1. Delivered' \in Nat
          BY <1>3, <2>1, <2>6
        <4>2. QED BY <4>1
      <3>2. Delivered = d + over
        BY <1>3, <2>1, <2>6, <3>1
      <3>3. (d + over) * Price = d * Price + over * Price /\ over * Price \in Nat
            /\ d * Price \in Nat
        BY <1>3, <2>1
      <3>4. QED BY <3>1, <3>2, <3>3
    <2>8. Highest' = Highest
      BY <2>1 DEF Continued
    <2>9. Delivered' * Price <= Highest'
      <3>1. Delivered' * Price \in Int /\ Delivered * Price \in Int
        BY <1>3, <2>1, <2>6
      <3>2. QED BY <1>3, <1>4, <2>7, <2>8, <3>1
    <2>10. Sum(Over') <= Beyond'
      BY <1>1, <1>2, <1>3, <1>4, <2>1, <2>5, <2>6 DEF Beyond
    <2>11. QED BY <1>1, <1>2, <1>3, <1>4, <2>1, <2>5, <2>6, <2>9, <2>10
  <1>13. ASSUME NEW i \in Requests,
                /\ Sum(Size') <= Sum(Size) /\ Sum(Over') <= Sum(Over)
                /\ Delivered' = Delivered /\ Highest' = Highest
         PROVE  /\ Sum(Size') <= Delivered' /\ Delivered' * Price <= Highest'
                /\ Sum(Over') <= Beyond'
    BY <1>1, <1>2, <1>3, <1>4, <1>13 DEF Beyond
  <1>14. QED
    BY <1>7, <1>8, <1>9, <1>10, <1>11, <1>12, <1>13, StepShape

LEMMA WithinStep ==
  ASSUME TypeOK, InOrder, Within, Counted, [Next]_vars, TypeOK'
  PROVE  Within'
  <1>1. Highest \in Nat /\ Delivered \in Nat /\ Text \in Nat
    BY SessionFacts, ConstantFacts
  <1>2. \A i \in Requests : Amount(i)' = Amount(i) /\ Amount(i) \in Nat
    BY AmountIsNat, AmountKept, StepShape
  <1> DEFINE W(j) ==
        /\ request'[j].phase \in {"streaming", "done", "dropped"} =>
             /\ session'.known /\ Amount(j) <= Highest'
             /\ request'[j].streamed <= Available(j)'
             /\ End(j)' <= Delivered'
        /\ request'[j].phase = "done" => request'[j].streamed = Available(j)'
  <1>3. SUFFICES ASSUME NEW j \in Requests PROVE W(j)
    BY <1>2 DEF Within
  (* A stream that is not touched: the count does not fall below its end. *)
  <1>4. ASSUME request'[j] = request[j],
               session.known => session'.known,
               Highest <= Highest',
               \/ Delivered' \in Nat /\ Delivered <= Delivered'
               \/ Delivered' \in Nat /\ Text <= Delivered'
        PROVE  W(j)
    <2>1. Available(j)' = Available(j) /\ End(j)' = End(j)
      BY <1>4, AvailableKept
    <2>2. CASE request[j].phase \in {"streaming", "done", "dropped"}
      <3>1. End(j) \in Nat /\ End(j) <= Text /\ Amount(j) \in Nat
        BY <1>2, <2>2, EndFacts
      <3>2. Highest' \in Nat
        <4>1. Numbers'
          BY NumbersAreNat, PTL
        <4>2. QED BY <4>1 DEF Numbers
      <3>3. QED BY <1>1, <1>4, <2>1, <2>2, <3>1, <3>2 DEF Within
    <2>3. QED BY <1>4, <2>1, <2>2
  <1>5. CASE Quiet
    BY <1>1, <1>4, <1>5 DEF Quiet
  <1>6. CASE Restart
    BY <1>6, StreamFacts DEF Restart, Stream
  <1>7. ASSUME NEW i \in Requests, Turned(i) PROVE W(j)
    <2>1. CASE i = j
      BY <1>7, <2>1 DEF Turned
    <2>2. CASE i # j
      BY <1>1, <1>4, <1>7, <2>2 DEF Turned, OthersKept, Highest, Delivered
    <2>3. QED BY <2>1, <2>2
  <1>8. ASSUME NEW i \in Requests, Accept(i) PROVE W(j)
    <2>1. PICK b \in Nat :
           /\ session'.known
           /\ Highest' = Amount(i) /\ Delivered' = Delivered + b
           /\ Highest < Amount(i)
           /\ OthersKept(i)
           /\ \/ b = 0 /\ request'[i].phase = "refused"
              \/ /\ request'[i].phase = "streaming"
                 /\ request'[i].offset = Delivered
                 /\ request'[i].bought = b
                 /\ request'[i].streamed = 0
      BY <1>8, AcceptShape
    <2>2. CASE i = j
      <3>1. CASE request'[i].phase = "refused"
        BY <2>2, <3>1
      <3>2. CASE request'[i].phase = "streaming"
        <4>1. Available(i)' \in Nat /\ End(i)' <= Delivered'
          BY <1>1, <2>1, <3>2 DEF Available, End
        <4>2. QED BY <1>2, <2>1, <2>2, <3>2, <4>1
      <3>3. QED BY <2>1, <3>1, <3>2
    <2>3. CASE i # j
      BY <1>1, <1>2, <1>4, <2>1, <2>3 DEF OthersKept
    <2>4. QED BY <2>2, <2>3
  <1>9. ASSUME NEW i \in Requests, Token(i) \/ Dropped(i) PROVE W(j)
    <2>1. /\ Continued(i) /\ Delivered' = Delivered
          /\ request'[i].phase # "done"
          /\ \/ request'[i].streamed = request[i].streamed
             \/ /\ request'[i].streamed = request[i].streamed + 1
                /\ request[i].streamed < Available(i)
      BY <1>9, TokenShape, DroppedShape
    <2>2. CASE i = j
      <3>1. request[i].streamed \in Nat /\ Available(i) \in Nat
        BY <2>1, StreamFacts DEF Continued
      <3>2. request'[i].streamed <= Available(i)
        BY <2>1, <3>1 DEF Within, Continued
      <3>3. QED BY <2>1, <2>2, <3>2 DEF Within, Continued
    <2>3. CASE i # j
      BY <1>1, <1>4, <2>1, <2>3 DEF Continued, OthersKept
    <2>4. QED BY <2>2, <2>3
  <1>10. ASSUME NEW i \in Requests, LastToken(i) PROVE W(j)
    <2> DEFINE over == request[i].bought - Available(i)
    <2>1. /\ Continued(i) /\ session.known
          /\ request'[i].phase = "done"
          /\ request'[i].streamed = Available(i)
          /\ over \in Nat
          /\ Delivered' = IF Delivered > over THEN Delivered - over ELSE 0
      BY <1>10, LastShape DEF Within, Continued
    <2>2. over <= Beyond
      <3>1. Over[i] = over
        BY <2>1 DEF Over, Continued
      <3>2. Over \in [Requests -> Nat]
        BY SizesAreNat DEF Summands
      <3>3. Sum(Over) \in Nat /\ over <= Sum(Over)
        BY <3>1, <3>2, OneOfMany, PairsAreFinite
      <3>4. QED BY <1>1, <2>1, <3>3 DEF Counted, Beyond
    <2> HIDE DEF over
    <2>3. /\ Delivered' \in Nat
          /\ Delivered' = Delivered \/ Text <= Delivered'
      BY <1>1, <2>1, <2>2 DEF Beyond
    <2>4. CASE i = j
      <3>1. End(i) \in Nat /\ End(i) <= Text /\ End(i) <= Delivered
        BY <2>1, EndFacts DEF Continued, Within
      <3>2. End(i) <= Delivered'
        BY <1>1, <2>3, <3>1
      <3>3. Available(i) \in Nat
        BY <2>1, StreamFacts DEF Continued
      <3>4. QED BY <2>1, <2>4, <3>2, <3>3 DEF Within, Continued
    <2>5. CASE i # j
      BY <1>1, <1>4, <2>1, <2>3, <2>5 DEF Continued, OthersKept
    <2>6. QED BY <2>4, <2>5
  <1>11. QED BY <1>5, <1>6, <1>7, <1>8, <1>9, <1>10, StepShape

LEMMA ApartStep ==
  ASSUME TypeOK, InOrder, Within, Apart, [Next]_vars
  PROVE  Apart'
  <1>1. SUFFICES ASSUME NEW i \in Requests, NEW j \in Requests, i < j,
                        i \in Current', j \in Current'
                 PROVE  End(i)' <= request'[j].offset
    BY DEF Apart, Current
  <1>2. CASE Quiet
    <2>1. i \in Current /\ j \in Current /\ End(i)' = End(i)
      BY <1>1, <1>2, AvailableKept DEF Quiet, Current
    <2>2. QED BY <1>1, <1>2, <2>1 DEF Quiet, Apart
  <1>3. CASE Restart
    BY <1>1, <1>3, StreamFacts DEF Restart, Stream, Current
  <1>4. ASSUME NEW k \in Requests, Turned(k)
        PROVE  End(i)' <= request'[j].offset
    <2>1. k # i /\ k # j
      BY <1>1, <1>4 DEF Turned, Current
    <2>2. request'[i] = request[i] /\ request'[j] = request[j]
      BY <1>4, <2>1 DEF Turned, OthersKept
    <2>3. i \in Current /\ j \in Current /\ End(i)' = End(i)
      BY <1>1, <2>2, AvailableKept DEF Current
    <2>4. QED BY <1>1, <2>2, <2>3 DEF Apart
  (* The last voucher takes its offset from the count. *)
  <1>5. ASSUME NEW k \in Requests, Accept(k)
        PROVE  End(i)' <= request'[j].offset
    <2>1. /\ OthersKept(k) /\ request[k].phase = "sent"
          /\ request'[k].phase = "streaming" => request'[k].offset = Delivered
          /\ request'[k].phase \in {"refused", "streaming"}
      BY <1>5, AcceptShape
    <2>2. k = client.sent
      BY <2>1 DEF InOrder
    <2>3. i # k
      <3>1. CASE i = k
        <4>1. request[j].phase = "none" /\ request'[j] = request[j]
          BY <1>1, <2>1, <2>2, <3>1 DEF InOrder, OthersKept, Requests
        <4>2. QED BY <1>1, <4>1 DEF Current
      <3>2. QED BY <3>1
    <2>4. i \in Current /\ End(i)' = End(i)
      BY <1>1, <2>1, <2>3, AvailableKept DEF Current, OthersKept
    <2>5. CASE j = k
      BY <1>1, <2>1, <2>4, <2>5 DEF Within, Current
    <2>6. CASE j # k
      BY <1>1, <2>1, <2>4, <2>6 DEF Apart, Current, OthersKept
    <2>7. QED BY <2>5, <2>6
  <1>6. ASSUME NEW k \in Requests, Continued(k)
        PROVE  End(i)' <= request'[j].offset
    <2>1. i \in Current /\ End(i)' = End(i)
      BY <1>1, <1>6, AvailableKept DEF Current, OthersKept, Continued
    <2>2. j \in Current /\ request'[j].offset = request[j].offset
      BY <1>1, <1>6 DEF Current, OthersKept, Continued
    <2>3. QED BY <1>1, <2>1, <2>2 DEF Apart
  <1>7. QED
    BY <1>2, <1>3, <1>4, <1>5, <1>6, StepShape, TokenShape, LastShape, DroppedShape

-----------------------------------------------------------------------------
(* What the close claims *)

LEMMA PriceGrows ==
  ASSUME NEW a \in Nat, NEW b \in Nat, a <= b
  PROVE  a * Price <= b * Price /\ a * Price \in Nat /\ b * Price \in Nat
  <1>1. PICK d \in Nat : b = a + d
    <2>1. b - a \in Nat /\ b = a + (b - a)
      OBVIOUS
    <2>2. QED BY <2>1
  <1>2. Price \in Nat
    BY ConstantFacts
  <1>3. /\ (a + d) * Price = a * Price + d * Price
        /\ a * Price \in Nat /\ d * Price \in Nat
    BY <1>2
  <1>4. QED BY <1>1, <1>3

(* The streams that a close knows of do not grow: what is accepted later   *)
(* is for more than it has the signature of.                               *)
LEMMA KnownShrinks ==
  ASSUME StreamInv, [Next]_vars, TypeOK', ~Restart,
         closing.phase \in {"submitted", "closed"},
         closing'.signed = closing.signed
  PROVE  /\ Sum(Known') \in Nat /\ Sum(Known) \in Nat /\ Sum(Known') <= Sum(Known)
         /\ session'.known /\ closing'.signed <= Highest'
  <1> USE DEF StreamInv
  <1>1. /\ Known \in [Requests -> Nat] /\ Known' \in [Requests -> Nat]
        /\ Size \in [Requests -> Nat] /\ Size' \in [Requests -> Nat]
    <2>1. Summands /\ Summands'
      BY SizesAreNat, PTL
    <2>2. QED BY <2>1 DEF Summands
  <1>2. /\ closing.signed \in Nat /\ Highest \in Nat
        /\ closing.signed <= Highest /\ session.known
    BY SessionFacts DEF Claimed, TypeOK, Closing, NotClosing
  <1>3. \A i \in Requests : Amount(i)' = Amount(i) /\ Amount(i) \in Nat
    BY AmountIsNat, AmountKept, StepShape
  <1> DEFINE Shrinks ==
        /\ \A i \in Requests : Known'[i] <= Known[i]
        /\ session'.known /\ closing.signed <= Highest'
  <1>4. ASSUME NEW i \in Requests, OthersKept(i),
               Size'[i] <= Size[i] \/ closing.signed < Amount(i)
        PROVE  \A j \in Requests : Known'[j] <= Known[j]
    <2>1. \A j \in Requests \ {i} : Size'[j] = Size[j]
      BY <1>4, SizeKept DEF OthersKept
    <2>2. ASSUME NEW j \in Requests PROVE Known'[j] <= Known[j]
      <3>1. /\ Known'[j] = IF Amount(j) <= closing.signed THEN Size'[j] ELSE 0
            /\ Known[j] = IF Amount(j) <= closing.signed THEN Size[j] ELSE 0
        BY <1>3 DEF Known
      <3>2. Size[j] \in Nat /\ Size'[j] \in Nat
        BY <1>1
      <3>3. CASE j = i
        BY <1>2, <1>3, <1>4, <3>1, <3>2, <3>3
      <3>4. CASE j # i
        BY <2>1, <3>1, <3>2, <3>4
      <3>5. QED BY <3>3, <3>4
    <2>3. QED BY <2>2
  <1>5. CASE Quiet
    <2>1. Size' = Size
      BY <1>5 DEF Quiet, Size, Current
    <2>2. \A j \in Requests : Known'[j] = Known[j] /\ Known[j] \in Nat
      BY <1>1, <1>3, <2>1 DEF Known
    <2>3. Shrinks
      BY <1>2, <1>5, <2>2 DEF Quiet
    <2>4. QED BY <1>1, <2>3, SumGrows, PairsAreFinite
  <1>6. ASSUME NEW i \in Requests, Turned(i) PROVE Shrinks
    <2>1. Size'[i] = 0 /\ Size[i] \in Nat
      BY <1>1, <1>6 DEF Turned, Size, Current
    <2>2. session'.known /\ Highest' = Highest
      BY <1>2, <1>6 DEF Turned, Highest
    <2>3. QED BY <1>2, <1>4, <1>6, <2>1, <2>2 DEF Turned
  <1>7. ASSUME NEW i \in Requests, Accept(i) PROVE Shrinks
    <2>1. /\ OthersKept(i) /\ session'.known
          /\ Highest' = Amount(i) /\ Highest < Amount(i)
      BY <1>7, AcceptShape
    <2>2. closing.signed < Amount(i)
      BY <1>2, <1>3, <2>1
    <2>3. QED BY <1>2, <1>3, <1>4, <2>1, <2>2
  <1>8. ASSUME NEW i \in Requests, Token(i) \/ LastToken(i) \/ Dropped(i)
        PROVE  Shrinks
    <2>1. /\ Continued(i)
          /\ request'[i].phase = "done" => request'[i].streamed = Available(i)
      BY <1>8, TokenShape, LastShape, DroppedShape DEF Continued
    <2>2. /\ request[i].bought \in Nat /\ Available(i) \in Nat
          /\ Available(i) <= request[i].bought
      BY <2>1, StreamFacts DEF Continued
    <2>3. Size'[i] <= Size[i]
      BY <2>1, <2>2 DEF Continued, Size, Current
    <2>4. QED BY <1>2, <1>4, <2>1, <2>3 DEF Continued
  <1>9. Shrinks \/ Quiet
    BY <1>6, <1>7, <1>8, StepShape
  <1>10. CASE Shrinks
    BY <1>1, <1>10, SumGrows, PairsAreFinite
  <1>11. QED
    BY <1>5, <1>9, <1>10

LEMMA ClaimedStep ==
  ASSUME StreamInv, [Next]_vars, TypeOK'
  PROVE  Claimed'
  <1>1. Sum(Known)' = Sum(Known')
    BY DEF Sum, Pairs
  <1>2. CASE CloseStart
    <2>1. /\ closing'.phase = "submitted" /\ closing'.amount = SettleAmount
          /\ closing'.signed = session.highest /\ session.known
          /\ session' = session /\ request' = request
      BY <1>2 DEF CloseStart
    <2>2. Highest' = session.highest /\ Highest = session.highest
          /\ Delivered = session.delivered
      BY <2>1 DEF Highest, Delivered
    <2>3. Highest \in Nat /\ Delivered \in Nat /\ Price \in Nat
      BY SessionFacts, ConstantFacts DEF StreamInv
    <2>4. SettleAmount = Delivered * Price
      <3>1. Delivered * Price \in Nat /\ Delivered * Price <= Highest
        BY <2>3 DEF StreamInv, Counted
      <3>2. QED BY <2>2, <2>3, <3>1 DEF SettleAmount, FairAmount
    <2>5. /\ Known' \in [Requests -> Nat] /\ Size \in [Requests -> Nat]
      <3>1. Summands /\ Summands'
        BY SizesAreNat, PTL DEF StreamInv
      <3>2. QED BY <3>1 DEF Summands
    <2>6. \A i \in Requests : Known'[i] <= Size[i]
      <3>1. \A i \in Requests : Known'[i] \in {Size[i], 0} /\ Size[i] \in Nat
        BY <2>1, <2>5 DEF Known, Size, Current
      <3>2. QED BY <3>1
    <2>7. Sum(Known') <= Sum(Size) /\ Sum(Known') \in Nat /\ Sum(Size) \in Nat
      BY <2>5, <2>6, SumGrows, PairsAreFinite
    <2>8. Sum(Known') <= Delivered
      BY <2>3, <2>7 DEF StreamInv, Counted
    <2>9. Sum(Known') * Price <= Delivered * Price
      BY <2>3, <2>7, <2>8, PriceGrows
    <2>10. QED BY <1>1, <2>1, <2>2, <2>3, <2>4, <2>9 DEF Claimed
  <1>3. CASE Restart
    <2>1. closing'.phase \notin {"submitted", "closed"}
      BY <1>3 DEF Restart, StreamInv, TypeOK, Closing, NotClosing
    <2>2. QED BY <2>1 DEF Claimed
  <1>4. CASE CloseFails
    <2>1. closing'.phase = "failed"
      BY <1>4 DEF CloseFails, StreamInv, TypeOK, Closing, NotClosing
    <2>2. QED BY <2>1 DEF Claimed
  <1>5. ASSUME closing'.signed = closing.signed, closing'.amount = closing.amount,
               ~Restart, closing.phase \in {"submitted", "closed"},
               closing'.phase = "closed" =>
                   chain'.closed /\ closing.amount <= chain'.settled
        PROVE  Claimed'
    <2>1. /\ Sum(Known') \in Nat /\ Sum(Known) \in Nat /\ Sum(Known') <= Sum(Known)
          /\ session'.known /\ closing'.signed <= Highest'
      BY <1>5, KnownShrinks
    <2>2. Sum(Known') * Price <= Sum(Known) * Price
          /\ Sum(Known') * Price \in Nat /\ Sum(Known) * Price \in Nat
      BY <2>1, PriceGrows
    <2>3. closing.amount \in Nat /\ Sum(Known) * Price <= closing.amount
      BY <1>5 DEF StreamInv, Claimed, TypeOK, Closing, NotClosing
    <2>4. Sum(Known') * Price <= closing'.amount
      BY <1>5, <2>2, <2>3
    <2>5. QED BY <1>1, <1>5, <2>1, <2>4 DEF Claimed
  <1>6. CASE CloseLands
    <2>1. closing \in Closing
      BY <1>6 DEF CloseLands, StreamInv, TypeOK, Closing, NotClosing
    <2>2. /\ closing'.signed = closing.signed /\ closing'.amount = closing.amount
          /\ closing.phase = "submitted" \/ closing'.phase = "orphaned"
      BY <1>6, <2>1 DEF CloseLands, Closing
    <2>3. chain'.closed /\ closing.amount <= chain'.settled
      <3>1. closing.amount \in Nat /\ chain.settled \in Nat
        BY <2>1 DEF StreamInv, TypeOK, Closing
      <3>2. QED BY <1>6, <3>1 DEF CloseLands, ChainClose, StreamInv, TypeOK
    <2>4. ~Restart
      BY <1>6 DEF CloseLands, Restart, StreamInv, TypeOK, ChannelSession, NoSession
    <2>5. CASE closing.phase = "submitted"
      BY <1>5, <2>2, <2>3, <2>4, <2>5
    <2>6. CASE closing'.phase = "orphaned"
      BY <2>6 DEF Claimed
    <2>7. QED BY <2>2, <2>5, <2>6
  <1>7. CASE closing' = closing /\ ~Restart
    <2>1. chain.closed => chain'.closed /\ chain'.settled = chain.settled
      BY DEF StreamInv, TypeOK, Next, vars, OpenLands, ClientStep, Start,
             SendVoucher, ReadToEnd, StreamBreaks, Stop, Leave, Close, CloseStart,
             CloseLands, CloseFails, Closable, Repeat, RequestFails, Restart, Serving,
             Accept, Refuse, Token, LastToken, Dropped, Settling, SettleLands,
             SettleFails, SettleNoted, ChainSettle, Settleable
    <2>2. CASE closing.phase \in {"submitted", "closed"}
      BY <1>5, <1>7, <2>1, <2>2 DEF StreamInv, Claimed
    <2>3. CASE closing.phase \notin {"submitted", "closed"}
      BY <1>7, <2>3 DEF Claimed
    <2>4. QED BY <2>2, <2>3
  <1>8. \/ CloseStart \/ CloseLands \/ CloseFails \/ Restart \/ closing' = closing
    BY DEF Next, vars, OpenLands, ClientStep, Start, SendVoucher, ReadToEnd,
           StreamBreaks, Stop, Leave, Close, Repeat, RequestFails, Serving, Accept,
           Refuse, Token, LastToken, Dropped, Settling, SettleLands, SettleFails,
           SettleNoted
  <1>9. QED BY <1>2, <1>3, <1>4, <1>6, <1>7, <1>8

-----------------------------------------------------------------------------
(* The theorems *)

LEMMA StreamInit == Init => StreamInv
  <1> SUFFICES ASSUME Init PROVE StreamInv
    OBVIOUS
  <1>1. TypeOK
    BY TypeInit
  <1>2. \A i \in Requests : request[i].phase = "none"
    BY DEF Init, NoRequest
  <1>3. /\ client.phase = "idle" /\ client.sent = 0 /\ ~client.waiting
        /\ closing.phase = "none"
    BY DEF Init, NotClosing
  <1>4. Highest = 0 /\ Delivered = 0
    BY DEF Init, NoSession, Highest, Delivered
  <1>5. Summands
    BY <1>1, SizesAreNat
  <1>6. Sum(Size) = 0 /\ Sum(Over) = 0
    BY <1>2, <1>5, NoPairs DEF Summands, Size, Over, Current
  <1>7. Counted
    BY <1>4, <1>6, ConstantFacts DEF Counted, Beyond
  <1>8. InOrder
    BY <1>2, <1>3 DEF InOrder
  <1>9. Within /\ Apart /\ Claimed
    BY <1>2, <1>3 DEF Within, Apart, Claimed, Current
  <1>10. QED BY <1>1, <1>7, <1>8, <1>9 DEF StreamInv

LEMMA StreamStep == StreamInv /\ [Next]_vars => StreamInv'
  <1> SUFFICES ASSUME StreamInv, [Next]_vars PROVE StreamInv'
    OBVIOUS
  <1>1. TypeOK' /\ InOrder'
    BY TypeStep, OrderStep DEF StreamInv
  <1>2. Within' /\ Counted' /\ Apart'
    BY <1>1, WithinStep, CountedStep, ApartStep DEF StreamInv
  <1>3. Claimed'
    BY <1>1, ClaimedStep
  <1>4. QED BY <1>1, <1>2, <1>3 DEF StreamInv

LEMMA StreamInvariant == Spec => []StreamInv
  BY StreamInit, StreamStep, PTL DEF Spec

(* The server's map, the streams, the tasks, the chain and the client hold *)
(* values of their types: the count never falls below zero, and no stream  *)
(* goes beyond its text.                                                   *)
THEOREM TypeCorrect == Spec => []TypeOK
  BY StreamInvariant, PTL DEF StreamInv

(* No stream has a token that another one of the same life of the server   *)
(* had: the count they take their offsets from is ahead of them.           *)
THEOREM NoTokenTwice == Spec => []NothingSoldTwice
  <1>1. StreamInv => NothingSoldTwice
    <2> SUFFICES ASSUME StreamInv, NEW i \in Current, NEW j \in Current, i < j
                 PROVE  Tokens(i) \cap Tokens(j) = {}
      <3>1. \A i, j \in Current : i # j => i < j \/ j < i
        BY ConstantFacts DEF Current, Requests
      <3>2. QED BY <3>1 DEF NothingSoldTwice
    <2>1. ASSUME NEW k \in Current
          PROVE  /\ request[k].offset \in Nat /\ request[k].streamed \in Nat
                 /\ End(k) \in Nat
                 /\ request[k].streamed > 0 =>
                      request[k].offset + request[k].streamed <= End(k)
      <3>1. k \in Requests /\ request[k].phase \in {"streaming", "done", "dropped"}
        BY DEF Current
      <3>2. /\ request[k].offset \in Nat /\ request[k].streamed \in Nat
            /\ Available(k) \in Nat
        BY <3>1, StreamFacts DEF StreamInv
      <3>3. /\ End(k) \in Nat
            /\ Available(k) > 0 => request[k].offset + Available(k) = End(k)
        BY <3>1, EndFacts DEF StreamInv
      <3>4. request[k].streamed <= Available(k)
        BY <3>1 DEF StreamInv, Within
      <3>5. QED BY <3>2, <3>3, <3>4
    <2>2. End(i) <= request[j].offset
      BY DEF StreamInv, Apart
    <2>3. ASSUME NEW t \in Tokens(i), t \in Tokens(j) PROVE FALSE
      BY <2>1, <2>2, <2>3 DEF Tokens
    <2>4. QED BY <2>3
  <1>2. QED BY <1>1, StreamInvariant, PTL

(* The part of the count that some of the streams stand for. *)
Part(S) == [i \in Requests |-> IF i \in S THEN Size[i] ELSE 0]

LEMMA StreamedIsPart ==
  ASSUME StreamInv, NEW S \in SUBSET Current
  PROVE  /\ Part(S) \in [Requests -> Nat]
         /\ Streamed(S) \in Nat /\ Streamed(S) <= Sum(Part(S))
         /\ (\A i \in S : request[i].phase = "done") => Streamed(S) = Sum(Part(S))
  <1> DEFINE T == UNION {{i} \X (1..request[i].streamed) : i \in S}
  <1>1. \A i \in S :
          /\ i \in Requests
          /\ request[i].streamed \in Nat /\ Part(S)[i] \in Nat
          /\ request[i].streamed <= Part(S)[i]
          /\ request[i].phase = "done" => request[i].streamed = Part(S)[i]
    <2> SUFFICES ASSUME NEW i \in S
                 PROVE  /\ i \in Requests
                        /\ request[i].streamed \in Nat /\ Part(S)[i] \in Nat
                        /\ request[i].streamed <= Part(S)[i]
                        /\ request[i].phase = "done" =>
                             request[i].streamed = Part(S)[i]
      OBVIOUS
    <2>1. i \in Requests /\ request[i].phase \in {"streaming", "done", "dropped"}
      BY DEF Current
    <2>2. /\ request[i].streamed \in Nat /\ request[i].bought \in Nat
          /\ Available(i) \in Nat /\ Available(i) <= request[i].bought
          /\ request[i].streamed <= Available(i)
      BY <2>1, StreamFacts DEF StreamInv, Within
    <2>3. Part(S)[i] = IF request[i].phase = "done" THEN request[i].streamed
                       ELSE request[i].bought
      BY <2>1 DEF Part, Size, Current
    <2>4. QED BY <2>1, <2>2, <2>3
  <1>2. \A i \in Requests \ S : Part(S)[i] = 0
    BY DEF Part
  <1>3. Part(S) \in [Requests -> Nat]
    BY SizesAreNat DEF Part, Summands, StreamInv
  <1> HIDE DEF Part
  <1>4. T \subseteq Pairs(Part(S))
    <2>1. ASSUME NEW i \in S PROVE 1..request[i].streamed \subseteq 1..Part(S)[i]
      <3>1. /\ request[i].streamed \in Nat /\ Part(S)[i] \in Nat
            /\ request[i].streamed <= Part(S)[i]
        BY <1>1
      <3>2. QED BY <3>1
    <2>2. QED BY <1>1, <2>1 DEF Pairs
  <1>5. /\ IsFiniteSet(T) /\ Cardinality(T) \in Nat
        /\ Cardinality(T) <= Sum(Part(S))
    BY <1>3, <1>4, PairsAreFinite, FS_Subset, FS_CardinalityType DEF Sum
  <1>6. ASSUME \A i \in S : request[i].phase = "done" PROVE T = Pairs(Part(S))
    <2>1. \A i \in S : request[i].streamed = Part(S)[i]
      BY <1>1, <1>6
    <2>2. \A i \in Requests \ S : {i} \X (1..Part(S)[i]) = {}
      BY <1>2
    <2>3. QED BY <1>1, <2>1, <2>2 DEF Pairs
  <1>7. Streamed(S) = Cardinality(T)
    BY DEF Streamed
  <1>8. QED BY <1>3, <1>5, <1>6, <1>7 DEF Sum

(* A close that has landed has paid for all that was streamed for the      *)
(* vouchers it knew of, whatever was accepted, streamed or settled while   *)
(* it was under way.                                                       *)
THEOREM EveryStreamIsSettled == Spec => []StreamedIsSettled
  <1>1. StreamInv => StreamedIsSettled
    <2> SUFFICES ASSUME StreamInv, closing.phase = "closed"
                 PROVE  Streamed({i \in Current : Amount(i) <= closing.signed}) * Price
                            <= chain.settled
      BY DEF StreamedIsSettled
    <2> DEFINE S == {i \in Current : Amount(i) <= closing.signed}
    <2>1. Part(S) = Known
      BY DEF Part, Known, Size, Current
    <2>2. Streamed(S) \in Nat /\ Streamed(S) <= Sum(Known)
      BY <2>1, StreamedIsPart
    <2>3. Sum(Known) \in Nat
      BY SizesAreNat, PairsAreFinite DEF Summands, StreamInv
    <2>4. /\ Streamed(S) * Price <= Sum(Known) * Price
          /\ Streamed(S) * Price \in Nat /\ Sum(Known) * Price \in Nat
      BY <2>2, <2>3, PriceGrows
    <2>5. Sum(Known) * Price <= closing.amount /\ closing.amount <= chain.settled
      BY DEF StreamInv, Claimed
    <2>6. closing.amount \in Nat /\ chain.settled \in Nat
      BY DEF StreamInv, TypeOK, Closing, NotClosing
    <2>7. QED BY <2>4, <2>5, <2>6
  <1>2. QED BY <1>1, StreamInvariant, PTL

LEMMA ExactInit == DeployedInit => Exact
  <1> SUFFICES ASSUME Init PROVE Exact
    BY DEF DeployedInit
  <1>1. StreamInv
    BY StreamInit
  <1>2. Sum(Size) \in Nat /\ Sum(Size) <= Delivered /\ Delivered = 0
    BY <1>1, SizesAreNat, PairsAreFinite
       DEF StreamInv, Summands, Counted, Init, Delivered, NoSession
  <1>3. client.sent = 0 /\ \A i \in Requests : i > 0
    BY DEF Init, Requests
  <1>4. QED BY <1>2, <1>3, ConstantFacts DEF Exact, Ended, Requests

LEMMA EndedStep ==
  ASSUME StreamInv, Ended, Next, Reliable
  PROVE  Ended'
  <1> USE DEF StreamInv
  <1>1. client.sent \in Nat /\ \A i \in Requests : i \in Nat
    BY ConstantFacts DEF TypeOK, Requests
  <1>2. CASE /\ request' = request /\ client'.sent = client.sent
             /\ client'.waiting = client.waiting \/ ~client.waiting
    BY <1>2 DEF Ended
  <1>3. CASE SendVoucher
    <2>1. /\ client'.sent = client.sent + 1 /\ client'.waiting /\ ~client.waiting
          /\ \A i \in Requests : request'[i] =
               IF i = client.sent + 1 THEN [phase |-> "sent"] ELSE request[i]
      BY <1>3 DEF SendVoucher, TypeOK
    <2>2. \A i \in Requests : i <= client.sent => request[i].phase = "done"
      BY <2>1 DEF Ended
    <2>3. QED BY <1>1, <2>1, <2>2 DEF Ended
  <1>4. CASE ReadToEnd
    <2>1. /\ client'.sent = client.sent /\ request' = request
          /\ request[client.sent].phase = "done"
      BY <1>4 DEF ReadToEnd, TypeOK
    <2>2. QED BY <1>1, <2>1 DEF Ended
  <1>5. ASSUME NEW i \in Requests, Serving(i) PROVE Ended'
    <2>1. client' = client /\ \A j \in Requests \ {i} : request'[j] = request[j]
      BY <1>5 DEF Serving, Accept, Refuse, Token, LastToken, TypeOK
    <2>2. /\ request[i].phase \in {"sent", "streaming"}
          /\ request'[i].phase \in {"streaming", "refused", "done"}
      <3>1. CASE Accept(i) \/ Refuse(i)
        BY <3>1 DEF Accept, Refuse, TypeOK
      <3>2. CASE Token(i) \/ LastToken(i)
        BY <3>2, TokenShape, LastShape DEF Continued
      <3>3. QED BY <1>5, <3>1, <3>2 DEF Serving
    <2>3. QED BY <2>1, <2>2 DEF Ended
  <1>6. CASE \/ Start
             \/ Leave
             \/ Stop /\ ~client.waiting
    BY <1>2, <1>6 DEF Start, Leave, Stop, TypeOK
  <1>7. CASE OpenLands \/ CloseStart \/ CloseLands
             \/ \E i \in Requests : SettleLands(i) \/ SettleNoted(i)
    BY <1>2, <1>7 DEF OpenLands, CloseStart, CloseLands, SettleLands, SettleNoted
  <1>8. QED BY <1>3, <1>4, <1>5, <1>6, <1>7 DEF Reliable

LEMMA SumStep ==
  ASSUME StreamInv, StreamInv', Sum(Size) = Delivered, Next, Reliable
  PROVE  Sum(Size') = Delivered'
  <1> USE DEF StreamInv
  <1>1. /\ Size \in [Requests -> Nat] /\ Size' \in [Requests -> Nat]
        /\ Sum(Size) \in Nat /\ Sum(Size') \in Nat /\ Delivered \in Nat
    <2>1. Summands /\ Summands'
      BY SizesAreNat, PTL
    <2>2. QED BY <2>1, PairsAreFinite, SessionFacts DEF Summands
  <1>2. ASSUME NEW i \in Requests, OthersKept(i)
        PROVE  Sum(Size') + Size[i] = Sum(Size) + Size'[i]
    <2>1. \A j \in Requests \ {i} : Size'[j] = Size[j]
      BY <1>2, SizeKept DEF OthersKept
    <2>2. QED BY <1>1, <2>1, OneChanges
  <1>3. CASE Quiet
    <2>1. Size' = Size
      BY <1>3 DEF Quiet, Size, Current
    <2>2. QED BY <1>3, <2>1 DEF Quiet
  <1>4. ASSUME NEW i \in Requests, Turned(i), request[i].phase \in {"none", "sent"}
        PROVE  Sum(Size') = Delivered'
    <2>1. Size[i] = 0 /\ Size'[i] = 0 /\ Delivered' = Delivered
      BY <1>4 DEF Turned, Size, Current, Delivered
    <2>2. QED BY <1>1, <1>2, <1>4, <2>1 DEF Turned
  <1>5. ASSUME NEW i \in Requests, Accept(i) PROVE Sum(Size') = Delivered'
    <2>1. PICK b \in Nat :
           /\ Delivered' = Delivered + b
           /\ OthersKept(i) /\ request[i].phase = "sent"
           /\ \/ b = 0 /\ request'[i].phase = "refused"
              \/ request'[i].phase = "streaming" /\ request'[i].bought = b
      BY <1>5, AcceptShape
    <2>2. Size[i] = 0 /\ Size'[i] = b
      BY <2>1 DEF Size, Current
    <2>3. QED BY <1>1, <1>2, <2>1, <2>2
  <1>6. ASSUME NEW i \in Requests, Token(i) PROVE Sum(Size') = Delivered'
    <2>1. Continued(i) /\ Delivered' = Delivered /\ request'[i].phase = "streaming"
      BY <1>6, TokenShape
    <2>2. Size'[i] = Size[i] /\ Size[i] \in Nat
      BY <1>1, <2>1 DEF Continued, Size, Current
    <2>3. QED BY <1>1, <1>2, <2>1, <2>2 DEF Continued
  <1>7. ASSUME NEW i \in Requests, LastToken(i) PROVE Sum(Size') = Delivered'
    <2> DEFINE over == request[i].bought - Available(i)
    <2>1. /\ Continued(i) /\ session.known
          /\ request'[i].phase = "done"
          /\ request'[i].streamed = Available(i)
          /\ over \in Nat
          /\ Delivered' = IF Delivered > over THEN Delivered - over ELSE 0
      BY <1>7, LastShape DEF Within, Continued
    <2>2. Size[i] = request[i].bought /\ Size'[i] = Available(i)
      BY <2>1 DEF Continued, Size, Current
    <2>3. /\ Available(i) \in Nat /\ request[i].bought = Available(i) + over
      <3>1. /\ request[i].bought \in Nat /\ Available(i) \in Nat
        BY <2>1, StreamFacts DEF Continued
      <3>2. QED BY <3>1
    <2> HIDE DEF over
    <2>4. Sum(Size') + over = Sum(Size)
      BY <1>1, <1>2, <2>1, <2>2, <2>3 DEF Continued
    <2>5. QED BY <1>1, <2>1, <2>4
  <1>8. CASE SendVoucher
    <2>1. client.sent + 1 \in Requests
      BY <1>8, ConstantFacts DEF SendVoucher, TypeOK, Requests
    <2>2. Turned(client.sent + 1)
      BY <1>8, <2>1 DEF SendVoucher, Turned, OthersKept, TypeOK
    <2>3. request[client.sent + 1].phase = "none"
      BY <2>1, ConstantFacts DEF InOrder, TypeOK
    <2>4. QED BY <1>4, <2>1, <2>2, <2>3
  <1>9. ASSUME NEW i \in Requests, Refuse(i) PROVE Sum(Size') = Delivered'
    <2>1. Turned(i) /\ request[i].phase = "sent"
      BY <1>9 DEF Refuse, Turned, OthersKept, TypeOK
    <2>2. QED BY <1>4, <2>1
  <1>10. ASSUME NEW i \in Requests, SettleNoted(i) PROVE Quiet
    <2>1. CASE session \in ChannelSession
      BY <1>10, <2>1 DEF SettleNoted, Quiet, Highest, Delivered, ChannelSession
    <2>2. CASE session = NoSession
      BY <1>10, <2>2 DEF SettleNoted, Quiet, Highest, Delivered, NoSession
    <2>3. QED BY <2>1, <2>2 DEF TypeOK
  <1>11. CASE UNCHANGED <<request, session>>
    BY <1>3, <1>11 DEF Quiet, Highest, Delivered
  <1>12. CASE OpenLands \/ Start \/ ReadToEnd \/ Stop \/ CloseStart \/ CloseLands
              \/ Leave \/ \E i \in Requests : SettleLands(i)
    BY <1>11, <1>12 DEF OpenLands, Start, ReadToEnd, Stop, CloseStart, CloseLands,
                        Leave, SettleLands
  <1>13. QED
    BY <1>3, <1>5, <1>6, <1>7, <1>8, <1>9, <1>10, <1>12 DEF Reliable, Serving

LEMMA ExactStep ==
  ASSUME StreamInv, StreamInv', Exact, [DeployedNext]_DeployedVars
  PROVE  Exact'
  <1>1. premises' = premises
    BY DEF DeployedNext, DeployedVars
  <1>2. CASE UNCHANGED DeployedVars
    BY <1>2 DEF DeployedVars, vars, Exact, Ended, Size, Current, Delivered, Sum, Pairs
  <1>3. CASE "reliable" \notin premises
    BY <1>1, <1>3 DEF Exact
  <1>4. CASE "reliable" \in premises /\ DeployedNext
    <2>1. Next /\ Reliable
      BY <1>4 DEF DeployedNext, Observed
    <2>2. Sum(Size') = Delivered' /\ Ended'
      BY <1>4, <2>1, SumStep, EndedStep DEF Exact
    <2>3. QED BY <2>2 DEF Exact, Sum, Pairs
  <1>5. QED BY <1>2, <1>3, <1>4

(* The count that a channel is closed by stays between what was paid for   *)
(* and what was streamed, and is what was streamed where nothing is lost.  *)
THEOREM TheCountIsFair == DeployedSpec => []CountIsFair
  <1>1. StreamInv /\ Exact => CountIsFair
    <2> SUFFICES ASSUME StreamInv, Exact PROVE CountIsFair
      OBVIOUS
    <2>1. Part(Current) = Size
      BY DEF Part, Size, Current
    <2>2. /\ Streamed(Current) \in Nat /\ Streamed(Current) <= Sum(Size)
          /\ (\A i \in Current : request[i].phase = "done") =>
               Streamed(Current) = Sum(Size)
      BY <2>1, StreamedIsPart
    <2>3. Sum(Size) \in Nat
      BY SizesAreNat, PairsAreFinite DEF Summands, StreamInv
    <2>4. Highest \in Nat /\ Delivered \in Nat
      BY SessionFacts DEF StreamInv
    <2>5. session.known => session.highest = Highest /\ session.delivered = Delivered
      BY SessionFacts DEF StreamInv
    <2>6. CountedIsPaid
      BY <2>5 DEF CountedIsPaid, StreamInv, Counted
    <2>7. StreamedIsCounted
      BY <2>2, <2>3, <2>4, <2>5 DEF StreamedIsCounted, StreamInv, Counted
    <2>8. CountIsExact
      <3> SUFFICES ASSUME session.known, "reliable" \in premises, ~client.waiting
                   PROVE  session.delivered = Streamed(Current)
        BY DEF CountIsExact
      <3>1. ASSUME NEW i \in Current PROVE request[i].phase = "done"
        <4>1. i \in Requests /\ request[i].phase # "none"
          BY DEF Current
        <4>2. i \in Nat /\ client.sent \in Nat
          BY <4>1, ConstantFacts DEF StreamInv, TypeOK, Requests
        <4>3. i <= client.sent
          BY <4>1, <4>2 DEF StreamInv, InOrder
        <4>4. QED BY <4>1, <4>3 DEF Exact, Ended
      <3>2. QED BY <2>2, <2>5, <3>1 DEF Exact
    <2>9. QED BY <2>6, <2>7, <2>8 DEF CountIsFair
  <1>2. DeployedSpec => Spec
    <2>1. DeployedInit => Init
      BY DEF DeployedInit
    <2>2. [DeployedNext]_DeployedVars => [Next]_vars
      BY DEF DeployedNext, DeployedVars, vars
    <2>3. QED BY <2>1, <2>2, PTL DEF DeployedSpec, Spec
  <1>3. StreamInv /\ StreamInv' /\ Exact /\ [DeployedNext]_DeployedVars => Exact'
    BY ExactStep
  <1>4. QED
    BY <1>1, <1>2, <1>3, ExactInit, StreamInvariant, PTL DEF DeployedSpec

-----------------------------------------------------------------------------
(* The services that run beside the stream in MCExamples *)

Services == INSTANCE PaidServiceProofs WITH
    Calls <- Visits, Deployments <- ServiceDeployments

(* MCExamples has its own copy of the operators of PaidServiceSafety. *)
LEMMA ServiceIsServices ==
    /\ Service!ServiceAssumption <=> Services!ServiceAssumption
    /\ Service!DeployedInit => Services!DeployedInit
    /\ Service!Init => Services!Init
    /\ Service!DeployedNext => Services!Next /\ Services!Noted
    /\ Services!TypeOK => Service!TypeOK
    /\ Services!PassedIsPaid => Service!PassedIsPaid
    /\ Services!LimitHolds => Service!LimitHolds
    /\ Services!CompletedIsDone => Service!CompletedIsDone
    /\ Services!NothingInVain => Service!NothingInVain
<1>1. Service!ServiceAssumption <=> Services!ServiceAssumption
  BY DEF Service!ServiceAssumption, Services!ServiceAssumption
<1>2. Service!DeployedInit => Services!DeployedInit
  BY DEF Service!DeployedInit, Services!DeployedInit, Service!Init, Services!Init,
         Service!AllSteps, Services!AllSteps, Service!Scrape, Services!Scrape,
         Service!Pipeline, Services!Pipeline, Service!Quick, Services!Quick,
         Service!Uniform, Services!Uniform, Service!Setups, Services!Setups
<1>3. Services!TypeOK => Service!TypeOK
  BY DEF Service!TypeOK, Services!TypeOK, Service!Handler, Services!Handler,
         Service!AllSteps, Services!AllSteps, Service!Scrape, Services!Scrape,
         Service!Pipeline, Services!Pipeline, Service!Setups, Services!Setups,
         Service!Most, Services!Most
<1>4. Services!PassedIsPaid => Service!PassedIsPaid
  BY DEF Service!PassedIsPaid, Services!PassedIsPaid, Service!AllSteps, Services!AllSteps
<1>5. Services!LimitHolds => Service!LimitHolds
  BY DEF Service!LimitHolds, Services!LimitHolds, Service!PassedWithin, Services!PassedWithin,
         Service!Cardinality, Services!Cardinality, Service!Most, Services!Most
<1>6. Services!CompletedIsDone => Service!CompletedIsDone
  BY DEF Service!CompletedIsDone, Services!CompletedIsDone, Service!AllSteps, Services!AllSteps
<1>7. Services!NothingInVain => Service!NothingInVain
  BY DEF Service!NothingInVain, Services!NothingInVain, Service!Steps, Services!Steps
<1>8. \A c \in Visits :
         /\ Service!Ask(c) <=> Services!Ask(c)
         /\ Service!Pay(c) <=> Services!Pay(c)
         /\ Service!Executes(c) <=> Services!Executes(c)
         /\ Service!Present(c) <=> Services!Present(c)
         /\ Service!GiveUp(c) <=> Services!GiveUp(c)
         /\ Service!Shown(c) <=> Services!Shown(c)
         /\ Service!Break(c) <=> Services!Break(c)
  BY DEF Service!Ask, Services!Ask, Service!Pay, Services!Pay,
         Service!Executes, Services!Executes, Service!Present,
         Services!Present, Service!GiveUp, Services!GiveUp, Service!Shown,
         Services!Shown, Service!Break, Services!Break, Service!Unchanged,
         Services!Unchanged
<1>9. \A c \in Visits :
         /\ Service!Verify(c) <=> Services!Verify(c)
         /\ Service!Reject(c) <=> Services!Reject(c)
         /\ Service!Enter(c) <=> Services!Enter(c)
  BY DEF Service!Verify, Services!Verify, Service!Reject, Services!Reject,
         Service!Enter, Services!Enter, Service!Verified, Services!Verified,
         Service!Answer, Services!Answer, Service!Passes, Services!Passes,
         Service!Over, Services!Over, Service!Within, Services!Within,
         Service!Entry, Services!Entry, Service!Counted, Services!Counted,
         Service!Stored, Services!Stored, Service!Refused, Services!Refused,
         Service!Unchanged, Services!Unchanged
<1>10. \A c \in Visits :
         /\ Service!Works(c) <=> Services!Works(c)
         /\ Service!Fails(c) <=> Services!Fails(c)
  BY DEF Service!Works, Services!Works, Service!Fails, Services!Fails,
         Service!Performed, Services!Performed, Service!Succeeded,
         Services!Succeeded, Service!Failed, Services!Failed, Service!Moved,
         Services!Moved, Service!Again, Services!Again, Service!Retried,
         Services!Retried
<1>11. /\ Service!Cleanup <=> Services!Cleanup
       /\ Service!Tick <=> Services!Tick
  BY DEF Service!Cleanup, Services!Cleanup, Service!Tick, Services!Tick,
         Service!Kept, Services!Kept
<1>12. Service!Next <=> Services!Next
  BY <1>8, <1>9, <1>10, <1>11
    DEF Service!Next, Services!Next, Service!Paying, Services!Paying,
         Service!Serving, Services!Serving
<1>13. Service!Noted => Services!Noted
  <2>1. \A c \in Visits : Service!Passing(c) <=> Services!Passing(c)
    BY <1>9 DEF Service!Passing, Services!Passing
  <2>2. {<<c, clock>> : c \in {d \in Visits : Service!Passing(d)}}
          = {<<c, clock>> : c \in {d \in Visits : Services!Passing(d)}}
    BY <2>1
  <2>3. [c \in Visits |-> [i \in Service!AllSteps |->
           unheard[c][i] + IF Service!Fails(c) THEN effect'[c][i] - effect[c][i] ELSE 0]]
          = [c \in Visits |-> [i \in Services!AllSteps |->
           unheard[c][i] + IF Services!Fails(c) THEN effect'[c][i] - effect[c][i] ELSE 0]]
    BY <1>10 DEF Service!AllSteps, Services!AllSteps
  <2> QED
    BY <2>2, <2>3 DEF Service!Noted, Services!Noted
<1>14. Service!DeployedNext => Services!Next /\ Services!Noted
  BY <1>12, <1>13 DEF Service!DeployedNext, Service!Rest
<1>15. Service!Init => Services!Init
  BY DEF Service!Init, Services!Init, Service!AllSteps, Services!AllSteps,
         Service!Setups, Services!Setups,
         Service!Scrape, Services!Scrape, Service!Pipeline, Services!Pipeline
<1> QED
  BY <1>1, <1>2, <1>3, <1>4, <1>5, <1>6, <1>7, <1>14, <1>15

(* The invariant of the services holds beside the stream. *)
BesideStream ==
    /\ Services!TypeOK
    /\ example = "service" => Services!ServiceInv /\ Services!LimitInv

LEMMA ServiceBesideStream == ExamplesSpec => []BesideStream
<1>1. Services!ServiceAssumption
  BY ServiceIsServices, ExamplesAssumption
<1>2. ExamplesInit => BesideStream
  <2>1. CASE example # "service" /\ NoService
    BY <1>1, <2>1, ServiceIsServices, Services!InitTyped DEF NoService, BesideStream
  <2>2. CASE example = "service" /\ Service!DeployedInit
    BY <1>1, <2>2, ServiceIsServices, Services!InitService
      DEF BesideStream, Services!ServiceInv
  <2> QED
    BY <2>1, <2>2 DEF ExamplesInit
<1>3. ASSUME BesideStream, [ExamplesNext]_ExamplesVars
      PROVE  BesideStream'
  <2>1. CASE example = "service" /\ Service!DeployedNext /\ example' = example
    <3>1. Services!Next /\ Services!Noted
      BY <2>1, ServiceIsServices
    <3>2. Services!ServiceInv' /\ Services!LimitInv'
      BY <1>1, <1>3, <2>1, <3>1, Services!NextService DEF BesideStream
    <3> QED
      BY <3>2 DEF BesideStream, Services!ServiceInv
  <2>2. CASE UNCHANGED serviceVars /\ example' = example
    <3>1. Services!TypeOK'
      BY <1>3, <2>2 DEF BesideStream, serviceVars, Services!TypeOK, Services!Most
    <3>2. example = "service" => Services!ServiceInv' /\ Services!LimitInv'
      <4> SUFFICES ASSUME example = "service"
                   PROVE  Services!ServiceInv' /\ Services!LimitInv'
        OBVIOUS
      <4>1. Services!ServiceInv /\ Services!LimitInv
        BY <1>3 DEF BesideStream
      <4>2. UNCHANGED <<page, tx, handler, effect, windows, clock, setup, passed, unheard>>
        BY <2>2 DEF serviceVars
      <4> QED
        BY <1>1, <4>1, <4>2, Services!NothingHappens
    <3> QED
      BY <2>2, <3>1, <3>2 DEF BesideStream
  <2>3. \/ example = "service" /\ Service!DeployedNext /\ example' = example
        \/ UNCHANGED serviceVars /\ example' = example
    BY <1>3 DEF ExamplesNext, ExamplesVars
  <2> QED
    BY <2>1, <2>2, <2>3
<1> QED
  BY <1>2, <1>3, PTL DEF ExamplesSpec

(* Beside the stream, too: only what is paid passes the limiter or is      *)
(* worked for, and no more passes in the length of a window than in two    *)
(* that meet.                                                              *)
THEOREM TheLimitHolds == ExamplesSpec => []LimitHolds
<1>1. BesideStream => LimitHolds
  BY ExamplesAssumption, ServiceIsServices, Services!InvIsLimit
    DEF BesideStream, LimitHolds
<1> QED
  BY <1>1, ServiceBesideStream, PTL

(* And what was done for a call is what its server knows of and could not  *)
(* know of, and no more is asked for without what is required.             *)
THEOREM CompletedAreDone == ExamplesSpec => []CompletedIsDone
<1>1. BesideStream => CompletedIsDone
  BY ServiceIsServices, Services!InvIsDone DEF BesideStream, CompletedIsDone
<1> QED
  BY <1>1, ServiceBesideStream, PTL

=============================================================================
