--------------------------- MODULE VoicePaymentsProofs ---------------------------
(***************************************************************************)
(* What vouchers are worth to the host of a voice call, for any calls,     *)
(* prices and deposits: no page leaves its types, and what the host has    *)
(* accepted it holds until it is paid, and can claim.                      *)
(***************************************************************************)
EXTENDS VoicePaymentsSafety, SequenceTheorems, TLAPS

-----------------------------------------------------------------------------
(* The invariant of every behaviour *)

(* A caller signs for no more than it has deposited, and adds no time that *)
(* the bound has no room for; before it has paid there is nothing, and     *)
(* connections, and what is done in a call, come when it has started.      *)
CallerOK(k, on, ch) ==
    /\ k.signed <= k.deposit
    /\ ch.deposit <= k.deposit
    /\ k.start \in {"none", "paying"} => k.deposit = 0
    /\ k.connected \/ k.adding \/ k.state = "in_call" => k.start = "done"
    /\ k.adding => k.deposit + TopUp <= MaxDeposit
    /\ \A i \in 1..Len(on) : on[i] \in 1..k.signed

(* A voucher was signed by its caller. *)
Signed(v) == v # NoVoucher => v.amount <= caller[v.call].signed

IInv ==
    /\ TypeOK
    /\ \A c \in Calls : CallerOK(caller[c], wire[c], chain[c])
    /\ Signed(host.voucher) /\ Signed(host.stored)

-----------------------------------------------------------------------------
(* Where transactions are executed, callers have what they deposited.      *)

Funded == \A c \in Calls : chain[c].deposit = caller[c].deposit

(* A caller that was answered does not ring again. *)
Over(c) == caller[c].start = "done" /\ caller[c].state # "ringing"

(* The page, where it is in order: what it shows says which connections it *)
(* has, which handlers wait and whether it holds a voucher; and what the   *)
(* wallet is asked for is the voucher it holds, or a lower one of the call.*)
InOrder(h) ==
    /\ h.stored = h.voucher
    /\ h.going \/ h.leaving => h.status \in {"offline", "online"}
    /\ h.handler # "none" <=> h.status = "settling"
    /\ h.starting # {} => h.status = "in_call"
    /\ h.open # {} => h.status = "in_call" \/ h.handler = "hanging up"
    /\ h.open \subseteq {h.current}
    /\ h.joined \subseteq h.open
    /\ h.status \in {"offline", "online"} => h.voucher = NoVoucher
    /\ h.status = "in_call" \/ h.handler = "hanging up" =>
         /\ h.starting \cup h.open \subseteq {h.id}
         /\ h.voucher # NoVoucher => h.voucher.call = h.id
    /\ h.handler \notin {"hanging up", "collecting"} => h.settling = NoVoucher
    /\ h.settling # NoVoucher =>
         /\ h.voucher # NoVoucher
         /\ h.settling.call = h.voucher.call
         /\ h.settling.amount <= h.voucher.amount

(* What was earned is held or has been paid, and vouchers come only from   *)
(* callers that have not paid.                                             *)
Accounts == \A c \in Calls :
    /\ earned[c] <= Held(c) \/ earned[c] <= chain[c].paid
    /\ chain[c].paid # 0 => earned[c] <= chain[c].paid
    /\ c \in host.joined => chain[c].paid = 0
    /\ c \in host.joined \/ Held(c) # 0 \/ chain[c].paid # 0 => Over(c)

(* What the wallet is asked for pays for what was earned.                  *)
Claims(v, c) ==
    \/ earned[c] <= chain[c].paid
    \/ v # NoVoucher /\ v.call = c /\ earned[c] <= v.amount

Covered == \A c \in Calls :
    /\ host.handler \in {"hanging up", "collecting"} => Claims(host.settling, c)
    /\ host.handler = "paid" => earned[c] <= chain[c].paid

KeptInv ==
    /\ earned \in [Calls -> Nat]
    /\ InOrder(host)
    /\ Accounts
    /\ Covered

-----------------------------------------------------------------------------
(* Pieces of the state *)

LEMMA VoucherOrNone ==
    ASSUME NEW v \in Vouchers
    PROVE  /\ v # NoVoucher <=> v \in Voucher
           /\ v.amount \in Amounts
           /\ v # NoVoucher => v.call \in Calls /\ v.amount \in Amounts \ {0}
<1>1. v \in Voucher => v.amount # 0 /\ v.amount \in Amounts /\ v.call \in Calls
  BY DEF Voucher
<1>2. NoVoucher.amount = 0 /\ 0 \in Amounts
  BY PaymentsAssumption DEF NoVoucher, Amounts
<1> QED
  BY <1>1, <1>2 DEF Vouchers

LEMMA IInvCaller ==
    ASSUME IInv, NEW c \in Calls
    PROVE  /\ caller[c] \in Caller
           /\ wire[c] \in Seq(Amounts)
           /\ chain[c] \in Channel
           /\ CallerOK(caller[c], wire[c], chain[c])
BY DEF IInv, TypeOK

LEMMA VoucherIsNat == ASSUME NEW v \in Vouchers PROVE v.amount \in Nat
<1>1. v.amount \in Amounts
  BY VoucherOrNone
<1> QED
  BY <1>1, PaymentsAssumption DEF Amounts

LEMMA ChannelIsNat ==
    ASSUME IInv, NEW c \in Calls
    PROVE  chain[c].paid \in Nat /\ chain[c].deposit \in Nat
<1>1. chain[c] \in Channel
  BY IInvCaller
<1>2. chain[c].paid \in Amounts /\ chain[c].deposit \in Amounts
  BY <1>1 DEF Channel
<1> QED
  BY <1>2, PaymentsAssumption DEF Amounts

(* A step of one caller that signs no less, with its wire and its channel. *)
LEMMA CallerStep ==
    ASSUME IInv, NEW c \in Calls,
           NEW k \in Caller, caller' = [caller EXCEPT ![c] = k],
           NEW on \in Seq(Amounts), wire' = [wire EXCEPT ![c] = on],
           NEW ch \in Channel, chain' = [chain EXCEPT ![c] = ch],
           CallerOK(k, on, ch), caller[c].signed <= k.signed,
           server' \subseteq Calls, host' \in Host,
           host'.voucher = host.voucher, host'.stored = host.stored
    PROVE  IInv'
<1>1. /\ caller'[c] = k /\ wire'[c] = on /\ chain'[c] = ch
      /\ \A d \in Calls \ {c} :
             caller'[d] = caller[d] /\ wire'[d] = wire[d] /\ chain'[d] = chain[d]
  BY DEF IInv, TypeOK
<1>2. TypeOK'
  BY DEF IInv, TypeOK
<1>3. ASSUME NEW d \in Calls PROVE CallerOK(caller'[d], wire'[d], chain'[d])
  BY <1>1, IInvCaller
<1>4. \A d \in Calls : caller[d].signed \in Nat /\ k.signed \in Nat
  BY SMTT(30), IInvCaller, PaymentsAssumption DEF Caller, Amounts
<1>5. ASSUME NEW v \in Vouchers, Signed(v)
      PROVE  v # NoVoucher => v.amount <= caller'[v.call].signed
  <2> SUFFICES ASSUME v # NoVoucher
               PROVE  v.amount <= caller'[v.call].signed
    OBVIOUS
  <2>1. v.call \in Calls /\ v.amount \in Nat /\ v.amount <= caller[v.call].signed
    BY <1>5, VoucherOrNone, PaymentsAssumption DEF Signed, Amounts
  <2>2. CASE v.call = c
    BY <1>1, <1>4, <2>1, <2>2
  <2>3. CASE v.call # c
    BY <1>1, <2>1, <2>3
  <2> QED
    BY <2>2, <2>3
<1>6. host.voucher \in Vouchers /\ host.stored \in Vouchers
  BY DEF IInv, TypeOK, Host
<1>7. Signed(host.voucher)' /\ Signed(host.stored)'
  BY <1>5, <1>6 DEF IInv, Signed
<1> QED
  BY <1>2, <1>3, <1>7 DEF IInv

(* A step of the host's page, which forgets, or shows what it has stored.  *)
LEMMA HostStep ==
    ASSUME IInv, host' \in Host, server' \subseteq Calls,
           host'.voucher \in {NoVoucher, host.voucher, host.stored},
           host'.stored \in {NoVoucher, host.voucher, host.stored},
           UNCHANGED <<caller, wire>>,
           chain' \in [Calls -> Channel],
           \A c \in Calls : chain'[c].deposit = chain[c].deposit
    PROVE  IInv'
<1>1. TypeOK'
  BY DEF IInv, TypeOK
<1>2. \A c \in Calls : CallerOK(caller[c], wire[c], chain'[c])
  BY DEF IInv, CallerOK
<1> QED
  BY <1>1, <1>2 DEF IInv, Signed

-----------------------------------------------------------------------------
(* The caller's page *)

LEMMA Prices ==
    /\ Initial \in Amounts \ {0} /\ Deposit \in Amounts \ {0} /\ Initial <= Deposit
    /\ Delta \in Nat \ {0} /\ TopUp \in Nat \ {0}
    /\ MaxDeposit \in Nat /\ Amounts = 0..MaxDeposit
BY PaymentsAssumption DEF Amounts

LEMMA DepositGrows ==
    ASSUME NEW ch \in Channel, NEW a \in Nat, ch.deposit + a <= MaxDeposit
    PROVE  /\ [ch EXCEPT !.deposit = @ + a] \in Channel
           /\ [ch EXCEPT !.deposit = @ + a].deposit = ch.deposit + a
           /\ [ch EXCEPT !.deposit = @ + a].paid = ch.paid
<1>1. ch.deposit \in Nat /\ ch.deposit + a \in Amounts
  BY Prices DEF Channel
<1> QED
  BY <1>1 DEF Channel

(* Steps that sign nothing and leave wire and channel alone. *)
LEMMA CallerOnly ==
    ASSUME IInv, NEW c \in Calls,
           NEW k \in Caller, caller' = [caller EXCEPT ![c] = k],
           UNCHANGED <<wire, chain>>, server' \subseteq Calls,
           host' \in Host,
           host'.voucher = host.voucher, host'.stored = host.stored,
           k.deposit = caller[c].deposit, k.signed = caller[c].signed,
           k.start \in {"none", "paying"} => k.deposit = 0,
           k.connected \/ k.adding \/ k.state = "in_call" => k.start = "done",
           k.adding => k.deposit + TopUp <= MaxDeposit
    PROVE  IInv'
<1>1. CallerOK(k, wire[c], chain[c])
  BY IInvCaller DEF CallerOK
<1>2. wire' = [wire EXCEPT ![c] = wire[c]] /\ chain' = [chain EXCEPT ![c] = chain[c]]
  BY DEF IInv, TypeOK
<1>3. caller[c].signed <= k.signed
  BY IInvCaller, PaymentsAssumption DEF Caller, Amounts
<1> QED
  BY <1>1, <1>2, <1>3, IInvCaller, CallerStep

LEMMA StartingIInv ==
    ASSUME IInv, NEW c \in Calls, Starting(c)
    PROVE  IInv'
<1> DEFINE k == caller[c]
<1>0. /\ k \in Caller
      /\ wire[c] \in Seq(Amounts)
      /\ chain[c] \in Channel
      /\ CallerOK(k, wire[c], chain[c])
      /\ server \subseteq Calls
      /\ host \in Host
  BY IInvCaller DEF IInv, TypeOK
<1>1. CASE StartCall(c)
  <2> DEFINE e == [k EXCEPT !.state = "connecting", !.start = "paying"]
  <2>1. e \in Caller
    BY <1>0 DEF Caller
  <2>2. /\ e.deposit = k.deposit /\ e.signed = k.signed
        /\ e.start = "paying" /\ e.state = "connecting"
        /\ e.connected = k.connected /\ e.adding = k.adding
    BY <1>0 DEF Caller
  <2>3. caller' = [caller EXCEPT ![c] = e]
    BY <1>1 DEF StartCall
  <2>4. k.deposit = 0 /\ ~k.connected /\ ~k.adding
    BY <1>0, <1>1 DEF StartCall, CallerOK, Caller
  <2>5. UNCHANGED <<wire, chain, server, host>>
    BY <1>1 DEF StartCall
  <2> HIDE DEF e
  <2> QED
    BY <1>0, <2>1, <2>2, <2>3, <2>4, <2>5, CallerOnly
<1>2. CASE Pay(c)
  <2> DEFINE e == [k EXCEPT !.start = "paid", !.deposit = Deposit, !.signed = Initial]
  <2>1. e \in Caller
    BY <1>0, Prices DEF Caller
  <2>2. /\ e.deposit = Deposit /\ e.signed = Initial
        /\ e.start = "paid" /\ e.state = k.state
        /\ e.connected = k.connected /\ e.adding = k.adding
    BY <1>0 DEF Caller
  <2>3. caller' = [caller EXCEPT ![c] = e]
    BY <1>2 DEF Pay
  <2>4. /\ k.deposit = 0 /\ k.signed = 0 /\ chain[c].deposit = 0
        /\ k.state # "in_call" /\ ~k.connected /\ ~k.adding
    BY <1>0, <1>2, Prices DEF Pay, CallerOK, Caller, Channel
  <2>5. PICK ch \in Channel : /\ chain' = [chain EXCEPT ![c] = ch]
                              /\ ch.deposit <= Deposit
    <3>1. CASE UNCHANGED chain
      <4>1. chain' = [chain EXCEPT ![c] = chain[c]]
        BY <3>1 DEF IInv, TypeOK
      <4>2. 0 <= Deposit
        BY Prices
      <4> QED
        BY <1>0, <2>4, <4>1, <4>2
    <3>2. CASE chain' = [chain EXCEPT ![c].deposit = @ + Deposit]
      <4> DEFINE ch == [chain[c] EXCEPT !.deposit = @ + Deposit]
      <4>1. ch \in Channel /\ ch.deposit = Deposit
        <5>1. /\ Deposit \in Nat /\ chain[c].deposit + Deposit <= MaxDeposit
              /\ chain[c].deposit + Deposit = Deposit
          BY <2>4, Prices
        <5> QED
          BY <1>0, <5>1, DepositGrows
      <4>2. chain' = [chain EXCEPT ![c] = ch]
        BY <3>2
      <4> HIDE DEF ch
      <4>3. Deposit <= Deposit
        BY Prices
      <4> QED
        BY <4>1, <4>2, <4>3
    <3> QED
      BY <1>2, <3>1, <3>2 DEF Pay, Deposited
  <2>6. UNCHANGED <<wire, server, host>> /\ wire' = [wire EXCEPT ![c] = wire[c]]
    BY <1>2 DEF Pay, IInv, TypeOK
  <2>7. CallerOK(e, wire[c], ch)
    <3>1. \A i \in 1..Len(wire[c]) : wire[c][i] \in 1..Initial
      BY <1>0, <2>4 DEF CallerOK
    <3> QED
      BY <2>2, <2>4, <2>5, <3>1, Prices DEF CallerOK
  <2>8. k.signed <= e.signed
    BY <2>2, <2>4, Prices
  <2> HIDE DEF e
  <2> QED
    BY <1>0, <2>1, <2>3, <2>5, <2>6, <2>7, <2>8, CallerStep
<1>3. CASE Post(c)
  <2> DEFINE e == [k EXCEPT !.state = "ringing", !.start = "posted"]
  <2>1. e \in Caller
    BY <1>0 DEF Caller
  <2>2. /\ e.deposit = k.deposit /\ e.signed = k.signed
        /\ e.start = "posted" /\ e.state = "ringing"
        /\ e.connected = k.connected /\ e.adding = k.adding
    BY <1>0 DEF Caller
  <2>3. caller' = [caller EXCEPT ![c] = e]
    BY <1>3 DEF Post
  <2>4. ~k.connected /\ ~k.adding
    BY <1>0, <1>3 DEF Post, CallerOK, Caller
  <2>5. UNCHANGED <<wire, chain, host>> /\ server' \subseteq Calls
    BY <1>0, <1>3 DEF Post
  <2> HIDE DEF e
  <2> QED
    BY <1>0, <2>1, <2>2, <2>3, <2>4, <2>5, CallerOnly
<1>4. CASE Connect(c)
  <2> DEFINE e == [k EXCEPT !.start = "done", !.connected = TRUE]
  <2>1. e \in Caller
    BY <1>0 DEF Caller
  <2>2. /\ e.deposit = k.deposit /\ e.signed = k.signed
        /\ e.start = "done" /\ e.adding = k.adding
    BY <1>0 DEF Caller
  <2>3. caller' = [caller EXCEPT ![c] = e]
    BY <1>4 DEF Connect
  <2>4. ~k.adding
    BY <1>0, <1>4 DEF Connect, CallerOK, Caller
  <2>5. UNCHANGED <<wire, chain, host, server>>
    BY <1>4 DEF Connect
  <2> HIDE DEF e
  <2> QED
    BY <1>0, <2>1, <2>2, <2>3, <2>4, <2>5, CallerOnly
<1>5. CASE StartFails(c)
  <2> DEFINE e == [k EXCEPT !.state = "idle", !.start = "failed",
                            !.connected = FALSE]
  <2>1. e \in Caller
    BY <1>0 DEF Caller
  <2>2. /\ e.deposit = k.deposit /\ e.signed = k.signed
        /\ e.start = "failed" /\ e.state = "idle"
        /\ ~e.connected /\ e.adding = k.adding
    BY <1>0 DEF Caller
  <2>3. caller' = [caller EXCEPT ![c] = e]
    BY <1>5 DEF StartFails
  <2>4. ~k.adding
    BY <1>0, <1>5 DEF StartFails, CallerOK, Caller
  <2>5. UNCHANGED <<wire, chain, host, server>>
    BY <1>5 DEF StartFails
  <2> HIDE DEF e
  <2> QED
    BY <1>0, <2>1, <2>2, <2>3, <2>4, <2>5, CallerOnly
<1> QED
  BY <1>1, <1>2, <1>3, <1>4, <1>5 DEF Starting

LEMMA CallingIInv ==
    ASSUME IInv, NEW c \in Calls, Calling(c)
    PROVE  IInv'
<1> DEFINE k == caller[c]
<1>0. /\ k \in Caller
      /\ wire[c] \in Seq(Amounts)
      /\ chain[c] \in Channel
      /\ CallerOK(k, wire[c], chain[c])
      /\ server \subseteq Calls
      /\ host \in Host
  BY IInvCaller DEF IInv, TypeOK
<1>1. CASE Answered(c)
  <2> DEFINE e == [k EXCEPT !.state = "in_call"]
             h == [host EXCEPT !.joined = @ \cup {c}]
  <2>1. e \in Caller
    BY <1>0 DEF Caller
  <2>2. /\ e.deposit = k.deposit /\ e.signed = k.signed
        /\ e.start = k.start /\ e.adding = k.adding
    BY <1>0 DEF Caller
  <2>3. caller' = [caller EXCEPT ![c] = e] /\ host' = h
    BY <1>1 DEF Answered
  <2>4. h \in Host /\ h.voucher = host.voucher /\ h.stored = host.stored
    BY <1>0 DEF Host
  <2>5. k.start = "done"
    BY <1>0, <1>1 DEF Answered, CallerOK
  <2>6. k.adding => k.deposit + TopUp <= MaxDeposit
    BY <1>0 DEF CallerOK
  <2>7. UNCHANGED <<wire, chain, server>>
    BY <1>1 DEF Answered
  <2> HIDE DEF e, h
  <2> QED
    BY <1>0, <2>1, <2>2, <2>3, <2>4, <2>5, <2>6, <2>7, CallerOnly
<1>2. CASE Voucher5s(c)
  <2> DEFINE a == k.signed + Delta
             e == [k EXCEPT !.signed = a]
  <2>1. k.signed \in Nat /\ k.deposit \in Amounts /\ chain[c].deposit \in Nat
    BY <1>0, Prices DEF Caller, Channel
  <2>2. a \in Amounts \ {0} /\ k.signed <= a /\ a <= k.deposit
    BY SMTT(30), <1>2, <2>1, Prices DEF Voucher5s, Affordable
  <2>3. /\ e \in Caller
        /\ e.deposit = k.deposit /\ e.signed = a
        /\ e.start = k.start /\ e.state = k.state
        /\ e.connected = k.connected /\ e.adding = k.adding
    BY <1>0, <2>2 DEF Caller
  <2>4. caller' = [caller EXCEPT ![c] = e]
    BY <1>2 DEF Voucher5s
  <2>5. PICK on \in Seq(Amounts) :
          /\ wire' = [wire EXCEPT ![c] = on]
          /\ \A i \in 1..Len(on) : on[i] \in 1..a
    <3>1. \A i \in 1..Len(wire[c]) : wire[c][i] \in 1..a
      <4>1. \A i \in 1..Len(wire[c]) : wire[c][i] \in 1..k.signed
        BY <1>0 DEF CallerOK
      <4>2. a \in Nat
        BY <2>1, Prices
      <4> QED
        BY <2>1, <2>2, <4>1, <4>2
    <3>2. CASE UNCHANGED wire
      <4>1. wire' = [wire EXCEPT ![c] = wire[c]]
        BY <3>2 DEF IInv, TypeOK
      <4> QED
        BY <1>0, <3>1, <4>1
    <3>3. CASE wire' = [wire EXCEPT ![c] = Append(@, a)]
      <4> DEFINE on == Append(wire[c], a)
      <4>1. /\ on \in Seq(Amounts)
            /\ Len(on) = Len(wire[c]) + 1
            /\ on[Len(wire[c]) + 1] = a
            /\ \A i \in 1..Len(wire[c]) : on[i] = wire[c][i]
        BY <1>0, <2>2, AppendProperties
      <4>2. wire' = [wire EXCEPT ![c] = on]
        BY <3>3
      <4>3. Len(wire[c]) \in Nat
        BY <1>0
      <4> HIDE DEF on, a
      <4>4. a \in 1..a
        BY <2>2, Prices
      <4>5. \A i \in 1..Len(on) : i = Len(wire[c]) + 1 \/ i \in 1..Len(wire[c])
        BY <4>1, <4>3
      <4>6. \A i \in 1..Len(on) : on[i] \in 1..a
        BY <3>1, <4>1, <4>4, <4>5
      <4> QED
        BY <4>1, <4>2, <4>6
    <3> QED
      BY <1>2, <3>2, <3>3 DEF Voucher5s
  <2>6. /\ chain' = [chain EXCEPT ![c] = chain[c]]
        /\ UNCHANGED <<server, host>>
    BY <1>2 DEF Voucher5s, IInv, TypeOK
  <2> HIDE DEF e, a
  <2>7. CallerOK(e, on, chain[c])
    BY <1>0, <2>2, <2>3, <2>5 DEF CallerOK
  <2> QED
    BY <1>0, <2>2, <2>3, <2>4, <2>5, <2>6, <2>7, CallerStep
<1>3. CASE HangUp(c)
  <2> DEFINE e == [k EXCEPT !.state = "hanging_up", !.connected = FALSE,
                            !.posting = Naming(c)]
  <2>1. e \in Caller
    BY <1>0 DEF Caller, Naming
  <2>2. /\ e.deposit = k.deposit /\ e.signed = k.signed
        /\ e.start = k.start /\ e.state = "hanging_up"
        /\ ~e.connected /\ e.adding = k.adding
    BY <1>0 DEF Caller
  <2>3. caller' = [caller EXCEPT ![c] = e]
    BY <1>3 DEF HangUp
  <2>4. UNCHANGED <<wire, chain, host, server>>
    BY <1>3 DEF HangUp
  <2> HIDE DEF e
  <2> QED
    BY <1>0, <2>1, <2>2, <2>3, <2>4, CallerOnly DEF CallerOK
<1>4. CASE HangUpEnds(c)
  <2> DEFINE e == [k EXCEPT !.state = "ended", !.posting = "none"]
  <2>1. e \in Caller
    BY <1>0 DEF Caller
  <2>2. /\ e.deposit = k.deposit /\ e.signed = k.signed
        /\ e.start = k.start /\ e.state = "ended"
        /\ e.connected = k.connected /\ e.adding = k.adding
    BY <1>0 DEF Caller
  <2>3. caller' = [caller EXCEPT ![c] = e]
    BY <1>4 DEF HangUpEnds
  <2>4. UNCHANGED <<wire, chain, host>> /\ server' \subseteq Calls
    BY <1>0, <1>4 DEF HangUpEnds
  <2> HIDE DEF e
  <2> QED
    BY <1>0, <2>1, <2>2, <2>3, <2>4, CallerOnly DEF CallerOK
<1>5. CASE AddTime(c)
  <2> DEFINE e == [k EXCEPT !.adding = TRUE]
  <2>1. e \in Caller
    BY <1>0 DEF Caller
  <2>2. /\ e.deposit = k.deposit /\ e.signed = k.signed
        /\ e.start = k.start /\ e.state = k.state
        /\ e.connected = k.connected
    BY <1>0 DEF Caller
  <2>3. caller' = [caller EXCEPT ![c] = e]
    BY <1>5 DEF AddTime
  <2>4. UNCHANGED <<wire, chain, host, server>>
    BY <1>5 DEF AddTime
  <2>5. k.start = "done" /\ k.deposit + TopUp <= MaxDeposit
    BY <1>0, <1>5 DEF AddTime, CallerOK
  <2> HIDE DEF e
  <2> QED
    BY <1>0, <2>1, <2>2, <2>3, <2>4, <2>5, CallerOnly
<1>6. CASE TimeAdded(c)
  <2>0. /\ k.start = "done" /\ k.deposit + TopUp <= MaxDeposit
        /\ k.deposit \in Nat /\ k.signed \in Nat /\ chain[c].deposit \in Nat
        /\ chain[c].deposit <= k.deposit /\ k.signed <= k.deposit
    BY <1>0, <1>6, Prices DEF TimeAdded, CallerOK, Caller, Channel
  <2> DEFINE a == k.deposit + TopUp
             e == [k EXCEPT !.adding = FALSE, !.deposit = a]
  <2>1. a \in Amounts /\ k.deposit <= a
    BY <2>0, Prices
  <2>2. /\ e \in Caller
        /\ e.deposit = a /\ e.signed = k.signed
        /\ e.start = k.start /\ e.state = k.state
        /\ e.connected = k.connected /\ ~e.adding
    BY <1>0, <2>1 DEF Caller
  <2>3. caller' = [caller EXCEPT ![c] = e]
    BY <1>6 DEF TimeAdded
  <2>4. PICK ch \in Channel : chain' = [chain EXCEPT ![c] = ch] /\ ch.deposit <= a
    <3>1. CASE UNCHANGED chain
      <4>1. chain' = [chain EXCEPT ![c] = chain[c]]
        BY <3>1 DEF IInv, TypeOK
      <4>2. chain[c].deposit <= a
        BY <2>0, <2>1, Prices
      <4> QED
        BY <1>0, <4>1, <4>2
    <3>2. CASE chain' = [chain EXCEPT ![c].deposit = @ + TopUp]
      <4> DEFINE ch == [chain[c] EXCEPT !.deposit = @ + TopUp]
      <4>1. chain[c].deposit + TopUp <= a /\ a <= MaxDeposit /\ TopUp \in Nat
        BY <2>0, Prices
      <4>2. chain[c].deposit + TopUp <= MaxDeposit
        BY <2>0, <4>1, Prices
      <4>3. ch \in Channel /\ ch.deposit = chain[c].deposit + TopUp
        BY <1>0, <4>1, <4>2, DepositGrows
      <4>4. chain' = [chain EXCEPT ![c] = ch]
        BY <3>2
      <4> HIDE DEF ch, a
      <4> QED
        BY <4>1, <4>3, <4>4
    <3> QED
      BY <1>6, <3>1, <3>2 DEF TimeAdded, Deposited
  <2>5. /\ wire' = [wire EXCEPT ![c] = wire[c]]
        /\ UNCHANGED <<server, host>>
    BY <1>6 DEF TimeAdded, IInv, TypeOK
  <2>6. k.signed <= a /\ k.signed <= k.signed
    BY <2>0, <2>1, Prices
  <2> HIDE DEF e, a
  <2>7. CallerOK(e, wire[c], ch)
    BY <1>0, <2>0, <2>2, <2>4, <2>6 DEF CallerOK
  <2> QED
    BY <1>0, <2>2, <2>3, <2>4, <2>5, <2>6, <2>7, CallerStep
<1>7. CASE AddTimeFails(c)
  <2> DEFINE e == [k EXCEPT !.adding = FALSE]
  <2>1. e \in Caller
    BY <1>0 DEF Caller
  <2>2. /\ e.deposit = k.deposit /\ e.signed = k.signed
        /\ e.start = k.start /\ e.state = k.state
        /\ e.connected = k.connected /\ ~e.adding
    BY <1>0 DEF Caller
  <2>3. caller' = [caller EXCEPT ![c] = e]
    BY <1>7 DEF AddTimeFails
  <2>4. UNCHANGED <<wire, chain, host, server>>
    BY <1>7 DEF AddTimeFails
  <2> HIDE DEF e
  <2> QED
    BY <1>0, <2>1, <2>2, <2>3, <2>4, CallerOnly DEF CallerOK
<1> QED
  BY <1>1, <1>2, <1>3, <1>4, <1>5, <1>6, <1>7 DEF Calling

-----------------------------------------------------------------------------
(* The host's page *)

LEMMA CleanedPage ==
    ASSUME NEW h \in Host
    PROVE  /\ Cleaned(h) \in Host
           /\ Cleaned(h).status = h.status /\ Cleaned(h).id = h.id
           /\ Cleaned(h).current = NoCall
           /\ Cleaned(h).open = h.open \ {h.current}
           /\ Cleaned(h).joined = h.joined \ {h.current}
           /\ Cleaned(h).starting = h.starting
           /\ Cleaned(h).voucher = h.voucher /\ Cleaned(h).stored = h.stored
           /\ Cleaned(h).settling = h.settling
           /\ Cleaned(h).handler = h.handler
           /\ Cleaned(h).going = h.going /\ Cleaned(h).leaving = h.leaving
BY DEF Cleaned, Host

(* Whatever event ends the call, the page keeps its voucher. *)
LEMMA EndedPage ==
    ASSUME NEW h \in Host
    PROVE  /\ Ended(h) \in Host
           /\ Ended(h).voucher = h.voucher /\ Ended(h).stored = h.stored
           /\ Ended(h).settling = h.settling /\ Ended(h).starting = h.starting
           /\ Ended(h).handler = h.handler
           /\ Ended(h).going = h.going /\ Ended(h).leaving = h.leaving
           /\ h.status # "in_call" => Ended(h) = h
           /\ h.status = "in_call" =>
                /\ Ended(h).status = IF Unsettled THEN "unsettled" ELSE "online"
                /\ Ended(h).current = NoCall
                /\ Ended(h).open = h.open \ {h.current}
                /\ Ended(h).joined = h.joined \ {h.current}
<1> DEFINE p == Cleaned(h)
           s == IF Unsettled THEN "unsettled" ELSE "online"
           e == [p EXCEPT !.id = NoCall, !.status = s]
<1>1. p \in Host
  BY CleanedPage
<1>2. s \in {"unsettled", "online"}
  OBVIOUS
<1> HIDE DEF p, s
<1>3. /\ e \in Host
      /\ e.voucher = p.voucher /\ e.stored = p.stored
      /\ e.settling = p.settling /\ e.starting = p.starting
      /\ e.handler = p.handler /\ e.going = p.going /\ e.leaving = p.leaving
      /\ e.status = s /\ e.current = p.current
      /\ e.open = p.open /\ e.joined = p.joined
  BY <1>1, <1>2 DEF Host
<1>4. CallOver(h) = e
  BY DEF CallOver, p, s
<1> HIDE DEF e
<1>5. CASE h.status = "in_call"
  <2>1. Ended(h) = e
    BY <1>4, <1>5 DEF Ended
  <2> QED
    BY <1>3, <1>5, <2>1, CleanedPage DEF p, s
<1>6. CASE h.status # "in_call"
  BY <1>6 DEF Ended
<1> QED
  BY <1>5, <1>6

(* Nothing but the page changes, and it makes no voucher.                  *)
LEMMA PageStep ==
    ASSUME IInv, HostOnly, host' \in Host,
           host'.voucher \in {NoVoucher, host.voucher, host.stored},
           host'.stored \in {NoVoucher, host.voucher, host.stored}
    PROVE  IInv'
BY HostStep DEF HostOnly, IInv, TypeOK

LEMMA ClaimedChain ==
    ASSUME IInv, NEW v \in Vouchers, Claimed(v)
    PROVE  /\ chain' \in [Calls -> Channel]
           /\ \A c \in Calls : chain'[c].deposit = chain[c].deposit
<1>1. CASE UNCHANGED chain
  BY <1>1 DEF IInv, TypeOK
<1>2. CASE Payable(v) /\ chain' = [chain EXCEPT ![v.call].paid = v.amount]
  <2>1. v.call \in Calls /\ v.amount \in Amounts
    BY <1>2, VoucherOrNone DEF Payable
  <2> DEFINE ch == [chain[v.call] EXCEPT !.paid = v.amount]
  <2>2. ch \in Channel /\ ch.deposit = chain[v.call].deposit
    BY <2>1 DEF IInv, TypeOK, Channel
  <2>3. chain' = [chain EXCEPT ![v.call] = ch]
    BY <1>2
  <2> HIDE DEF ch
  <2> QED
    BY <2>1, <2>2, <2>3 DEF IInv, TypeOK
<1> QED
  BY <1>1, <1>2 DEF Claimed

(* What a handler that asked the wallet leaves of the page.                *)
LEMMA TellsPage ==
    ASSUME host \in Host, NEW o \in {"paid", "unpaid"}
    PROVE  /\ Tells(o) \in Host
           /\ Tells(o).status = host.status /\ Tells(o).starting = host.starting
           /\ Tells(o).open = host.open \ {host.current}
           /\ Tells(o).joined = host.joined \ {host.current}
           /\ Tells(o).voucher = host.voucher /\ Tells(o).stored = host.stored
           /\ Tells(o).handler = o /\ Tells(o).settling = NoVoucher
           /\ Tells(o).going = host.going /\ Tells(o).leaving = host.leaving
<1> DEFINE p == Cleaned(host)
           e == [p EXCEPT !.handler = o, !.settling = NoVoucher,
                          !.telling = host.id]
<1>1. p \in Host /\ host.id \in Calls \cup {NoCall}
  BY CleanedPage DEF Host
<1>2. o \in {"none", "hanging up", "paid", "unpaid", "collecting"}
  OBVIOUS
<1> HIDE DEF p
<1>3. /\ e \in Host
      /\ e.status = p.status /\ e.starting = p.starting
      /\ e.open = p.open /\ e.joined = p.joined
      /\ e.voucher = p.voucher /\ e.stored = p.stored
      /\ e.handler = o /\ e.settling = NoVoucher
      /\ e.going = p.going /\ e.leaving = p.leaving
  BY <1>1, <1>2 DEF Host, Vouchers
<1>4. Tells(o) = e
  BY DEF Tells, p
<1> HIDE DEF e
<1> QED
  BY <1>3, <1>4, CleanedPage DEF p

LEMMA ForgottenPage ==
    ASSUME NEW h \in Host
    PROVE  /\ Forgotten(h) \in Host
           /\ Forgotten(h).status = "online" /\ Forgotten(h).handler = "none"
           /\ Forgotten(h).settling = NoVoucher
           /\ Forgotten(h).voucher = NoVoucher /\ Forgotten(h).stored = NoVoucher
           /\ Forgotten(h).open = h.open /\ Forgotten(h).joined = h.joined
           /\ Forgotten(h).starting = h.starting
           /\ Forgotten(h).going = h.going /\ Forgotten(h).leaving = h.leaving
<1> DEFINE e == [h EXCEPT !.status = "online", !.handler = "none",
                          !.settling = NoVoucher, !.voucher = NoVoucher,
                          !.stored = NoVoucher]
<1>1. /\ e \in Host
      /\ e.status = "online" /\ e.handler = "none" /\ e.settling = NoVoucher
      /\ e.voucher = NoVoucher /\ e.stored = NoVoucher
      /\ e.open = h.open /\ e.joined = h.joined /\ e.starting = h.starting
      /\ e.going = h.going /\ e.leaving = h.leaving
  BY DEF Host, Vouchers
<1>2. Forgotten(h) = e
  BY DEF Forgotten
<1> HIDE DEF e
<1> QED
  BY <1>1, <1>2

LEMMA KeptPage ==
    ASSUME NEW h \in Host
    PROVE  /\ Kept(h) \in Host
           /\ Kept(h).status = "unsettled" /\ Kept(h).handler = "none"
           /\ Kept(h).settling = NoVoucher
           /\ Kept(h).voucher = h.voucher /\ Kept(h).stored = h.stored
           /\ Kept(h).open = h.open /\ Kept(h).joined = h.joined
           /\ Kept(h).starting = h.starting
           /\ Kept(h).going = h.going /\ Kept(h).leaving = h.leaving
<1> DEFINE e == [h EXCEPT !.status = "unsettled", !.handler = "none",
                          !.settling = NoVoucher]
<1>1. /\ e \in Host
      /\ e.status = "unsettled" /\ e.handler = "none" /\ e.settling = NoVoucher
      /\ e.voucher = h.voucher /\ e.stored = h.stored
      /\ e.open = h.open /\ e.joined = h.joined /\ e.starting = h.starting
      /\ e.going = h.going /\ e.leaving = h.leaving
  BY DEF Host, Vouchers
<1>2. Kept(h) = e
  BY DEF Kept
<1> HIDE DEF e
<1> QED
  BY <1>1, <1>2

(* Once the server was told, or not, the same. *)
Silent == [host EXCEPT !.id = NoCall, !.telling = NoCall]

LEMMA SilentPage ==
    ASSUME host \in Host
    PROVE  /\ Silent \in Host
           /\ Silent.voucher = host.voucher /\ Silent.stored = host.stored
           /\ Silent.open = host.open /\ Silent.joined = host.joined
           /\ Silent.starting = host.starting
           /\ Silent.going = host.going /\ Silent.leaving = host.leaving
BY DEF Silent, Host

LEMMA AskingPage ==
    ASSUME host \in Host, NEW o \in {"hanging up", "collecting"}, Asks(o)
    PROVE  /\ HostOnly /\ host' \in Host /\ host.handler = "none"
           /\ host'.status = "settling" /\ host'.handler = o
           /\ host'.settling = host.voucher
           /\ host'.voucher = host.voucher /\ host'.stored = host.stored
           /\ host'.id = host.id /\ host'.current = host.current
           /\ host'.open = host.open /\ host'.joined = host.joined
           /\ host'.starting = host.starting
           /\ host'.going = host.going /\ host'.leaving = host.leaving
<1> DEFINE e == [host EXCEPT !.status = "settling", !.handler = o,
                             !.settling = host.voucher]
<1>1. o \in {"none", "hanging up", "paid", "unpaid", "collecting"}
  OBVIOUS
<1>2. /\ e \in Host
      /\ e.status = "settling" /\ e.handler = o /\ e.settling = host.voucher
      /\ e.voucher = host.voucher /\ e.stored = host.stored
      /\ e.id = host.id /\ e.current = host.current
      /\ e.open = host.open /\ e.joined = host.joined
      /\ e.starting = host.starting
      /\ e.going = host.going /\ e.leaving = host.leaving
  BY <1>1 DEF Host
<1>3. host' = e /\ HostOnly /\ host.handler = "none"
  BY DEF Asks
<1> HIDE DEF e
<1> QED
  BY <1>2, <1>3

LEMMA WentLivePage ==
    ASSUME host \in Host, WentLive
    PROVE  /\ HostOnly /\ host' \in Host /\ host.going
           /\ host'.status \in {"online", host.status}
           /\ host'.voucher = host.voucher /\ host'.stored = host.stored
           /\ host'.handler = host.handler /\ host'.settling = host.settling
           /\ host'.id = host.id /\ host'.current = host.current
           /\ host'.open = host.open /\ host'.joined = host.joined
           /\ host'.starting = host.starting
           /\ host'.leaving = host.leaving
<1>1. PICK more \in BOOLEAN, live \in BOOLEAN :
        host' = [host EXCEPT !.going = more,
                             !.status = IF live THEN "online" ELSE @]
  BY DEF WentLive
<1> DEFINE x == IF live THEN "online" ELSE host.status
           e == [host EXCEPT !.going = more, !.status = x]
<1>2. x \in {"online", host.status}
  OBVIOUS
<1>3. host' = e
  BY <1>1
<1> HIDE DEF x
<1>4. /\ e \in Host /\ e.status = x
      /\ e.voucher = host.voucher /\ e.stored = host.stored
      /\ e.handler = host.handler /\ e.settling = host.settling
      /\ e.id = host.id /\ e.current = host.current
      /\ e.open = host.open /\ e.joined = host.joined
      /\ e.starting = host.starting /\ e.leaving = host.leaving
  BY <1>2 DEF Host
<1> HIDE DEF e
<1> QED
  BY <1>2, <1>3, <1>4 DEF WentLive

LEMMA WentOfflinePage ==
    ASSUME host \in Host, WentOffline
    PROVE  /\ HostOnly /\ host' \in Host /\ host.leaving
           /\ host'.status = "offline"
           /\ host'.voucher = host.voucher /\ host'.stored = host.stored
           /\ host'.handler = host.handler /\ host'.settling = host.settling
           /\ host'.id = host.id /\ host'.current = host.current
           /\ host'.open = host.open /\ host'.joined = host.joined
           /\ host'.starting = host.starting
           /\ host'.going = host.going
<1>1. PICK more \in BOOLEAN :
        host' = [host EXCEPT !.leaving = more, !.status = "offline"]
  BY DEF WentOffline
<1> DEFINE e == [host EXCEPT !.leaving = more, !.status = "offline"]
<1>2. /\ e \in Host /\ e.status = "offline"
      /\ e.voucher = host.voucher /\ e.stored = host.stored
      /\ e.handler = host.handler /\ e.settling = host.settling
      /\ e.id = host.id /\ e.current = host.current
      /\ e.open = host.open /\ e.joined = host.joined
      /\ e.starting = host.starting /\ e.going = host.going
  BY DEF Host
<1>3. host' = e
  BY <1>1
<1> HIDE DEF e
<1> QED
  BY <1>2, <1>3 DEF WentOffline

LEMMA HostUserIInv == ASSUME IInv, HostUser PROVE IInv'
<1>0. host \in Host
  BY DEF IInv, TypeOK
<1>1. CASE GoLive
  <2>1. host' = [host EXCEPT !.going = TRUE] /\ HostOnly
    BY <1>1 DEF GoLive
  <2> QED
    BY <1>0, <2>1, PageStep DEF Host
<1>2. CASE GoOffline
  <2> DEFINE p == Cleaned(host)
             e == [p EXCEPT !.leaving = TRUE]
  <2>1. p \in Host /\ p.voucher = host.voucher /\ p.stored = host.stored
    BY <1>0, CleanedPage
  <2> HIDE DEF p
  <2>2. e \in Host /\ e.voucher = p.voucher /\ e.stored = p.stored
    BY <2>1 DEF Host
  <2>3. host' = e /\ HostOnly
    BY <1>2 DEF GoOffline, p
  <2> HIDE DEF e
  <2> QED
    BY <2>1, <2>2, <2>3, PageStep
<1>3. CASE WentLive
  BY <1>0, <1>3, WentLivePage, PageStep
<1>4. CASE WentOffline
  BY <1>0, <1>4, WentOfflinePage, PageStep
<1>5. CASE HostHangUp
  BY <1>0, <1>5, AskingPage, PageStep DEF HostHangUp
<1>6. CASE GetPaid
  BY <1>0, <1>6, AskingPage, PageStep DEF GetPaid
<1> QED
  BY <1>1, <1>2, <1>3, <1>4, <1>5, <1>6 DEF HostUser

LEMMA RefreshPage ==
    ASSUME IInv, Refresh
    PROVE  /\ host' \in Host
           /\ host'.status = IF host.stored = NoVoucher THEN "offline"
                             ELSE "unsettled"
           /\ host'.settling = NoVoucher /\ host'.handler = "none"
           /\ host'.voucher = host.stored /\ host'.stored = host.stored
           /\ host'.open = {} /\ host'.joined = {} /\ host'.starting = {}
           /\ ~host'.going /\ ~host'.leaving
<1> DEFINE s == IF Restored = NoVoucher THEN "offline" ELSE "unsettled"
           e == [status |-> s,
          id |-> NoCall, current |-> NoCall,
          open |-> {}, joined |-> {}, sockets |-> {}, starting |-> {},
          voucher |-> Restored, stored |-> host.stored,
          handler |-> "none", settling |-> NoVoucher, telling |-> NoCall,
          going |-> FALSE, leaving |-> FALSE]
<1>1. host' = e
  BY DEF Refresh
<1>2. host.stored \in Vouchers /\ Restored = host.stored
  BY DEF IInv, TypeOK, Host, Restored
<1>3. /\ e.status = s /\ e.settling = NoVoucher /\ e.handler = "none"
      /\ e.voucher = host.stored /\ e.stored = host.stored
      /\ e.open = {} /\ e.joined = {} /\ e.starting = {}
      /\ ~e.going /\ ~e.leaving
  BY <1>2
<1>4. s \in {"offline", "unsettled"}
  OBVIOUS
<1> HIDE DEF s
<1>5. e \in Host
  BY <1>2, <1>4 DEF Host, Vouchers
<1> HIDE DEF e
<1> QED
  BY <1>1, <1>2, <1>3, <1>5 DEF s

(* A handler that asked the wallet goes on. *)
LEMMA SubmittedPage ==
    ASSUME IInv, Submitted
    PROVE  /\ Claimed(host.settling)
           /\ UNCHANGED <<caller, wire, server>>
           /\ \/ host.handler = "hanging up" /\ host' = Tells("paid")
              \/ host.handler = "collecting" /\ host' = Forgotten(host)
BY DEF Submitted

LEMMA HungUpPage ==
    ASSUME IInv, HungUp
    PROVE  /\ Told /\ UNCHANGED <<caller, wire, chain>>
           /\ \/ host.handler = "paid" /\ host' = Forgotten(Silent)
              \/ host.handler = "unpaid" /\ host' = Kept(Silent)
BY DEF HungUp, Silent

LEMMA SettlingIInv == ASSUME IInv, Settling PROVE IInv'
<1>0. host \in Host /\ server \subseteq Calls /\ host.settling \in Vouchers
  BY DEF IInv, TypeOK, Host
<1>1. Told => server' \subseteq Calls
  BY <1>0 DEF Told
<1>2. chain' = chain => /\ chain' \in [Calls -> Channel]
                        /\ \A c \in Calls : chain'[c].deposit = chain[c].deposit
  BY DEF IInv, TypeOK
<1>3. CASE Submitted
  <2>1. /\ host' \in Host
        /\ host'.voucher \in {NoVoucher, host.voucher}
        /\ host'.stored \in {NoVoucher, host.stored}
    BY <1>0, <1>3, SubmittedPage, TellsPage, ForgottenPage
  <2> QED
    BY <1>0, <1>3, <2>1, SubmittedPage, ClaimedChain, HostStep
<1>4. CASE Refused
  <2>1. /\ host' \in Host
        /\ host'.voucher = host.voucher /\ host'.stored = host.stored
    BY <1>0, <1>4, TellsPage, KeptPage DEF Refused
  <2> QED
    BY <1>4, <2>1, PageStep DEF Refused
<1>5. CASE HungUp
  <2>1. /\ host' \in Host
        /\ host'.voucher \in {NoVoucher, host.voucher}
        /\ host'.stored \in {NoVoucher, host.stored}
    BY <1>0, <1>5, HungUpPage, SilentPage, ForgottenPage, KeptPage
  <2> QED
    BY <1>1, <1>2, <1>5, <2>1, HungUpPage, HostStep
<1>6. CASE Refresh
  <2>1. Claimed(host.settling) /\ Told /\ UNCHANGED <<caller, wire>>
    BY <1>6 DEF Refresh
  <2> QED
    BY <1>0, <1>1, <1>6, <2>1, RefreshPage, ClaimedChain, HostStep
<1> QED
  BY <1>3, <1>4, <1>5, <1>6 DEF Settling

LEMMA HostingIInv ==
    ASSUME IInv, NEW c \in Calls, Hosting(c)
    PROVE  IInv'
<1>0. host \in Host /\ server \subseteq Calls
  BY DEF IInv, TypeOK
<1>1. CASE IncomingCall(c)
  <2> DEFINE e == [host EXCEPT !.status = "in_call", !.id = c,
                            !.starting = @ \cup {c},
                            !.voucher = NoVoucher, !.stored = NoVoucher]
  <2>1. e \in Host /\ e.voucher = NoVoucher /\ e.stored = NoVoucher
    BY <1>0 DEF Host, Vouchers
  <2>2. host' = e /\ HostOnly
    BY <1>1 DEF IncomingCall
  <2> HIDE DEF e
  <2> QED
    BY <2>1, <2>2, PageStep
<1>2. CASE HostConnects(c)
  <2> DEFINE e == [host EXCEPT !.starting = @ \ {c}, !.current = c,
                            !.open = @ \cup {c}, !.sockets = @ \cup {c}]
  <2>1. e \in Host /\ e.voucher = host.voucher /\ e.stored = host.stored
    BY <1>0 DEF Host
  <2>2. host' = e /\ HostOnly
    BY <1>2 DEF HostConnects
  <2> HIDE DEF e
  <2> QED
    BY <2>1, <2>2, PageStep
<1>3. CASE HostStartFails(c)
  <2> DEFINE h == [host EXCEPT !.starting = @ \ {c}]
  <2>1. h \in Host /\ h.voucher = host.voucher /\ h.stored = host.stored
    BY <1>0 DEF Host
  <2>2. host' = Ended(h) /\ HostOnly
    BY <1>3 DEF HostStartFails
  <2> HIDE DEF h
  <2> QED
    BY <2>1, <2>2, EndedPage, PageStep
<1>4. CASE PeerDown(c)
  <2> DEFINE p == Ended(host)
             e == [p EXCEPT !.open = @ \ {c}, !.joined = @ \ {c}]
  <2>1. p \in Host /\ p.voucher = host.voucher /\ p.stored = host.stored
    BY <1>0, EndedPage
  <2>2. host' = e /\ HostOnly
    BY <1>4 DEF PeerDown
  <2> HIDE DEF p
  <2>3. e \in Host /\ e.voucher = p.voucher /\ e.stored = p.stored
    BY <2>1 DEF Host
  <2> HIDE DEF e
  <2> QED
    BY <2>1, <2>2, <2>3, PageStep
<1>5. CASE SocketClosed(c)
  <2> DEFINE p == Ended(host)
             e == [p EXCEPT !.sockets = @ \ {c}]
  <2>1. p \in Host /\ p.voucher = host.voucher /\ p.stored = host.stored
    BY <1>0, EndedPage
  <2>2. host' = e /\ HostOnly
    BY <1>5 DEF SocketClosed
  <2> HIDE DEF p
  <2>3. e \in Host /\ e.voucher = p.voucher /\ e.stored = p.stored
    BY <2>1 DEF Host
  <2> HIDE DEF e
  <2> QED
    BY <2>1, <2>2, <2>3, PageStep
<1>6. ASSUME NEW on \in Seq(Amounts), wire' = [wire EXCEPT ![c] = on],
             \A i \in 1..Len(on) : on[i] \in 1..caller[c].signed,
             UNCHANGED <<caller, server, chain>>,
             NEW v \in Vouchers, v.amount <= caller[v.call].signed,
             v # NoVoucher,
             host' = host \/ host' = [host EXCEPT !.voucher = v, !.stored = v]
      PROVE  IInv'
  <2>1. /\ host' \in Host
        /\ host'.voucher = host.voucher \/ host'.voucher = v
        /\ host'.stored = host.stored \/ host'.stored = v
    BY ZenonT(40), <1>0, <1>6 DEF Host, Vouchers
  <2>2. TypeOK'
    BY <1>6, <2>1 DEF IInv, TypeOK
  <2>3. \A d \in Calls : CallerOK(caller[d], wire'[d], chain[d])
    BY <1>6 DEF IInv, TypeOK, CallerOK
  <2>4. Signed(host.voucher)' /\ Signed(host.stored)'
    BY <1>6, <2>1 DEF IInv, Signed
  <2> QED
    BY <1>6, <2>2, <2>3, <2>4 DEF IInv
<1>7. CASE Receive(c)
  <2> DEFINE s == wire[c]
             a == Head(s)
             v == [call |-> c, amount |-> a]
  <2>1. s \in Seq(Amounts) /\ s # <<>> /\ \A i \in 1..Len(s) : s[i] \in 1..caller[c].signed
    BY <1>7, IInvCaller DEF Receive, CallerOK
  <2>2. /\ Tail(s) \in Seq(Amounts)
        /\ \A i \in 1..Len(Tail(s)) : Tail(s)[i] = s[i + 1] /\ i + 1 \in 1..Len(s)
        /\ a = s[1] /\ 1 \in 1..Len(s) /\ a \in Amounts
    BY <2>1, HeadTailProperties, EmptySeq
  <2>3. a \in Amounts \ {0} /\ a <= caller[c].signed
    BY <2>1, <2>2
  <2>4. v \in Voucher /\ v.call = c /\ v.amount = a
    BY <2>3 DEF Voucher
  <2>5. /\ wire' = [wire EXCEPT ![c] = Tail(s)]
        /\ UNCHANGED <<caller, server, chain>>
    BY <1>7 DEF Receive
  <2>6. host' = host \/ host' = [host EXCEPT !.voucher = v, !.stored = v]
    BY <1>7 DEF Receive
  <2>7. \A i \in 1..Len(Tail(s)) : Tail(s)[i] \in 1..caller[c].signed
    BY <2>1, <2>2
  <2> HIDE DEF v, a, s
  <2>8. v # NoVoucher
    BY <2>4, VoucherOrNone DEF Vouchers
  <2>9. v \in Vouchers
    BY <2>4 DEF Vouchers
  <2> QED
    BY <1>6, <2>9, <2>2, <2>3, <2>4, <2>5, <2>6, <2>7, <2>8
<1>8. CASE Lost(c)
  <2> DEFINE on == << >>
  <2>1. on \in Seq(Amounts) /\ Len(on) = 0
    OBVIOUS
  <2>2. /\ wire' = [wire EXCEPT ![c] = on]
        /\ UNCHANGED <<caller, server, host, chain>>
    BY <1>8 DEF Lost
  <2> HIDE DEF on
  <2>3. \A i \in 1..Len(on) : on[i] \in 1..caller[c].signed
    BY <2>1
  <2>4. TypeOK'
    BY <2>1, <2>2 DEF IInv, TypeOK
  <2>5. \A d \in Calls : CallerOK(caller[d], wire'[d], chain[d])
    BY <2>1, <2>2, <2>3 DEF IInv, TypeOK, CallerOK
  <2> QED
    BY <2>2, <2>4, <2>5 DEF IInv, Signed
<1>9. CASE Swept(c)
  <2>1. server' \subseteq Calls /\ UNCHANGED <<caller, wire, host, chain>>
    BY <1>0, <1>9 DEF Swept
  <2> QED
    BY <1>0, <2>1, HostStep DEF IInv, TypeOK
<1> QED
  BY <1>1, <1>2, <1>3, <1>4, <1>5, <1>7, <1>8, <1>9 DEF Hosting

LEMMA InitIInv == Init => IInv
<1> SUFFICES ASSUME Init PROVE IInv
  OBVIOUS
<1> DEFINE k == [state |-> "idle", start |-> "none", connected |-> FALSE,
          posting |-> "none", adding |-> FALSE, deposit |-> 0, signed |-> 0]
           ch == [deposit |-> 0, paid |-> 0]
<1>1. 0 \in Amounts
  BY Prices
<1>2. k \in Caller /\ ch \in Channel
  BY <1>1 DEF Caller, Channel
<1>3. CallerOK(k, << >>, ch)
  BY DEF CallerOK
<1>4. /\ caller = [c \in Calls |-> k]
      /\ wire = [c \in Calls |-> << >>]
      /\ chain = [c \in Calls |-> ch]
  BY DEF Init
<1> HIDE DEF k, ch
<1>5. host \in Host /\ host.voucher = NoVoucher /\ host.stored = NoVoucher
  BY DEF Init, Host, Vouchers
<1>6. TypeOK
  <2>1. << >> \in Seq(Amounts) /\ server = {}
    BY DEF Init
  <2> QED
    BY <1>2, <1>4, <1>5, <2>1 DEF TypeOK
<1> QED
  BY <1>3, <1>4, <1>5, <1>6 DEF IInv, Signed

LEMMA NextIInv == IInv /\ [Next]_vars => IInv'
<1> SUFFICES ASSUME IInv, [Next]_vars PROVE IInv'
  OBVIOUS
<1>1. CASE UNCHANGED vars
  BY <1>1 DEF vars, IInv, TypeOK, CallerOK, Signed
<1>2. CASE Next
  BY <1>2, StartingIInv, CallingIInv, HostingIInv, HostUserIInv, SettlingIInv
     DEF Next
<1> QED
  BY <1>1, <1>2

LEMMA Invariance == Spec => []IInv
BY InitIInv, NextIInv, PTL DEF Spec

(* Both pages, the server and the chain keep to their types, whichever     *)
(* handlers overlap: in particular no caller deposits or signs more than   *)
(* what bounds its deposit, and nothing but vouchers is stored.            *)
THEOREM TypeCorrect == Spec => []TypeOK
<1>1. IInv => TypeOK
  BY DEF IInv
<1> QED
  BY <1>1, Invariance, PTL

-----------------------------------------------------------------------------
(* What the callers do *)

(* A caller's step pays nobody, makes no caller ring again, and shows at   *)
(* the host at most that the caller has come.                              *)
CallerEffect(c) ==
    /\ \A d \in Calls : chain'[d].paid = chain[d].paid /\ (Over(d) => Over(d)')
    /\ \/ host' = host
       \/ /\ host' = [host EXCEPT !.joined = @ \cup {c}]
          /\ c \in host.open /\ ~Over(c) /\ Over(c)'
    /\ \/ Pay(c) \/ TimeAdded(c)
       \/ \A d \in Calls : /\ chain'[d].deposit = chain[d].deposit
                           /\ caller'[d].deposit = caller[d].deposit

LEMMA DepositedChain ==
    ASSUME IInv, NEW c \in Calls, NEW a \in Nat, Deposited(c, a)
    PROVE  /\ \A d \in Calls : chain'[d].paid = chain[d].paid
           /\ \A d \in Calls \ {c} : chain'[d] = chain[d]
           /\ chain' # chain => chain'[c].deposit = chain[c].deposit + a
<1>1. CASE UNCHANGED chain
  BY <1>1
<1>2. CASE chain' = [chain EXCEPT ![c].deposit = @ + a]
  <2> DEFINE ch == [chain[c] EXCEPT !.deposit = @ + a]
  <2>1. chain[c] \in Channel
    BY IInvCaller
  <2>2. ch.paid = chain[c].paid /\ ch.deposit = chain[c].deposit + a
    BY <2>1 DEF Channel
  <2>3. chain' = [chain EXCEPT ![c] = ch]
    BY <1>2
  <2> HIDE DEF ch
  <2>4. chain'[c] = ch /\ \A d \in Calls \ {c} : chain'[d] = chain[d]
    BY <2>3 DEF IInv, TypeOK
  <2> QED
    BY <2>2, <2>4
<1> QED
  BY <1>1, <1>2 DEF Deposited

(* The start and the state of a caller after a step that only sets these,  *)
(* what was signed, or flags.                                              *)
LEMMA CallerMoves ==
    ASSUME IInv, NEW c \in Calls, NEW k \in Caller,
           caller' = [caller EXCEPT ![c] = k],
           caller[c].start = "done" =>
               k.start = "done" /\ (k.state # "ringing" \/ k.state = caller[c].state)
    PROVE  /\ \A d \in Calls : Over(d) => Over(d)'
           /\ caller'[c] = k
           /\ \A d \in Calls \ {c} : caller'[d] = caller[d]
BY DEF IInv, TypeOK, Over

LEMMA StartingEffect ==
    ASSUME IInv, NEW c \in Calls, Starting(c)
    PROVE  CallerEffect(c)
<1> DEFINE k == caller[c]
<1>0. k \in Caller
  BY IInvCaller
<1>1. CASE StartCall(c)
  <2> DEFINE e == [k EXCEPT !.state = "connecting", !.start = "paying"]
  <2>1. e \in Caller /\ e.deposit = k.deposit
    BY <1>0 DEF Caller
  <2>2. caller' = [caller EXCEPT ![c] = e] /\ UNCHANGED <<host, chain>>
        /\ k.start = "none"
    BY <1>1 DEF StartCall
  <2> HIDE DEF e
  <2> QED
    BY <2>1, <2>2, CallerMoves DEF CallerEffect
<1>2. CASE Pay(c)
  <2> DEFINE e == [k EXCEPT !.start = "paid", !.deposit = Deposit, !.signed = Initial]
  <2>1. e \in Caller
    BY <1>0, Prices DEF Caller
  <2>2. caller' = [caller EXCEPT ![c] = e] /\ UNCHANGED host
        /\ k.start = "paying"
    BY <1>2 DEF Pay
  <2> HIDE DEF e
  <2>3. \A d \in Calls : chain'[d].paid = chain[d].paid
    BY <1>2, DepositedChain, Prices DEF Pay
  <2> QED
    BY <1>2, <2>1, <2>2, <2>3, CallerMoves DEF CallerEffect
<1>3. CASE Post(c)
  <2> DEFINE e == [k EXCEPT !.state = "ringing", !.start = "posted"]
  <2>1. e \in Caller /\ e.deposit = k.deposit
    BY <1>0 DEF Caller
  <2>2. caller' = [caller EXCEPT ![c] = e] /\ UNCHANGED <<host, chain>>
        /\ k.start = "paid"
    BY <1>3 DEF Post
  <2> HIDE DEF e
  <2> QED
    BY <2>1, <2>2, CallerMoves DEF CallerEffect
<1>4. CASE Connect(c)
  <2> DEFINE e == [k EXCEPT !.start = "done", !.connected = TRUE]
  <2>1. e \in Caller /\ e.deposit = k.deposit
    BY <1>0 DEF Caller
  <2>2. caller' = [caller EXCEPT ![c] = e] /\ UNCHANGED <<host, chain>>
        /\ k.start = "posted"
    BY <1>4 DEF Connect
  <2> HIDE DEF e
  <2> QED
    BY <2>1, <2>2, CallerMoves DEF CallerEffect
<1>5. CASE StartFails(c)
  <2> DEFINE e == [k EXCEPT !.state = "idle", !.start = "failed",
                            !.connected = FALSE]
  <2>1. e \in Caller /\ e.deposit = k.deposit
    BY <1>0 DEF Caller
  <2>2. caller' = [caller EXCEPT ![c] = e] /\ UNCHANGED <<host, chain>>
        /\ k.start # "done"
    BY <1>5 DEF StartFails
  <2> HIDE DEF e
  <2>3. /\ \A d \in Calls : Over(d) => Over(d)'
        /\ caller'[c] = e /\ \A d \in Calls \ {c} : caller'[d] = caller[d]
    BY <2>1, <2>2, CallerMoves
  <2>4. \A d \in Calls : caller'[d].deposit = caller[d].deposit
    BY <2>1, <2>3
  <2> QED
    BY <2>2, <2>3, <2>4 DEF CallerEffect
<1> QED
  BY <1>1, <1>2, <1>3, <1>4, <1>5 DEF Starting

(* The start of a caller stays as it is, and it does not ring again.       *)
LEMMA CallerStays ==
    ASSUME IInv, NEW c \in Calls, NEW k \in Caller,
           caller' = [caller EXCEPT ![c] = k],
           k.start = caller[c].start,
           k.state = caller[c].state \/ k.state # "ringing",
           UNCHANGED <<host, chain>>,
           k.deposit = caller[c].deposit
    PROVE  CallerEffect(c)
<1>1. /\ caller'[c] = k
      /\ \A d \in Calls \ {c} : caller'[d] = caller[d]
      /\ \A d \in Calls : Over(d) => Over(d)'
  BY CallerMoves
<1>2. \A d \in Calls : caller'[d].deposit = caller[d].deposit
  BY <1>1
<1> QED
  BY <1>1, <1>2 DEF CallerEffect

LEMMA CallingEffect ==
    ASSUME IInv, NEW c \in Calls, Calling(c)
    PROVE  CallerEffect(c)
<1> DEFINE k == caller[c]
<1>0. k \in Caller /\ CallerOK(k, wire[c], chain[c])
  BY IInvCaller
<1>1. CASE Answered(c)
  <2> DEFINE e == [k EXCEPT !.state = "in_call"]
  <2>1. /\ e \in Caller /\ e.deposit = k.deposit
        /\ e.start = k.start /\ e.state = "in_call"
    BY <1>0 DEF Caller
  <2>2. /\ caller' = [caller EXCEPT ![c] = e]
        /\ host' = [host EXCEPT !.joined = @ \cup {c}]
        /\ UNCHANGED chain
        /\ c \in host.open /\ k.state = "ringing" /\ k.connected
    BY <1>1 DEF Answered
  <2>3. k.start = "done"
    BY <1>0, <2>2 DEF CallerOK
  <2> HIDE DEF e
  <2>4. /\ caller'[c] = e
        /\ \A d \in Calls \ {c} : caller'[d] = caller[d]
        /\ \A d \in Calls : Over(d) => Over(d)'
    BY <2>1, <2>2, <2>3, CallerMoves
  <2>5. ~Over(c) /\ Over(c)'
    BY <2>1, <2>2, <2>3, <2>4 DEF Over
  <2>6. \A d \in Calls : caller'[d].deposit = caller[d].deposit
    BY <2>1, <2>4
  <2> QED
    BY <2>2, <2>4, <2>5, <2>6 DEF CallerEffect
<1>2. CASE Voucher5s(c)
  <2> DEFINE a == k.signed + Delta
             e == [k EXCEPT !.signed = a]
  <2>1. a \in Amounts
    <3>1. k.signed \in Nat /\ k.deposit \in Amounts /\ a <= k.deposit
      BY <1>0, <1>2, Prices DEF Voucher5s, Affordable, Caller
    <3> QED
      BY <3>1, Prices
  <2>2. /\ e \in Caller /\ e.deposit = k.deposit
        /\ e.start = k.start /\ e.state = k.state
    BY <1>0, <2>1 DEF Caller
  <2>3. caller' = [caller EXCEPT ![c] = e] /\ UNCHANGED <<host, chain>>
    BY <1>2 DEF Voucher5s
  <2> HIDE DEF e
  <2> QED
    BY <2>2, <2>3, CallerStays
<1>3. CASE HangUp(c)
  <2> DEFINE e == [k EXCEPT !.state = "hanging_up", !.connected = FALSE,
                            !.posting = Naming(c)]
  <2>1. /\ e \in Caller /\ e.deposit = k.deposit
        /\ e.start = k.start /\ e.state = "hanging_up"
    BY <1>0 DEF Caller, Naming
  <2>2. caller' = [caller EXCEPT ![c] = e] /\ UNCHANGED <<host, chain>>
    BY <1>3 DEF HangUp
  <2> HIDE DEF e
  <2> QED
    BY <2>1, <2>2, CallerStays
<1>4. CASE HangUpEnds(c)
  <2> DEFINE e == [k EXCEPT !.state = "ended", !.posting = "none"]
  <2>1. /\ e \in Caller /\ e.deposit = k.deposit
        /\ e.start = k.start /\ e.state = "ended"
    BY <1>0 DEF Caller
  <2>2. caller' = [caller EXCEPT ![c] = e] /\ UNCHANGED <<host, chain>>
    BY <1>4 DEF HangUpEnds
  <2> HIDE DEF e
  <2> QED
    BY <2>1, <2>2, CallerStays
<1>5. CASE AddTime(c)
  <2> DEFINE e == [k EXCEPT !.adding = TRUE]
  <2>1. /\ e \in Caller /\ e.deposit = k.deposit
        /\ e.start = k.start /\ e.state = k.state
    BY <1>0 DEF Caller
  <2>2. caller' = [caller EXCEPT ![c] = e] /\ UNCHANGED <<host, chain>>
    BY <1>5 DEF AddTime
  <2> HIDE DEF e
  <2> QED
    BY <2>1, <2>2, CallerStays
<1>6. CASE TimeAdded(c)
  <2> DEFINE a == k.deposit + TopUp
             e == [k EXCEPT !.adding = FALSE, !.deposit = a]
  <2>1. a \in Amounts
    <3>1. k.deposit \in Nat /\ a <= MaxDeposit
      BY <1>0, <1>6, Prices DEF TimeAdded, Caller, CallerOK
    <3> QED
      BY <3>1, Prices
  <2>2. e \in Caller /\ e.start = k.start /\ e.state = k.state
    BY <1>0, <2>1 DEF Caller
  <2>3. caller' = [caller EXCEPT ![c] = e] /\ UNCHANGED host
    BY <1>6 DEF TimeAdded
  <2> HIDE DEF e
  <2>4. \A d \in Calls : chain'[d].paid = chain[d].paid
    BY <1>6, DepositedChain, Prices DEF TimeAdded
  <2>5. \A d \in Calls : Over(d) => Over(d)'
    BY <2>2, <2>3, CallerMoves
  <2> QED
    BY <1>6, <2>3, <2>4, <2>5 DEF CallerEffect
<1>7. CASE AddTimeFails(c)
  <2> DEFINE e == [k EXCEPT !.adding = FALSE]
  <2>1. /\ e \in Caller /\ e.deposit = k.deposit
        /\ e.start = k.start /\ e.state = k.state
    BY <1>0 DEF Caller
  <2>2. caller' = [caller EXCEPT ![c] = e] /\ UNCHANGED <<host, chain>>
    BY <1>7 DEF AddTimeFails
  <2> HIDE DEF e
  <2> QED
    BY <2>1, <2>2, CallerStays
<1> QED
  BY <1>1, <1>2, <1>3, <1>4, <1>5, <1>6, <1>7 DEF Calling

-----------------------------------------------------------------------------
(* What a caller signs it has deposited, where transactions are executed.  *)

LEMMA HostKeepsDeposits ==
    ASSUME IInv,
           \/ \E c \in Calls : Hosting(c)
           \/ HostUser \/ Settling
    PROVE  /\ caller' = caller
           /\ \A d \in Calls : chain'[d].deposit = chain[d].deposit
<1>1. (\E c \in Calls : Hosting(c)) => UNCHANGED <<caller, chain>>
  BY DEF Hosting, IncomingCall, HostConnects, HostStartFails, PeerDown,
         SocketClosed, Receive, Lost, Swept, HostOnly
<1>2. HostUser \/ Refused \/ HungUp => UNCHANGED <<caller, chain>>
  BY DEF HostUser, GoLive, WentLive, GoOffline, WentOffline, HostHangUp,
         GetPaid, Asks, Refused, HungUp, HostOnly
<1>3. ASSUME Submitted \/ Refresh
      PROVE  caller' = caller /\ \A d \in Calls : chain'[d].deposit = chain[d].deposit
  <2>1. host.settling \in Vouchers
    BY DEF IInv, TypeOK, Host
  <2> QED
    BY <1>3, <2>1, ClaimedChain DEF Submitted, Refresh
<1> QED
  BY <1>1, <1>2, <1>3 DEF Settling

LEMMA NextFunded ==
    ASSUME IInv, Funded, Next, Executed
    PROVE  Funded'
<1>1. ASSUME NEW c \in Calls, Pay(c) PROVE Funded'
  <2>1. /\ chain[c].deposit = 0 /\ caller[c] \in Caller
        /\ chain' # chain /\ Deposited(c, Deposit)
    BY <1>1, IInvCaller DEF Executed, Pay, CallerOK, Funded
  <2> DEFINE e == [caller[c] EXCEPT !.start = "paid", !.deposit = Deposit,
                                    !.signed = Initial]
  <2>2. e.deposit = Deposit
    BY <2>1 DEF Caller
  <2>3. caller' = [caller EXCEPT ![c] = e]
    BY <1>1 DEF Pay
  <2> HIDE DEF e
  <2>4. caller'[c] = e /\ \A d \in Calls \ {c} : caller'[d] = caller[d]
    BY <2>3 DEF IInv, TypeOK
  <2>5. /\ chain'[c].deposit = 0 + Deposit
        /\ \A d \in Calls \ {c} : chain'[d] = chain[d]
    BY <2>1, DepositedChain, Prices
  <2>6. chain'[c].deposit = Deposit
    BY <2>5, Prices
  <2> QED
    BY <2>2, <2>4, <2>5, <2>6 DEF Funded
<1>2. ASSUME NEW c \in Calls, TimeAdded(c) PROVE Funded'
  <2>1. caller[c] \in Caller /\ chain' # chain /\ Deposited(c, TopUp)
    BY <1>2, IInvCaller DEF Executed, TimeAdded
  <2> DEFINE a == caller[c].deposit + TopUp
             e == [caller[c] EXCEPT !.adding = FALSE, !.deposit = a]
  <2>2. e.deposit = a
    BY <2>1 DEF Caller
  <2>3. caller' = [caller EXCEPT ![c] = e]
    BY <1>2 DEF TimeAdded
  <2> HIDE DEF e
  <2>4. caller'[c] = e /\ \A d \in Calls \ {c} : caller'[d] = caller[d]
    BY <2>3 DEF IInv, TypeOK
  <2>5. /\ chain'[c].deposit = chain[c].deposit + TopUp
        /\ \A d \in Calls \ {c} : chain'[d] = chain[d]
    BY <2>1, DepositedChain, Prices
  <2> QED
    BY <2>2, <2>4, <2>5 DEF Funded
<1>3. ASSUME caller' = caller,
             \A d \in Calls : chain'[d].deposit = chain[d].deposit
      PROVE  Funded'
  BY <1>3 DEF Funded
<1>4. ASSUME NEW c \in Calls, Starting(c) \/ Calling(c) PROVE Funded'
  BY <1>1, <1>2, <1>4, StartingEffect, CallingEffect DEF CallerEffect, Funded
<1> QED
  BY <1>3, <1>4, HostKeepsDeposits DEF Next

LEMMA FundedIsClaimable ==
    ASSUME IInv, Funded, NEW v \in Vouchers, Signed(v), v # NoVoucher
    PROVE  v.amount <= chain[v.call].deposit
<1>1. v.call \in Calls /\ v.amount \in Nat /\ v.amount <= caller[v.call].signed
  BY VoucherOrNone, Prices DEF Signed
<1>2. /\ caller[v.call].signed \in Nat /\ caller[v.call].deposit \in Nat
      /\ caller[v.call].signed <= caller[v.call].deposit
  BY <1>1, IInvCaller, Prices DEF Caller, CallerOK
<1> QED
  BY <1>1, <1>2 DEF Funded

-----------------------------------------------------------------------------
(* The page keeps in order *)

(* A step of the page that neither loses a voucher nor makes a caller      *)
(* come, and at most asks the wallet for the voucher.                      *)
KeepsOrder(h) ==
    /\ InOrder(h)
    /\ h.voucher = host.voucher
    /\ h.joined \subseteq host.joined
    /\ \/ h.handler = host.handler /\ h.settling = host.settling
       \/ h.handler \in {"hanging up", "collecting"} /\ h.settling = host.voucher

LEMMA VoucherAmount ==
    ASSUME IInv PROVE host.voucher.amount <= host.voucher.amount
<1>1. host.voucher \in Vouchers
  BY DEF IInv, TypeOK, Host
<1> QED
  BY <1>1, VoucherOrNone, Prices

LEMMA HostUserOrder ==
    ASSUME IInv, InOrder(host), Undisturbed, Granted, HostUser
    PROVE  KeepsOrder(host')
<1>0. host \in Host
  BY DEF IInv, TypeOK
<1>1. CASE GoLive
  <2> DEFINE e == [host EXCEPT !.going = TRUE]
  <2>1. host.status = "offline" /\ host' = e
    BY <1>1 DEF GoLive
  <2>2. /\ e.voucher = host.voucher /\ e.stored = host.stored
        /\ e.settling = host.settling /\ e.handler = host.handler
        /\ e.status = host.status /\ e.id = host.id
        /\ e.current = host.current /\ e.open = host.open
        /\ e.joined = host.joined /\ e.starting = host.starting
    BY <1>0 DEF Host
  <2> HIDE DEF e
  <2> QED
    BY <2>1, <2>2 DEF InOrder, KeepsOrder
<1>2. CASE GoOffline
  <2> DEFINE p == Cleaned(host)
             e == [p EXCEPT !.leaving = TRUE]
  <2>1. p \in Host
    BY <1>0, CleanedPage
  <2>2. host' = e /\ host.status = "online"
    BY <1>2 DEF GoOffline
  <2> HIDE DEF p
  <2>3. /\ e.voucher = p.voucher /\ e.stored = p.stored /\ e.settling = p.settling
        /\ e.status = p.status /\ e.id = p.id /\ e.current = p.current
        /\ e.open = p.open /\ e.joined = p.joined /\ e.starting = p.starting
        /\ e.handler = p.handler
    BY <2>1 DEF Host
  <2> HIDE DEF e
  <2>4. /\ p.status = "online" /\ p.handler = "none" /\ p.starting = {}
        /\ p.open = {} /\ p.joined = {}
        /\ p.voucher = NoVoucher /\ p.stored = NoVoucher /\ p.settling = NoVoucher
        /\ host.handler = "none" /\ host.settling = NoVoucher
        /\ host.voucher = NoVoucher
    <3>1. /\ host.handler = "none" /\ host.settling = NoVoucher
          /\ host.starting = {} /\ host.open = {} /\ host.joined = {}
          /\ host.voucher = NoVoucher /\ host.stored = NoVoucher
      BY <2>2 DEF InOrder
    <3> QED
      BY <1>0, <2>2, <3>1, CleanedPage DEF p
  <2> QED
    BY <2>2, <2>3, <2>4 DEF InOrder, KeepsOrder
<1>3. CASE WentLive
  BY <1>0, <1>3, WentLivePage DEF InOrder, KeepsOrder
<1>4. CASE WentOffline
  BY <1>0, <1>4, WentOfflinePage DEF InOrder, KeepsOrder
<1>5. CASE HostHangUp
  <2>1. host.status = "in_call" /\ Asks("hanging up")
    BY <1>5 DEF HostHangUp
  <2>2. host'.status = "settling"
    BY <1>0, <2>1, AskingPage
  <2>3. host.starting = {}
    BY <2>1, <2>2 DEF Granted
  <2> QED
    BY <1>0, <2>1, <2>3, AskingPage, VoucherAmount DEF InOrder, KeepsOrder
<1>6. CASE GetPaid
  BY <1>0, <1>6, AskingPage, VoucherAmount DEF GetPaid, InOrder, KeepsOrder
<1> QED
  BY <1>1, <1>2, <1>3, <1>4, <1>5, <1>6 DEF HostUser

LEMMA CallOrder ==
    ASSUME IInv, InOrder(host), Undisturbed, Granted,
           NEW c \in Calls,
           \/ IncomingCall(c) \/ HostConnects(c) \/ HostStartFails(c)
           \/ PeerDown(c) \/ SocketClosed(c)
    PROVE  KeepsOrder(host')
<1>0. host \in Host
  BY DEF IInv, TypeOK
<1>1. CASE IncomingCall(c)
  <2> DEFINE e == [host EXCEPT !.status = "in_call", !.id = c,
                            !.starting = @ \cup {c},
                            !.voucher = NoVoucher, !.stored = NoVoucher]
  <2>1. host.status = "online" /\ host' = e
    BY <1>1 DEF IncomingCall, Answering
  <2>2. /\ e.status = "in_call" /\ e.settling = host.settling /\ e.id = c
        /\ e.voucher = NoVoucher /\ e.stored = NoVoucher
        /\ e.current = host.current /\ e.open = host.open
        /\ e.joined = host.joined /\ e.starting = host.starting \cup {c}
        /\ e.handler = host.handler
        /\ e.going = host.going /\ e.leaving = host.leaving
    BY <1>0 DEF Host
  <2> HIDE DEF e
  <2>3. ~host.going /\ ~host.leaving
    BY <2>1, <2>2 DEF Undisturbed
  <2> QED
    BY <2>1, <2>2, <2>3 DEF InOrder, KeepsOrder
<1>2. CASE HostConnects(c)
  <2> DEFINE e == [host EXCEPT !.starting = @ \ {c}, !.current = c,
                            !.open = @ \cup {c}, !.sockets = @ \cup {c}]
  <2>1. c \in host.starting /\ host' = e
    BY <1>2 DEF HostConnects
  <2>2. /\ e.status = host.status /\ e.settling = host.settling /\ e.id = host.id
        /\ e.voucher = host.voucher /\ e.stored = host.stored
        /\ e.current = c /\ e.open = host.open \cup {c}
        /\ e.joined = host.joined /\ e.starting = host.starting \ {c}
        /\ e.handler = host.handler
        /\ e.going = host.going /\ e.leaving = host.leaving
    BY <1>0 DEF Host
  <2> HIDE DEF e
  <2>3. host.id = c /\ host.status = "in_call"
    BY <2>1 DEF InOrder
  <2> QED
    BY <2>1, <2>2, <2>3 DEF InOrder, KeepsOrder
<1>3. CASE HostStartFails(c)
  <2> DEFINE h == [host EXCEPT !.starting = @ \ {c}]
  <2>1. h \in Host /\ h.status = host.status
    BY <1>0 DEF Host
  <2>2. host' = Ended(h) /\ c \in host.starting
    BY <1>3 DEF HostStartFails
  <2> HIDE DEF h
  <2>3. host.status = "in_call" /\ host'.status = host.status
    BY <2>2 DEF InOrder, Granted
  <2> QED
    BY <2>1, <2>2, <2>3, EndedPage
<1>4. ASSUME host'.status = Ended(host).status
      PROVE  host.status = "in_call" => host.starting = {}
  BY <1>0, <1>4, EndedPage DEF Granted
<1>5. CASE PeerDown(c)
  <2> DEFINE p == Ended(host)
             e == [p EXCEPT !.open = @ \ {c}, !.joined = @ \ {c}]
  <2>1. p \in Host
    BY <1>0, EndedPage
  <2>2. host' = e
    BY <1>5 DEF PeerDown
  <2> HIDE DEF p
  <2>3. /\ e.voucher = p.voucher /\ e.stored = p.stored /\ e.settling = p.settling
        /\ e.status = p.status /\ e.id = p.id /\ e.current = p.current
        /\ e.open = p.open \ {c} /\ e.joined = p.joined \ {c}
        /\ e.starting = p.starting
        /\ e.handler = p.handler
        /\ e.going = p.going /\ e.leaving = p.leaving
    BY <2>1 DEF Host
  <2> HIDE DEF e
  <2>4. host.status = "in_call" => host.starting = {}
    BY <1>4, <2>2, <2>3 DEF p
  <2>5. CASE host.status = "in_call"
    <3>1. /\ host.handler = "none" /\ host.settling = NoVoucher
          /\ ~host.going /\ ~host.leaving
          /\ host.open \ {host.current} = {} /\ host.joined \ {host.current} = {}
          /\ host.stored = host.voucher
      BY <2>5 DEF InOrder
    <3>2. /\ p.handler = "none" /\ p.settling = NoVoucher
          /\ ~p.going /\ ~p.leaving
          /\ p.open = {} /\ p.joined = {} /\ p.starting = {}
          /\ p.stored = host.voucher /\ p.voucher = host.voucher
          /\ p.status = IF host.voucher # NoVoucher THEN "unsettled" ELSE "online"
      BY <1>0, <2>4, <2>5, <3>1, EndedPage DEF Unsettled, p
    <3> HIDE DEF p
    <3> QED
      BY <2>2, <2>3, <3>1, <3>2 DEF InOrder, KeepsOrder
  <2>6. CASE host.status # "in_call"
    <3>1. p = host
      BY <1>0, <2>6, EndedPage DEF p
    <3> QED
      BY <2>2, <2>3, <2>6, <3>1 DEF InOrder, KeepsOrder
  <2> QED
    BY <2>5, <2>6
<1>6. CASE SocketClosed(c)
  <2> DEFINE p == Ended(host)
             e == [p EXCEPT !.sockets = @ \ {c}]
  <2>1. p \in Host
    BY <1>0, EndedPage
  <2>2. host' = e
    BY <1>6 DEF SocketClosed
  <2> HIDE DEF p
  <2>3. /\ e.voucher = p.voucher /\ e.stored = p.stored /\ e.settling = p.settling
        /\ e.status = p.status /\ e.id = p.id /\ e.current = p.current
        /\ e.open = p.open /\ e.joined = p.joined
        /\ e.starting = p.starting
        /\ e.handler = p.handler
        /\ e.going = p.going /\ e.leaving = p.leaving
    BY <2>1 DEF Host
  <2> HIDE DEF e
  <2>4. host.status = "in_call" => host.starting = {}
    BY <1>4, <2>2, <2>3 DEF p
  <2>5. CASE host.status = "in_call"
    <3>1. /\ host.handler = "none" /\ host.settling = NoVoucher
          /\ ~host.going /\ ~host.leaving
          /\ host.open \ {host.current} = {} /\ host.joined \ {host.current} = {}
          /\ host.stored = host.voucher
      BY <2>5 DEF InOrder
    <3>2. /\ p.handler = "none" /\ p.settling = NoVoucher
          /\ ~p.going /\ ~p.leaving
          /\ p.open = {} /\ p.joined = {} /\ p.starting = {}
          /\ p.stored = host.voucher /\ p.voucher = host.voucher
          /\ p.status = IF host.voucher # NoVoucher THEN "unsettled" ELSE "online"
      BY <1>0, <2>4, <2>5, <3>1, EndedPage DEF Unsettled, p
    <3> HIDE DEF p
    <3> QED
      BY <2>2, <2>3, <3>1, <3>2 DEF InOrder, KeepsOrder
  <2>6. CASE host.status # "in_call"
    <3>1. p = host
      BY <1>0, <2>6, EndedPage DEF p
    <3> QED
      BY <2>2, <2>3, <2>6, <3>1 DEF InOrder, KeepsOrder
  <2> QED
    BY <2>5, <2>6
<1> QED
  BY <1>1, <1>2, <1>3, <1>5, <1>6

-----------------------------------------------------------------------------
(* The accounts *)

LEMMA HeldOf ==
    ASSUME IInv, NEW c \in Calls
    PROVE  /\ Held(c) \in Nat
           /\ Held(c) # 0 <=> host.voucher # NoVoucher /\ host.voucher.call = c
           /\ Held(c) # 0 => Held(c) = host.voucher.amount
<1>1. host.voucher \in Vouchers
  BY DEF IInv, TypeOK, Host
<1> QED
  BY <1>1, VoucherOrNone, Prices DEF Held

(* A step that accepts nothing: the voucher stays, or what it is worth is  *)
(* paid; nobody comes who has been paid or was here before.                *)
LEMMA AccountsStep ==
    ASSUME IInv, IInv', KeptInv, Noted, \A c \in Calls : ~Receive(c),
           \/ host'.voucher = host.voucher
           \/ /\ host'.voucher = NoVoucher
              /\ \A c \in Calls : Held(c) # 0 => earned[c] <= chain'[c].paid,
           \A c \in Calls : c \in host'.joined => chain'[c].paid = 0 /\ Over(c)',
           \A c \in Calls : \/ chain'[c].paid = chain[c].paid
                            \/ Held(c) # 0 /\ earned[c] <= chain'[c].paid,
           \A c \in Calls : Over(c) => Over(c)'
    PROVE  earned' = earned /\ Accounts'
<1>1. ASSUME NEW c \in Calls
      PROVE  /\ Held(c)' \in {0, Held(c)}
             /\ Held(c)' # Held(c) => earned[c] <= chain'[c].paid
  BY <1>1 DEF Held
<1>2. \A c \in Calls : Held(c) \in Nat /\ earned[c] \in Nat
  BY HeldOf DEF KeptInv
<1>3. earned' = earned
  BY DEF Noted, KeptInv
<1>4. ASSUME NEW c \in Calls
      PROVE  /\ earned[c] <= Held(c)' \/ earned[c] <= chain'[c].paid
             /\ chain'[c].paid # 0 => earned[c] <= chain'[c].paid
             /\ c \in host'.joined => chain'[c].paid = 0
             /\ c \in host'.joined \/ Held(c)' # 0 \/ chain'[c].paid # 0 => Over(c)'
  <2>1. /\ earned[c] <= Held(c) \/ earned[c] <= chain[c].paid
        /\ chain[c].paid # 0 => earned[c] <= chain[c].paid
        /\ Held(c) # 0 \/ chain[c].paid # 0 => Over(c)
    BY DEF KeptInv, Accounts
  <2> QED
    BY <1>1, <1>2, <2>1
<1> QED
  BY <1>3, <1>4 DEF Accounts

(* Receiving: from the call the page is in, which has not been paid; what  *)
(* is received while the wallet settles is held, but not counted.          *)
LEMMA ReceiveKept ==
    ASSUME IInv, IInv', KeptInv, Noted, NEW c \in Calls, Receive(c)
    PROVE  KeptInv'
<1>0. host \in Host /\ InOrder(host) /\ IInv
  BY DEF IInv, TypeOK, KeptInv
<1> DEFINE a == Head(wire[c])
           v == [call |-> c, amount |-> a]
<1>1. /\ c \in host.joined
      /\ host' = IF a > host.voucher.amount
                 THEN [host EXCEPT !.voucher = v, !.stored = v] ELSE host
      /\ UNCHANGED <<caller, chain>>
  BY DEF Receive, Higher
<1>2. /\ v.call = c /\ v.amount = a
  OBVIOUS
<1>3. a \in Nat
  BY IInvCaller, HeadTailProperties, Prices DEF Receive
<1>4. host.voucher.amount \in Nat /\ (host.voucher = NoVoucher \/ host.voucher.amount # 0)
  <2>1. host.voucher \in Vouchers
    BY <1>0 DEF Host
  <2> QED
    BY <2>1, VoucherOrNone, Prices
<1> HIDE DEF v, a
<1>5. /\ host.status = "in_call" \/ host.handler = "hanging up"
      /\ host.id = c
      /\ host.voucher # NoVoucher => host.voucher.call = c
      /\ chain[c].paid = 0 /\ Over(c)
  BY <1>0, <1>1 DEF KeptInv, InOrder, Accounts
<1>6. \A d \in Calls : Over(d)' <=> Over(d)
  BY <1>1 DEF Over
<1>7. /\ host'.joined = host.joined /\ host'.handler = host.handler
      /\ host'.settling = host.settling
      /\ InOrder(host')
      /\ \A d \in Calls : Held(d) \in Nat /\ Held(d)' \in Nat /\ Held(d) <= Held(d)'
      /\ \A d \in Calls \ {c} : Held(d)' = 0
  <2>1. CASE host' = host
    <3>1. \A d \in Calls : Held(d)' = Held(d) /\ Held(d) \in Nat
      BY <2>1, HeldOf DEF Held
    <3>2. \A d \in Calls \ {c} : Held(d) = 0
      BY <1>5 DEF Held
    <3> QED
      BY <1>0, <2>1, <3>1, <3>2
  <2>2. CASE /\ a > host.voucher.amount
             /\ host' = [host EXCEPT !.voucher = v, !.stored = v]
    <3> DEFINE e == [host EXCEPT !.voucher = v, !.stored = v]
    <3>1. /\ e.voucher = v /\ e.stored = v
          /\ e.status = host.status /\ e.settling = host.settling
          /\ e.id = host.id /\ e.current = host.current /\ e.open = host.open
          /\ e.joined = host.joined /\ e.starting = host.starting
          /\ e.going = host.going /\ e.leaving = host.leaving
          /\ e.handler = host.handler
      BY <1>0 DEF Host
    <3> HIDE DEF e
    <3>2. host' = e
      BY <2>2 DEF e
    <3>3. a # 0 /\ v # NoVoucher
      BY <1>2, <1>3, <1>4, <2>2 DEF NoVoucher
    <3>4. host.settling # NoVoucher => host.settling.amount <= a
      <4>1. host.settling \in Vouchers
        BY <1>0 DEF Host
      <4>2. host.settling.amount \in Nat
        BY <4>1, VoucherOrNone, Prices
      <4>3. host.settling # NoVoucher => host.settling.amount <= host.voucher.amount
        BY <1>0 DEF InOrder
      <4> QED
        BY <1>3, <1>4, <2>2, <4>2, <4>3
    <3>5. InOrder(host')
      BY <1>0, <1>2, <1>5, <3>1, <3>2, <3>3, <3>4 DEF InOrder
    <3>6. Held(c)' = a /\ \A d \in Calls \ {c} : Held(d)' = 0 /\ Held(d) = 0
      BY <1>2, <1>5, <3>1, <3>2, <3>3 DEF Held
    <3>7. Held(c) <= a /\ Held(c) \in Nat
      BY <1>3, <1>4, <2>2, HeldOf DEF Held
    <3> QED
      BY <1>3, <3>1, <3>2, <3>5, <3>6, <3>7
  <2> QED
    BY <1>1, <2>1, <2>2
<1>8. ASSUME NEW d \in Calls
      PROVE  /\ earned'[d] \in Nat
             /\ \/ earned'[d] = earned[d]
                \/ /\ earned'[d] = Held(d)' /\ chain[d].paid = 0
                   /\ host.handler = "none"
  <2>1. earned[d] \in Nat
    BY DEF KeptInv
  <2>2. Receive(d) => chain[d].paid = 0
    BY DEF Receive, KeptInv, Accounts
  <2> QED
    BY <1>7, <2>1, <2>2 DEF Noted
<1>9. ASSUME NEW d \in Calls
      PROVE  /\ earned'[d] <= Held(d)' \/ earned'[d] <= chain'[d].paid
             /\ chain'[d].paid # 0 => earned'[d] <= chain'[d].paid
             /\ d \in host'.joined => chain'[d].paid = 0
             /\ d \in host'.joined \/ Held(d)' # 0 \/ chain'[d].paid # 0
                    => Over(d)'
  <2>1. /\ earned[d] <= Held(d) \/ earned[d] <= chain[d].paid
        /\ chain[d].paid # 0 => earned[d] <= chain[d].paid
        /\ d \in host.joined => chain[d].paid = 0
        /\ d \in host.joined \/ chain[d].paid # 0 => Over(d)
        /\ earned[d] \in Nat
    BY DEF KeptInv, Accounts
  <2>2. chain'[d] = chain[d] /\ (Over(d)' <=> Over(d))
    BY <1>1, <1>6
  <2>3. Held(d)' # 0 => Over(d)
    BY <1>5, <1>7
  <2>4. Held(d) \in Nat /\ Held(d)' \in Nat /\ Held(d) <= Held(d)'
    BY <1>7
  <2> QED
    BY <1>7, <1>8, <2>1, <2>2, <2>3, <2>4
<1>10. Covered'
  <2>1. CASE host.handler = "none"
    BY <1>7, <2>1 DEF Covered
  <2>2. CASE host.handler # "none"
    <3>1. \A d \in Calls : earned'[d] = earned[d] /\ chain'[d] = chain[d]
      BY <1>1, <1>8, <2>2
    <3> QED
      BY <1>7, <3>1 DEF KeptInv, Covered, Claims
  <2> QED
    BY <2>1, <2>2
<1>11. earned' \in [Calls -> Nat]
  <2>1. earned' = [d \in Calls |-> earned'[d]]
    BY DEF Noted
  <2> QED
    BY <1>8, <2>1
<1> QED
  BY <1>7, <1>9, <1>10, <1>11 DEF KeptInv, Accounts

(* What the wallet claims pays for what was earned. *)
LEMMA ClaimPays ==
    ASSUME IInv, KeptInv, Claimed(host.settling)
    PROVE  \A c \in Calls : \/ chain'[c].paid = chain[c].paid
                            \/ Held(c) # 0 /\ earned[c] <= chain'[c].paid
<1> DEFINE v == host.settling
<1>0. host \in Host /\ InOrder(host) /\ v \in Vouchers
  BY DEF IInv, TypeOK, KeptInv, Host
<1>1. CASE UNCHANGED chain
  BY <1>1
<1>2. CASE Payable(v) /\ chain' = [chain EXCEPT ![v.call].paid = v.amount]
  <2> DEFINE d == v.call
             ch == [chain[d] EXCEPT !.paid = v.amount]
  <2>1. v # NoVoucher /\ d \in Calls /\ v.amount \in Nat /\ chain[d].paid = 0
    BY <1>0, <1>2, VoucherOrNone, Prices DEF Payable
  <2>2. host.voucher \in Vouchers /\ host.voucher # NoVoucher /\ host.voucher.call = d
    BY <1>0, <2>1 DEF InOrder, Host
  <2>3. chain[d] \in Channel
    BY <2>1 DEF IInv, TypeOK
  <2>4. ch.paid = v.amount
    BY <2>3 DEF Channel
  <2>5. chain' = [chain EXCEPT ![d] = ch]
    BY <1>2
  <2> HIDE DEF ch
  <2>6. chain'[d] = ch /\ \A c \in Calls \ {d} : chain'[c] = chain[c]
    BY <2>1, <2>5 DEF IInv, TypeOK
  <2>7. Held(d) # 0
    BY <2>1, <2>2, HeldOf
  <2>8. host.handler \in {"hanging up", "collecting"}
    BY <1>0, <2>1 DEF InOrder
  <2>9. earned[d] <= v.amount
    <3>1. earned[d] <= 0 \/ earned[d] <= v.amount
      BY <2>1, <2>8 DEF KeptInv, Covered, Claims
    <3>2. earned[d] \in Nat
      BY <2>1 DEF KeptInv
    <3> QED
      BY <2>1, <3>1, <3>2
  <2> QED
    BY <2>4, <2>6, <2>7, <2>9
<1> QED
  BY <1>1, <1>2 DEF Claimed

LEMMA SubmittedPays ==
    ASSUME IInv, KeptInv, Funded, Executed, Submitted
    PROVE  \A c \in Calls : earned[c] <= chain'[c].paid
<1> DEFINE v == host.settling
<1>0. /\ host \in Host /\ InOrder(host) /\ v \in Vouchers /\ Claimed(v)
      /\ host.handler \in {"hanging up", "collecting"}
  BY DEF IInv, TypeOK, KeptInv, Host, Submitted
<1> SUFFICES ASSUME NEW c \in Calls PROVE earned[c] <= chain'[c].paid
  OBVIOUS
<1>1. \/ chain'[c].paid = chain[c].paid
      \/ earned[c] <= chain'[c].paid
  BY <1>0, ClaimPays
<1>2. CASE earned[c] <= chain[c].paid
  BY <1>1, <1>2
<1>3. CASE ~(earned[c] <= chain[c].paid)
  <2>1. v # NoVoucher /\ v.call = c /\ earned[c] <= v.amount /\ chain[c].paid = 0
    BY <1>0, <1>3 DEF KeptInv, Covered, Claims, Accounts
  <2>2. v.amount <= chain[c].deposit
    <3>1. /\ host.voucher # NoVoucher /\ host.voucher.call = c
          /\ v.amount <= host.voucher.amount
          /\ host.voucher \in Vouchers /\ Signed(host.voucher)
      BY <1>0, <2>1 DEF InOrder, IInv, Host
    <3>2. host.voucher.amount <= chain[c].deposit
      BY <3>1, FundedIsClaimable
    <3>3. v.amount \in Nat /\ host.voucher.amount \in Nat /\ chain[c].deposit \in Nat
      <4>1. v.amount \in Nat /\ host.voucher.amount \in Nat
        BY <1>0, <3>1, VoucherIsNat
      <4>2. chain[c].deposit \in Nat
        BY ChannelIsNat
      <4> QED
        BY <4>1, <4>2
    <3> QED
      BY <3>1, <3>2, <3>3
  <2>3. Payable(v)
    BY <2>1, <2>2 DEF Payable
  <2>4. chain' = [chain EXCEPT ![c].paid = v.amount]
    BY <1>0, <2>1, <2>3 DEF Executed, Claimed
  <2> DEFINE ch == [chain[c] EXCEPT !.paid = v.amount]
  <2>5. ch.paid = v.amount
    BY IInvCaller DEF Channel
  <2>6. chain' = [chain EXCEPT ![c] = ch]
    BY <2>4
  <2> HIDE DEF ch
  <2>7. chain'[c] = ch
    BY <2>6 DEF IInv, TypeOK
  <2> QED
    BY <2>1, <2>5, <2>7
<1> QED
  BY <1>2, <1>3

(* Settling: the wallet pays what the page holds, or it is held on.        *)
LEMMA SettlingKept ==
    ASSUME IInv, IInv', KeptInv, Noted, Funded, Executed, Settling,
           \A c \in Calls : ~Receive(c)
    PROVE  KeptInv'
<1>0. host \in Host /\ InOrder(host) /\ Accounts /\ Covered
  BY DEF IInv, TypeOK, KeptInv
<1>1. \A c \in Calls : Over(c) => Over(c)'
  BY DEF Settling, Submitted, Refused, HungUp, Refresh, HostOnly, Over
<1>2. ASSUME host'.joined = {}, InOrder(host'), Covered',
             \/ host'.voucher = host.voucher
             \/ /\ host'.voucher = NoVoucher
                /\ \A c \in Calls : Held(c) # 0 => earned[c] <= chain'[c].paid,
             \A c \in Calls : \/ chain'[c].paid = chain[c].paid
                              \/ Held(c) # 0 /\ earned[c] <= chain'[c].paid
      PROVE  KeptInv'
  <2>1. earned' = earned /\ Accounts'
    BY <1>1, <1>2, AccountsStep
  <2> QED
    BY <1>2, <2>1 DEF KeptInv
<1>3. earned' = earned
  BY DEF Noted, KeptInv
<1>4. host.handler # "none" => /\ ~host.going /\ ~host.leaving
                              /\ host.starting = {} /\ host.status = "settling"
                              /\ host.open \ {host.current} = {}
                              /\ host.joined \ {host.current} = {}
                              /\ \/ host.handler = "hanging up"
                                 \/ host.open = {} /\ host.joined = {}
  BY <1>0 DEF InOrder
<1>5. CASE Submitted
  <2>1. \A c \in Calls : earned[c] <= chain'[c].paid
    BY <1>5, SubmittedPays DEF KeptInv
  <2>2. \A c \in Calls : \/ chain'[c].paid = chain[c].paid
                         \/ Held(c) # 0 /\ earned[c] <= chain'[c].paid
    BY <1>5, SubmittedPage, ClaimPays
  <2>3. Covered'
    BY <1>3, <2>1 DEF Covered, Claims
  <2>4. CASE host.handler = "hanging up" /\ host' = Tells("paid")
    <3>1. /\ host'.joined = {} /\ InOrder(host') /\ host'.voucher = host.voucher
      BY <1>0, <1>4, <2>4, TellsPage DEF InOrder
    <3> QED
      BY <1>2, <2>2, <2>3, <3>1
  <2>5. CASE host.handler = "collecting" /\ host' = Forgotten(host)
    <3>1. /\ host'.joined = {} /\ InOrder(host') /\ host'.voucher = NoVoucher
      BY <1>0, <1>4, <2>5, ForgottenPage DEF InOrder
    <3> QED
      BY <1>2, <2>1, <2>2, <2>3, <3>1
  <2> QED
    BY <1>5, <2>4, <2>5, SubmittedPage
<1>6. CASE Refused
  <2>1. UNCHANGED chain
    BY <1>6 DEF Refused, HostOnly
  <2>2. CASE host.handler = "hanging up" /\ host' = Tells("unpaid")
    <3>1. /\ host'.joined = {} /\ InOrder(host') /\ host'.voucher = host.voucher
          /\ host'.handler = "unpaid"
      BY <1>0, <1>4, <2>2, TellsPage DEF InOrder
    <3>2. Covered'
      BY <3>1 DEF Covered
    <3> QED
      BY <1>2, <2>1, <3>1, <3>2
  <2>3. CASE host.handler = "collecting" /\ host' = Kept(host)
    <3>1. /\ host'.joined = {} /\ InOrder(host') /\ host'.voucher = host.voucher
          /\ host'.handler = "none"
      BY <1>0, <1>4, <2>3, KeptPage DEF InOrder
    <3>2. Covered'
      BY <3>1 DEF Covered
    <3> QED
      BY <1>2, <2>1, <3>1, <3>2
  <2> QED
    BY <1>6, <2>2, <2>3 DEF Refused
<1>7. CASE HungUp
  <2>1. UNCHANGED chain
    BY <1>7, HungUpPage
  <2>2. CASE host.handler = "paid" /\ host' = Forgotten(Silent)
    <3>1. /\ host'.joined = {} /\ InOrder(host') /\ host'.voucher = NoVoucher
          /\ host'.handler = "none"
      BY <1>0, <1>4, <2>2, SilentPage, ForgottenPage DEF InOrder
    <3>2. Covered'
      BY <3>1 DEF Covered
    <3>3. \A c \in Calls : earned[c] <= chain'[c].paid
      BY <1>0, <2>1, <2>2 DEF Covered
    <3> QED
      BY <1>2, <2>1, <3>1, <3>2, <3>3
  <2>3. CASE host.handler = "unpaid" /\ host' = Kept(Silent)
    <3>1. /\ host'.joined = {} /\ InOrder(host') /\ host'.voucher = host.voucher
          /\ host'.handler = "none"
      BY <1>0, <1>4, <2>3, SilentPage, KeptPage DEF InOrder
    <3>2. Covered'
      BY <3>1 DEF Covered
    <3> QED
      BY <1>2, <2>1, <3>1, <3>2
  <2> QED
    BY <1>7, <2>2, <2>3, HungUpPage
<1>8. CASE Refresh
  <2>1. /\ host'.joined = {} /\ InOrder(host') /\ host'.voucher = host.voucher
        /\ host'.handler = "none"
    BY <1>0, <1>8, RefreshPage DEF InOrder
  <2>2. Covered'
    BY <2>1 DEF Covered
  <2>3. Claimed(host.settling)
    BY <1>8 DEF Refresh
  <2> QED
    BY <1>2, <2>1, <2>2, <2>3, ClaimPays
<1> QED
  BY <1>5, <1>6, <1>7, <1>8 DEF Settling

LEMMA NothingIsLeast ==
    ASSUME NEW a \in Nat, NEW b \in Nat, a <= 0 PROVE a <= b
OBVIOUS

(* Where the page only begins to settle, what the wallet is asked for is   *)
(* what it holds.                                                          *)
LEMMA CoveredStep ==
    ASSUME IInv, KeptInv, earned' = earned,
           \A c \in Calls : chain'[c].paid = chain[c].paid,
           \/ host'.handler = host.handler /\ host'.settling = host.settling
           \/ /\ host'.handler \in {"hanging up", "collecting"}
              /\ host'.settling = host.voucher
    PROVE  Covered'
<1>1. CASE host'.handler = host.handler /\ host'.settling = host.settling
  BY <1>1 DEF KeptInv, Covered, Claims
<1>2. CASE /\ host'.handler \in {"hanging up", "collecting"}
           /\ host'.settling = host.voucher
  <2>1. ASSUME NEW c \in Calls PROVE Claims(host.voucher, c)
    <3>1. earned[c] <= Held(c) \/ earned[c] <= chain[c].paid
      BY DEF KeptInv, Accounts
    <3>2. CASE Held(c) = 0
      <4>1. earned[c] \in Nat
        BY DEF KeptInv
      <4>2. chain[c].paid \in Nat
        BY ChannelIsNat
      <4>3. earned[c] <= chain[c].paid
        <5>1. CASE earned[c] <= Held(c)
          <6>1. earned[c] <= 0
            BY <3>2, <5>1
          <6> QED
            BY <4>1, <4>2, <6>1, NothingIsLeast
        <5> QED
          BY <3>1, <5>1
      <4> QED
        BY <4>3 DEF Claims
    <3>3. CASE Held(c) # 0
      BY <3>1, <3>3, HeldOf DEF Claims
    <3> QED
      BY <3>2, <3>3
  <2> QED
    BY <1>2, <2>1 DEF Covered, Claims
<1> QED
  BY <1>1, <1>2

LEMMA NextKept ==
    ASSUME IInv, IInv', Funded, KeptInv, Next, Executed, Undisturbed, Granted,
           Noted
    PROVE  KeptInv'
<1>0. CASE \E c \in Calls : Receive(c)
  BY <1>0, ReceiveKept
<1> SUFFICES ASSUME \A c \in Calls : ~Receive(c) PROVE KeptInv'
  BY <1>0
<1>1. ASSUME NEW c \in Calls, Starting(c) \/ Calling(c) PROVE KeptInv'
  <2>1. CallerEffect(c)
    BY <1>1, StartingEffect, CallingEffect
  <2>2. /\ InOrder(host') /\ host'.voucher = host.voucher
        /\ host'.handler = host.handler /\ host'.settling = host.settling
    <3>1. CASE host' = host
      BY <3>1 DEF KeptInv
    <3>2. CASE /\ host' = [host EXCEPT !.joined = @ \cup {c}]
               /\ c \in host.open
      <4> DEFINE e == [host EXCEPT !.joined = @ \cup {c}]
      <4>1. host \in Host
        BY DEF IInv, TypeOK
      <4>2. /\ e.voucher = host.voucher /\ e.stored = host.stored
            /\ e.status = host.status /\ e.settling = host.settling
            /\ e.id = host.id /\ e.current = host.current /\ e.open = host.open
            /\ e.joined = host.joined \cup {c} /\ e.starting = host.starting
            /\ e.going = host.going /\ e.leaving = host.leaving
            /\ e.handler = host.handler
        BY <4>1 DEF Host
      <4> HIDE DEF e
      <4>3. host' = e
        BY <3>2 DEF e
      <4> QED
        BY <3>2, <4>2, <4>3 DEF KeptInv, InOrder
    <3> QED
      BY <2>1, <3>1, <3>2 DEF CallerEffect
  <2>3. ASSUME NEW d \in Calls, d \in host'.joined
        PROVE  chain'[d].paid = 0 /\ Over(d)'
    <3>1. d \in host.joined \/ (d = c /\ ~Over(c) /\ Over(c)')
      <4>1. host \in Host
        BY DEF IInv, TypeOK
      <4>2. \/ host' = host
            \/ /\ host' = [host EXCEPT !.joined = @ \cup {c}]
               /\ ~Over(c) /\ Over(c)'
        BY <2>1 DEF CallerEffect
      <4>3. host'.joined = host.joined \/ host'.joined = host.joined \cup {c}
        BY <4>1, <4>2 DEF Host
      <4> QED
        BY <2>3, <4>2, <4>3
    <3> QED
      BY <2>1, <3>1 DEF KeptInv, Accounts, CallerEffect
  <2>4. earned' = earned /\ Accounts'
    BY <2>1, <2>2, <2>3, AccountsStep DEF CallerEffect
  <2>5. Covered'
    BY <2>1, <2>2, <2>4, CoveredStep DEF CallerEffect
  <2> QED
    BY <2>2, <2>4, <2>5 DEF KeptInv
<1>2. ASSUME KeepsOrder(host'), UNCHANGED <<caller, chain>> PROVE KeptInv'
  <2>1. \A c \in Calls : Over(c)' <=> Over(c)
    BY <1>2 DEF Over
  <2>2. \A c \in Calls : c \in host'.joined => chain'[c].paid = 0 /\ Over(c)'
    BY <1>2, <2>1 DEF KeepsOrder, KeptInv, Accounts
  <2>3. earned' = earned /\ Accounts'
    BY <1>2, <2>1, <2>2, AccountsStep DEF KeepsOrder
  <2>4. Covered'
    BY <1>2, <2>3, CoveredStep DEF KeepsOrder
  <2> QED
    BY <1>2, <2>3, <2>4 DEF KeepsOrder, KeptInv
<1>3. ASSUME NEW c \in Calls, Hosting(c) PROVE KeptInv'
  <2>1. CASE Lost(c) \/ Swept(c)
    <3>1. UNCHANGED <<caller, chain, host>>
      BY <2>1 DEF Lost, Swept
    <3> QED
      BY <1>2, <3>1 DEF KeptInv, KeepsOrder
  <2>2. CASE \/ IncomingCall(c) \/ HostConnects(c) \/ HostStartFails(c)
             \/ PeerDown(c) \/ SocketClosed(c)
    <3>1. KeepsOrder(host')
      BY <2>2, CallOrder DEF KeptInv
    <3>2. UNCHANGED <<caller, chain>>
      BY <2>2 DEF IncomingCall, HostConnects, HostStartFails, PeerDown,
                  SocketClosed, HostOnly
    <3> QED
      BY <1>2, <3>1, <3>2
  <2> QED
    BY <1>3, <2>1, <2>2 DEF Hosting
<1>4. CASE HostUser
  <2>1. KeepsOrder(host')
    BY <1>4, HostUserOrder DEF KeptInv
  <2>2. UNCHANGED <<caller, chain>>
    BY <1>4 DEF HostUser, GoLive, WentLive, GoOffline, WentOffline, HostHangUp,
                GetPaid, Asks, HostOnly
  <2> QED
    BY <1>2, <2>1, <2>2
<1> QED
  BY <1>1, <1>3, <1>4, SettlingKept DEF Next

-----------------------------------------------------------------------------
(* Deployments *)

PremisedInv ==
    /\ IInv
    /\ "executed" \in premises => Funded
    /\ {"executed", "undisturbed", "granted"} \subseteq premises => KeptInv

LEMMA KeptInit ==
    ASSUME Init, earned = [c \in Calls |-> 0]
    PROVE  Funded /\ KeptInv
<1> DEFINE k == [state |-> "idle", start |-> "none", connected |-> FALSE,
          posting |-> "none", adding |-> FALSE, deposit |-> 0, signed |-> 0]
           ch == [deposit |-> 0, paid |-> 0]
<1>1. k.deposit = 0 /\ ch.deposit = 0 /\ ch.paid = 0
  OBVIOUS
<1>2. caller = [c \in Calls |-> k] /\ chain = [c \in Calls |-> ch]
  BY DEF Init
<1> HIDE DEF k, ch
<1>3. /\ host.status = "offline" /\ host.open = {} /\ host.joined = {}
      /\ host.starting = {} /\ host.voucher = NoVoucher
      /\ host.stored = NoVoucher /\ host.settling = NoVoucher
      /\ ~host.going /\ ~host.leaving /\ host.handler = "none"
  BY DEF Init
<1>4. \A c \in Calls : Held(c) = 0
  BY <1>3 DEF Held
<1>5. InOrder(host)
  BY <1>3 DEF InOrder
<1>6. Funded /\ Accounts
  BY <1>1, <1>2, <1>3, <1>4 DEF Funded, Accounts
<1> QED
  BY <1>3, <1>5, <1>6 DEF KeptInv, Covered

LEMMA PremisedStep == PremisedInv /\ [DeployedNext]_DeployedVars => PremisedInv'
<1> SUFFICES ASSUME PremisedInv, [DeployedNext]_DeployedVars PROVE PremisedInv'
  OBVIOUS
<1>1. CASE UNCHANGED DeployedVars
  <2>1. UNCHANGED vars /\ UNCHANGED <<premises, earned>>
    BY <1>1 DEF DeployedVars
  <2>2. IInv'
    BY <2>1, NextIInv DEF PremisedInv
  <2> QED
    BY <2>1, <2>2 DEF PremisedInv, vars, Funded, KeptInv, Accounts, Covered, Claims,
                       Held, Over
<1>2. CASE DeployedNext
  <2>1. Next /\ Observed /\ Noted /\ premises' = premises
    BY <1>2 DEF DeployedNext
  <2>2. IInv'
    BY <2>1, NextIInv DEF PremisedInv
  <2> QED
    BY <2>1, <2>2, NextFunded, NextKept DEF PremisedInv, Observed
<1> QED
  BY <1>1, <1>2

(* A wallet's transactions executed, no call taken while a handleGoLive or *)
(* handleGoOffline waits and the microphone granted first, each voucher    *)
(* that a host has accepted before it settles is shown and stored until it *)
(* is paid, however calls end, however often pages are loaded again and    *)
(* wallets refuse; and a host never holds a voucher that its caller's      *)
(* channel cannot pay.                                                     *)
THEOREM EarnedAreKept == DeployedSpec => []EarnedIsKept
<1>1. DeployedInit => PremisedInv
  BY InitIInv, KeptInit DEF DeployedInit, PremisedInv
<1>2. PremisedInv => EarnedIsKept
  <2> SUFFICES ASSUME PremisedInv PROVE EarnedIsKept
    OBVIOUS
  <2>1. ASSUME Funded PROVE HeldIsFunded
    <3> SUFFICES ASSUME NEW c \in Calls PROVE Held(c) <= chain[c].deposit
      BY DEF HeldIsFunded
    <3>1. chain[c].deposit \in Nat
      BY IInvCaller, Prices DEF PremisedInv, Channel
    <3>2. CASE Held(c) = 0
      BY <3>1, <3>2
    <3>3. CASE Held(c) # 0
      <4>1. /\ host.voucher # NoVoucher /\ host.voucher.call = c
            /\ Held(c) = host.voucher.amount
        BY <3>3, HeldOf DEF PremisedInv
      <4>2. host.voucher \in Vouchers /\ Signed(host.voucher)
        BY DEF PremisedInv, IInv, TypeOK, Host
      <4> QED
        BY <2>1, <4>1, <4>2, FundedIsClaimable DEF PremisedInv
    <3> QED
      BY <3>2, <3>3
  <2>2. ASSUME KeptInv PROVE EarnedIsHeld
    <3> SUFFICES ASSUME NEW c \in Calls, earned[c] > chain[c].paid
                 PROVE  Held(c) >= earned[c] /\ host.stored = host.voucher
      BY DEF EarnedIsHeld
    <3>1. chain[c].paid \in Nat /\ earned[c] \in Nat
      BY <2>2, IInvCaller, Prices DEF PremisedInv, Channel, KeptInv
    <3>2. ~(earned[c] <= chain[c].paid)
      BY <3>1
    <3>3. earned[c] <= Held(c) /\ Held(c) \in Nat
      BY <2>2, <3>2, HeldOf DEF KeptInv, Accounts, PremisedInv
    <3> QED
      BY <2>2, <3>1, <3>3 DEF KeptInv, InOrder
  <2> QED
    BY <2>1, <2>2 DEF PremisedInv, EarnedIsKept
<1> QED
  BY <1>1, <1>2, PremisedStep, PTL DEF DeployedSpec

=============================================================================
