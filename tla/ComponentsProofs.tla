---------------------------- MODULE ComponentsProofs ----------------------------
(***************************************************************************)
(* Proofs about SessionMethod, for every set of channels, keys and tasks   *)
(* and every width of the amounts: the invariants that hold whatever the   *)
(* clients send, and, for the orderly regime, that the handlers implement  *)
(* the abstract payment channel.  And that in MCComponents the handlers,   *)
(* the charge method, the stores, the vouchers, the proxy, the amounts and *)
(* the challenges keep their promises side by side.                        *)
(***************************************************************************)
EXTENDS MCComponents, SessionCharges, Sequences, TLAPS

-----------------------------------------------------------------------------
(* The inductive invariant: one condition on a store entry and one on what *)
(* a task carries over an await.                                           *)

(* An entry's deposit lags behind the chain, never ahead of it, and as     *)
(* long as the entry is open so does its highest voucher.                  *)
EntryOK(c, e) ==
    /\ e.deposit <= chain[c].deposit
    /\ e.signature.channel = c
    /\ e.signature.amount = e.highest
    /\ ~e.finalized => e.highest <= chain[c].deposit /\ e.spent <= e.highest

(* The deposit on chain only grows, so what a task has read of it, and the *)
(* amount it has checked against that, stay below it.                      *)
PendingOK(p) ==
    /\ p.op \in {"open", "topUpWait", "topUp"}
         => p.deposit <= chain[p.channel].deposit
    /\ p.op \in {"open", "voucher"} => p.amount <= chain[p.channel].deposit
    /\ p.op \in {"open", "voucher", "close"} =>
         p.signature.channel = p.channel /\ p.signature.amount = p.amount
    /\ p.op \in {"topUpWait", "topUp", "voucher", "close"} => Known(p.channel)

IInv ==
    /\ TypeOK
    /\ \A c \in Channels : Known(c) => EntryOK(c, store[c])
    /\ \A t \in Tasks : PendingOK(task[t])

LEMMA InvariantImplies ==
  IInv => VouchersCovered /\ HighestIsSigned
  BY DEF IInv, EntryOK, PendingOK, VouchersCovered, HighestIsSigned, Open

LEMMA InvariantInit == Init => IInv
  BY SessionAssumption
  DEF Init, IInv, TypeOK, OnChainChannel, Amounts, TaskState, Idle, Known,
      PendingOK

-----------------------------------------------------------------------------
(* The three ways a step changes the state *)

(* A step of the chain: deposits only grow. *)
LEMMA ChainChange ==
  ASSUME IInv, chain' \in [Channels -> OnChainChannel],
         \A c \in Channels : chain'[c].deposit >= chain[c].deposit,
         UNCHANGED <<store, task>>
  PROVE  IInv'
  <1>1. TypeOK'
    BY DEF IInv, TypeOK
  <1>2. \A c \in Channels : chain[c].deposit \in Nat /\ chain'[c].deposit \in Nat
    BY SessionAssumption DEF IInv, TypeOK, OnChainChannel, Amounts
  <1>3. ASSUME NEW c \in Channels, Known(c)'
        PROVE  EntryOK(c, store[c])'
    <2>1. store[c] \in ChannelState /\ EntryOK(c, store[c]) /\ store'[c] = store[c]
      BY <1>3 DEF IInv, TypeOK, Known
    <2>2. store[c].deposit \in Nat /\ store[c].highest \in Nat
      BY <2>1, SessionAssumption DEF ChannelState, Amounts
    <2>3. QED BY <1>2, <2>1, <2>2 DEF EntryOK
  <1>4. ASSUME NEW t \in Tasks
        PROVE  PendingOK(task[t])'
    <2>1. task[t] \in TaskState /\ PendingOK(task[t]) /\ task'[t] = task[t]
      BY DEF IInv, TypeOK
    <2>2. CASE task[t] = Idle
      BY <2>1, <2>2 DEF PendingOK, Idle
    <2>3. CASE task[t] # Idle
      <3>1. task[t].channel \in Channels
        BY <2>1, <2>3 DEF TaskState, OpenCommitting, TopUpWaiting,
            TopUpCommitting, VoucherCommitting, CloseCommitting
      <3>2. task[t].op \in {"open", "topUpWait", "topUp"} => task[t].deposit \in Nat
        BY <2>1, <2>3, SessionAssumption DEF TaskState, OpenCommitting, TopUpWaiting,
            TopUpCommitting, VoucherCommitting, CloseCommitting, Amounts
      <3>3. task[t].op \in {"open", "voucher"} => task[t].amount \in Nat
        BY <2>1, <2>3, SessionAssumption DEF TaskState, OpenCommitting, TopUpWaiting,
            TopUpCommitting, VoucherCommitting, CloseCommitting, Amounts
      <3>4. QED BY SMTT(30), <1>2, <2>1, <3>1, <3>2, <3>3 DEF PendingOK, Known
    <2>4. QED BY <2>2, <2>3
  <1>5. QED BY <1>1, <1>3, <1>4 DEF IInv

(* A step of a task between two of its reads. *)
LEMMA TaskChange ==
  ASSUME IInv, NEW t \in Tasks, NEW p \in TaskState, PendingOK(p),
         task' = [task EXCEPT ![t] = p], UNCHANGED <<chain, store>>
  PROVE  IInv'
  <1>1. TypeOK'
    BY DEF IInv, TypeOK
  <1>2. \A c \in Channels : Known(c)' => EntryOK(c, store[c])'
    BY DEF IInv, EntryOK, Known
  <1>3. ASSUME NEW u \in Tasks
        PROVE  PendingOK(task[u])'
    <2>1. task'[u] = (IF u = t THEN p ELSE task[u]) /\ PendingOK(task[u])
      BY DEF IInv, TypeOK
    <2>2. QED BY <2>1 DEF PendingOK, Known
  <1>4. QED BY <1>1, <1>2, <1>3 DEF IInv

(* The closure of an update_channel: one entry is replaced. *)
LEMMA EntryChange ==
  ASSUME IInv, NEW c \in Channels, NEW e \in ChannelState, EntryOK(c, e),
         UpdateChannel(c, e), UNCHANGED chain,
         \/ UNCHANGED task
         \/ \E t \in Tasks : Finish(t)
  PROVE  IInv'
  <1>1. store' \in [Channels -> ChannelState \cup {NoChannel}]
    BY DEF IInv, TypeOK, UpdateChannel
  <1>2. /\ task' \in [Tasks -> TaskState]
        /\ \A t \in Tasks : task'[t] = task[t] \/ task'[t] = Idle
    BY DEF IInv, TypeOK, Finish, TaskState
  <1>3. e # NoChannel
    BY DEF ChannelState, NoChannel
  <1>4. \A d \in Channels : store'[d] = (IF d = c THEN e ELSE store[d])
    BY DEF IInv, TypeOK, UpdateChannel
  <1>5. ASSUME NEW d \in Channels, Known(d)'
        PROVE  EntryOK(d, store[d])'
    BY <1>4, <1>5 DEF IInv, Known, EntryOK
  <1>6. ASSUME NEW t \in Tasks
        PROVE  PendingOK(task[t])'
    <2>1. CASE task'[t] = Idle
      BY <2>1 DEF PendingOK, Idle
    <2>2. CASE task'[t] = task[t] /\ task[t] # Idle
      <3>1. task[t] \in TaskState /\ PendingOK(task[t])
        BY DEF IInv, TypeOK
      <3>2. task[t].channel \in Channels
        BY <2>2, <3>1 DEF TaskState, OpenCommitting, TopUpWaiting,
            TopUpCommitting, VoucherCommitting, CloseCommitting
      <3>3. Known(task[t].channel) => Known(task[t].channel)'
        BY <1>3, <1>4, <2>2, <3>2 DEF Known
      <3>4. QED BY <2>2, <3>1, <3>3 DEF PendingOK
    <2>3. QED BY <1>2, <2>1, <2>2
  <1>7. TypeOK'
    BY <1>1, <1>2 DEF IInv, TypeOK
  <1>8. QED BY <1>5, <1>6, <1>7 DEF IInv

-----------------------------------------------------------------------------
(* Each action preserves the invariant *)

LEMMA ChainPreserves ==
  ASSUME IInv, NEW c \in Channels, ChainStep(c)
  PROVE  IInv'
  <1>1. /\ chain' \in [Channels -> OnChainChannel]
        /\ \A d \in Channels : chain'[d].deposit >= chain[d].deposit
        /\ UNCHANGED <<store, task>>
    <2>1. \A d \in Channels : chain[d] \in OnChainChannel /\ chain[d].deposit \in Nat
      BY SessionAssumption DEF IInv, TypeOK, OnChainChannel, Amounts
    <2>2. CASE ChainOpen(c)
      BY <2>1, <2>2, SessionAssumption
      DEF ChainOpen, IInv, TypeOK, OnChainChannel, Amounts
    <2>3. CASE ChainTopUp(c)
      BY <2>1, <2>3, SessionAssumption
      DEF ChainTopUp, IInv, TypeOK, OnChainChannel, Amounts
    <2>4. CASE ChainClose(c)
      <3> DEFINE closed == [chain[c] EXCEPT !.finalized = TRUE]
      <3>1. closed \in OnChainChannel /\ closed.deposit = chain[c].deposit
        BY <2>1 DEF OnChainChannel
      <3>2. chain \in [Channels -> OnChainChannel] /\ chain' = [chain EXCEPT ![c] = closed]
        BY <2>4 DEF ChainClose, IInv, TypeOK
      <3> HIDE DEF closed
      <3>3. \A d \in Channels : chain'[d].deposit = chain[d].deposit
        BY <3>1, <3>2
      <3>4. chain' \in [Channels -> OnChainChannel]
        BY <3>1, <3>2
      <3>5. QED BY <2>1, <2>4, <3>3, <3>4 DEF ChainClose
    <2>5. QED BY <2>2, <2>3, <2>4 DEF ChainStep
  <1>2. QED BY <1>1, ChainChange

LEMMA AcceptPreserves ==
  ASSUME IInv, NEW t \in Tasks, NEW c \in Channels, Accept(t, c)
  PROVE  IInv'
  <1>0. chain[c] \in OnChainChannel /\ store[c] \in ChannelState \cup {NoChannel}
    BY DEF IInv, TypeOK
  <1>1. CASE OpenRead(t, c)
    <2>1. PICK a \in Amounts, sig \in Signature, key \in Keys :
            /\ a <= chain[c].deposit
            /\ VerifyVoucher(c, a, sig, key)
            /\ task' = [task EXCEPT ![t] =
                 [op |-> "open", channel |-> c, deposit |-> chain[c].deposit,
                  amount |-> a, signature |-> sig, key |-> key]]
      BY <1>1 DEF OpenRead, WithinDeposit
    <2> DEFINE p == [op |-> "open", channel |-> c, deposit |-> chain[c].deposit,
                     amount |-> a, signature |-> sig, key |-> key]
    <2>2. p \in TaskState
      BY <1>0 DEF TaskState, OpenCommitting, OnChainChannel
    <2>3. PendingOK(p)
      BY <1>0, <2>1, SessionAssumption
      DEF PendingOK, VerifyVoucher, OnChainChannel, Amounts
    <2>4. QED BY <1>1, <2>1, <2>2, <2>3, TaskChange DEF OpenRead, WithinDeposit
  <1>2. CASE TopUpRead(t, c)
    <2> DEFINE p == [op |-> "topUpWait", channel |-> c, deposit |-> store[c].deposit]
    <2>1. store[c] \in ChannelState /\ EntryOK(c, store[c]) /\ Known(c)
      BY <1>0, <1>2 DEF TopUpRead, IInv, Known
    <2>2. p \in TaskState
      BY <2>1 DEF TaskState, TopUpWaiting, ChannelState
    <2>3. PendingOK(p)
      BY <2>1 DEF PendingOK, EntryOK
    <2>4. QED BY <1>2, <2>2, <2>3, TaskChange DEF TopUpRead
  <1>3. CASE VoucherRead(t, c)
    <2>1. PICK a \in Amounts, sig \in Signature :
            /\ a <= store[c].deposit
            /\ VerifyVoucher(c, a, sig, store[c].signer)
            /\ task' = [task EXCEPT ![t] =
                 [op |-> "voucher", channel |-> c, amount |-> a, signature |-> sig]]
      BY <1>3 DEF VoucherRead, Accepting, WithinDeposit, DeltaOK
    <2> DEFINE p == [op |-> "voucher", channel |-> c, amount |-> a, signature |-> sig]
    <2>2. store[c] \in ChannelState /\ EntryOK(c, store[c]) /\ Known(c)
      BY <1>0, <1>3 DEF VoucherRead, Accepting, WithinDeposit, DeltaOK, IInv, Open, Known
    <2>3. p \in TaskState
      BY DEF TaskState, VoucherCommitting
    <2>4. a <= chain[c].deposit
      BY <1>0, <2>1, <2>2, SessionAssumption
      DEF EntryOK, OnChainChannel, ChannelState, Amounts
    <2>5. PendingOK(p)
      BY <2>1, <2>2, <2>4 DEF PendingOK, VerifyVoucher
    <2>6. QED BY <1>3, <2>1, <2>3, <2>5, TaskChange DEF VoucherRead, Accepting, WithinDeposit, DeltaOK
  <1>4. CASE CloseRead(t, c)
    <2>1. PICK a \in Amounts, sig \in Signature :
            /\ VerifyVoucher(c, a, sig, store[c].signer)
            /\ task' = [task EXCEPT ![t] =
                 [op |-> "close", channel |-> c, amount |-> a, signature |-> sig]]
      BY <1>4 DEF CloseRead, Accepting, CoversHighest
    <2> DEFINE p == [op |-> "close", channel |-> c, amount |-> a, signature |-> sig]
    <2>2. p \in TaskState
      BY DEF TaskState, CloseCommitting
    <2>3. PendingOK(p)
      BY <1>4, <2>1 DEF CloseRead, Accepting, CoversHighest, Open, PendingOK, VerifyVoucher
    <2>4. QED BY <1>4, <2>1, <2>2, <2>3, TaskChange DEF CloseRead, Accepting, CoversHighest
  <1>5. QED BY <1>1, <1>2, <1>3, <1>4 DEF Accept

(* What a task holds, by the point it has reached. *)
LEMMA PendingType ==
  ASSUME IInv, NEW t \in Tasks
  PROVE  /\ task[t].op = "open" => task[t] \in OpenCommitting
         /\ task[t].op = "topUpWait" => task[t] \in TopUpWaiting
         /\ task[t].op = "topUp" => task[t] \in TopUpCommitting
         /\ task[t].op = "voucher" => task[t] \in VoucherCommitting
         /\ task[t].op = "close" => task[t] \in CloseCommitting
         /\ PendingOK(task[t])
  BY DEF IInv, TypeOK, TaskState, Idle, OpenCommitting, TopUpWaiting,
         TopUpCommitting, VoucherCommitting, CloseCommitting

LEMMA ProceedPreserves ==
  ASSUME IInv, NEW t \in Tasks, Proceed(t)
  PROVE  IInv'
  <1> DEFINE c == task[t].channel
  <1>0. \A d \in Channels :
          /\ chain[d] \in OnChainChannel
          /\ Known(d) => store[d] \in ChannelState /\ EntryOK(d, store[d])
    BY DEF IInv, TypeOK, Known
  <1>1. CASE OpenCommit(t)
    <2> DEFINE e == [signer |-> task[t].key, deposit |-> task[t].deposit,
            highest |-> task[t].amount, signature |-> task[t].signature,
            spent |-> 0, finalized |-> FALSE]
    <2>1. task[t] \in OpenCommitting /\ PendingOK(task[t]) /\ task[t].op = "open"
      BY <1>1, PendingType DEF OpenCommit
    <2>2. c \in Channels /\ e \in ChannelState
      BY <2>1, SessionAssumption DEF OpenCommitting, ChannelState, Amounts
    <2>3. EntryOK(c, e)
      BY <2>1, SessionAssumption DEF EntryOK, PendingOK, OpenCommitting, Amounts
    <2>4. UpdateChannel(c, e) /\ Finish(t) /\ UNCHANGED chain
      BY <1>1 DEF OpenCommit
    <2>5. QED BY <2>2, <2>3, <2>4, EntryChange
  <1>2. CASE TopUpCheck(t)
    <2> DEFINE p == [op |-> "topUp", channel |-> c, deposit |-> chain[c].deposit]
    <2>1. task[t] \in TopUpWaiting /\ PendingOK(task[t]) /\ task[t].op = "topUpWait"
      BY <1>2, PendingType DEF TopUpCheck
    <2>2. c \in Channels
      BY <2>1 DEF TopUpWaiting
    <2>3. p \in TaskState
      BY <1>0, <2>2 DEF TaskState, TopUpCommitting, OnChainChannel
    <2>4. PendingOK(p)
      BY <1>0, <2>1, <2>2, SessionAssumption
      DEF PendingOK, OnChainChannel, Amounts
    <2>5. QED BY <1>2, <2>3, <2>4, TaskChange DEF TopUpCheck
  <1>3. CASE TopUpRefuse(t)
    <2>1. Idle \in TaskState /\ PendingOK(Idle)
      BY DEF TaskState, Idle, PendingOK
    <2>2. QED BY <1>3, <2>1, TaskChange DEF TopUpRefuse, Finish
  <1>4. CASE TopUpCommit(t)
    <2> DEFINE e == [store[c] EXCEPT !.deposit = task[t].deposit]
    <2>1. task[t] \in TopUpCommitting /\ PendingOK(task[t]) /\ task[t].op = "topUp"
      BY <1>4, PendingType DEF TopUpCommit, Credited
    <2>2. c \in Channels /\ store[c] \in ChannelState /\ EntryOK(c, store[c])
      BY <1>0, <2>1 DEF TopUpCommitting, PendingOK
    <2>3. e \in ChannelState
      BY <2>1, <2>2 DEF TopUpCommitting, ChannelState
    <2>4. EntryOK(c, e)
      BY <2>1, <2>2 DEF EntryOK, PendingOK, ChannelState
    <2>5. UpdateChannel(c, e) /\ Finish(t) /\ UNCHANGED chain
      BY <1>4 DEF TopUpCommit, Credited
    <2>6. QED BY <2>2, <2>3, <2>4, <2>5, EntryChange
  <1>5. CASE VoucherCommit(t)
    <2> DEFINE e == Raised(store[c], task[t].amount, task[t].signature)
    <2>1. task[t] \in VoucherCommitting /\ PendingOK(task[t]) /\ task[t].op = "voucher"
      BY <1>5, PendingType DEF VoucherCommit
    <2>2. c \in Channels /\ store[c] \in ChannelState /\ EntryOK(c, store[c])
      BY <1>0, <2>1 DEF VoucherCommitting, PendingOK
    <2>3. e \in ChannelState
      BY <2>1, <2>2 DEF VoucherCommitting, ChannelState, Raised
    <2>4. EntryOK(c, e)
      <3>1. CASE task[t].amount > store[c].highest
        <4>1. /\ e.deposit = store[c].deposit /\ e.finalized = store[c].finalized
              /\ e.spent = store[c].spent
              /\ e.highest = task[t].amount /\ e.signature = task[t].signature
          BY <2>2, <3>1 DEF Raised, ChannelState
        <4>2. /\ task[t].channel = c /\ task[t].amount <= chain[c].deposit
              /\ task[t].signature.channel = c
              /\ task[t].signature.amount = task[t].amount
          BY <2>1 DEF PendingOK
        <4>3. /\ store[c].highest \in Nat /\ task[t].amount \in Nat
              /\ store[c].spent \in Nat
          BY <2>1, <2>2, SessionAssumption DEF VoucherCommitting, ChannelState, Amounts
        <4> HIDE DEF e
        <4>4. store[c].deposit <= chain[c].deposit
          BY <2>2 DEF EntryOK
        <4>5. ~store[c].finalized => store[c].spent <= store[c].highest
          BY <2>2 DEF EntryOK
        <4>6. QED BY <3>1, <4>1, <4>2, <4>3, <4>4, <4>5 DEF EntryOK
      <3>2. CASE ~(task[t].amount > store[c].highest)
        BY <2>2, <3>2 DEF Raised
      <3>3. QED BY <3>1, <3>2
    <2>5. UpdateChannel(c, e) /\ Finish(t) /\ UNCHANGED chain
      BY <1>5 DEF VoucherCommit
    <2>6. QED BY <2>2, <2>3, <2>4, <2>5, EntryChange
  <1>6. CASE CloseCommit(t)
    <2> DEFINE e == [store[c] EXCEPT !.highest = task[t].amount,
                                     !.signature = task[t].signature,
                                     !.finalized = TRUE]
    <2>1. task[t] \in CloseCommitting /\ PendingOK(task[t]) /\ task[t].op = "close"
      BY <1>6, PendingType DEF CloseCommit
    <2>2. c \in Channels /\ store[c] \in ChannelState /\ EntryOK(c, store[c])
      BY <1>0, <2>1 DEF CloseCommitting, PendingOK
    <2>3. e \in ChannelState
      BY <2>1, <2>2 DEF CloseCommitting, ChannelState
    <2>4. EntryOK(c, e)
      BY <2>1, <2>2 DEF EntryOK, PendingOK, ChannelState
    <2>5. UpdateChannel(c, e) /\ Finish(t) /\ UNCHANGED chain
      BY <1>6 DEF CloseCommit
    <2>6. QED BY <2>2, <2>3, <2>4, <2>5, EntryChange
  <1>7. QED BY <1>1, <1>2, <1>3, <1>4, <1>5, <1>6 DEF Proceed

(* A deduction leaves an open channel covered. *)
LEMMA DeductPreserves ==
  ASSUME IInv, NEW c \in Channels, Deduct(c)
  PROVE  IInv'
  <1>1. PICK n \in Amounts :
          /\ Available(c) >= n
          /\ UpdateChannel(c, [store[c] EXCEPT !.spent = @ + n])
    BY DEF Deduct
  <1> DEFINE e == [store[c] EXCEPT !.spent = @ + n]
  <1>2. store[c] \in ChannelState /\ EntryOK(c, store[c])
    BY DEF Deduct, IInv, TypeOK, Known
  <1>3. store[c].highest \in Amounts /\ store[c].spent \in Amounts
    BY <1>2 DEF ChannelState
  <1>4. /\ store[c].spent + n \in Amounts
        /\ store[c].spent <= store[c].highest => store[c].spent + n <= store[c].highest
    BY <1>1, <1>3, SessionAssumption DEF Available, Amounts
  <1>5. e \in ChannelState
    BY <1>2, <1>4 DEF ChannelState
  <1>6. EntryOK(c, e)
    BY <1>2, <1>4 DEF EntryOK, ChannelState
  <1>7. QED BY <1>1, <1>5, <1>6, EntryChange DEF Deduct

LEMMA RestartPreserves ==
  ASSUME IInv, Restart
  PROVE  IInv'
  BY DEF Restart, IInv, TypeOK, TaskState, Known, PendingOK, Idle

LEMMA InvariantStep == IInv /\ [Next]_vars => IInv'
  <1> SUFFICES ASSUME IInv, [Next]_vars PROVE IInv'
    OBVIOUS
  <1>1. ASSUME NEW c \in Channels, ChainStep(c) \/ Deduct(c)
        PROVE  IInv'
    BY <1>1, ChainPreserves, DeductPreserves
  <1>2. ASSUME NEW t \in Tasks, NEW c \in Channels, Accept(t, c)
        PROVE  IInv'
    BY <1>2, AcceptPreserves
  <1>3. ASSUME NEW t \in Tasks, Proceed(t)
        PROVE  IInv'
    BY <1>3, ProceedPreserves
  <1>4. CASE Restart
    BY <1>4, RestartPreserves
  <1>5. CASE UNCHANGED vars
    BY <1>5 DEF vars, IInv, TypeOK, EntryOK, PendingOK, Known
  <1>6. QED BY <1>1, <1>2, <1>3, <1>4, <1>5 DEF Next

LEMMA Invariant == Spec => []IInv
  BY InvariantInit, InvariantStep, PTL DEF Spec

-----------------------------------------------------------------------------
(* The theorems *)

(* Every reachable state is well typed; in particular no sum of amounts    *)
(* leaves the range of u64: deduct_from_channel cannot overflow.           *)
THEOREM TypeCorrect == Spec => []TypeOK
  <1>1. IInv => TypeOK
    BY DEF IInv
  <1>2. QED BY <1>1, Invariant, PTL

(* While a channel is open its highest voucher is backed by the deposit on *)
(* chain, whichever requests overlap, are replayed or are cut off.         *)
THEOREM OpenChannelsAreCovered == Spec => []VouchersCovered
  BY Invariant, InvariantImplies, PTL

(* The stored voucher and the stored signature belong together. *)
THEOREM StoredVoucherIsSigned == Spec => []HighestIsSigned
  BY Invariant, InvariantImplies, PTL

-----------------------------------------------------------------------------
(* What is charged over the life of a channel.  The entry of the moment    *)
(* has charged what its counter says, and every entry before it at most    *)
(* the largest total there was.                                            *)

HistoryType ==
    /\ charged \in [Channels -> Nat]
    /\ openings \in [Channels -> Nat]
    /\ accepted \in [Channels -> Nat]

(* A store entry, with what was charged, opened and accepted so far. *)
ChargesOK(e, paid, n, a) ==
    IF e = NoChannel
    THEN paid <= n * a
    ELSE /\ n > 0
         /\ e.highest <= a
         /\ e.spent <= a
         /\ paid <= (n - 1) * a + e.spent

HInv ==
    /\ HistoryType
    /\ \A c \in Channels : ChargesOK(store[c], charged[c], openings[c], accepted[c])

(* A larger largest total covers as many openings. *)
LEMMA MoreIsCovered ==
  ASSUME NEW n \in Nat, NEW a \in Nat, NEW b \in Nat, a <= b
  PROVE  n * a <= n * b
  <1>1. PICK d \in Nat : b = a + d
    <2>1. b - a \in Nat /\ b = a + (b - a)
      OBVIOUS
    <2>2. QED BY <2>1
  <1>2. n * b = n * a + n * d
    BY <1>1
  <1>3. n * d \in Nat /\ n * a \in Nat
    OBVIOUS
  <1>4. QED BY <1>2, <1>3

LEMMA OneMoreIsCovered ==
  ASSUME NEW n \in Nat, NEW a \in Nat, n > 0
  PROVE  /\ (n - 1) * a \in Nat
         /\ n * a = (n - 1) * a + a
  <1>1. PICK m \in Nat : n = m + 1
    <2>1. n - 1 \in Nat /\ n = (n - 1) + 1
      OBVIOUS
    <2>2. QED BY <2>1
  <1>2. (m + 1) * a = m * a + a
    OBVIOUS
  <1>3. n - 1 = m
    BY <1>1
  <1>4. m * a \in Nat
    OBVIOUS
  <1>5. QED BY <1>1, <1>2, <1>3, <1>4

(* Between openings: another total is accepted, and the entry keeps its    *)
(* counter or charges more, within its highest total.                      *)
LEMMA EntryCharged ==
  ASSUME NEW e \in ChannelState, NEW f \in ChannelState,
         NEW paid \in Nat, NEW n \in Nat, NEW a \in Nat, NEW b \in Nat, NEW k \in Nat,
         ChargesOK(e, paid, n, a), a <= b,
         f.highest <= b, f.spent = e.spent + k, f.spent <= b
  PROVE  ChargesOK(f, paid + k, n, b)
  <1>1. e # NoChannel /\ f # NoChannel
    BY DEF ChannelState, NoChannel
  <1>2. e.spent \in Nat
    BY SessionAssumption DEF ChannelState, Amounts
  <1>3. n > 0 /\ paid <= (n - 1) * a + e.spent
    BY <1>1 DEF ChargesOK
  <1>4. (n - 1) * a <= (n - 1) * b
    BY <1>3, MoreIsCovered
  <1>5. (n - 1) * a \in Nat /\ (n - 1) * b \in Nat
    BY <1>3, OneMoreIsCovered
  <1>6. paid + k <= (n - 1) * b + f.spent
    BY <1>2, <1>3, <1>4, <1>5
  <1>7. QED BY <1>1, <1>3, <1>6 DEF ChargesOK

(* Whatever the entry was, it is covered as often as it was opened. *)
LEMMA AllCharged ==
  ASSUME NEW e \in ChannelState \cup {NoChannel},
         NEW paid \in Nat, NEW n \in Nat, NEW a \in Nat, ChargesOK(e, paid, n, a)
  PROVE  paid <= n * a
  <1>1. CASE e = NoChannel
    BY <1>1 DEF ChargesOK
  <1>2. CASE e # NoChannel
    <2>1. n > 0 /\ paid <= (n - 1) * a + e.spent /\ e.spent <= a
      BY <1>2 DEF ChargesOK
    <2>2. e.spent \in Nat
      BY <1>2, SessionAssumption DEF ChannelState, Amounts
    <2>3. (n - 1) * a \in Nat /\ n * a = (n - 1) * a + a
      BY <2>1, OneMoreIsCovered
    <2>4. QED BY <2>1, <2>2, <2>3
  <1>3. QED BY <1>1, <1>2

(* An open counts, and its entry starts from 0. *)
LEMMA OpeningCharged ==
  ASSUME NEW e \in ChannelState \cup {NoChannel}, NEW f \in ChannelState,
         NEW paid \in Nat, NEW n \in Nat, NEW a \in Nat, NEW b \in Nat,
         ChargesOK(e, paid, n, a), a <= b, f.highest <= b, f.spent = 0
  PROVE  ChargesOK(f, paid, n + 1, b)
  <1>1. f # NoChannel
    BY DEF ChannelState, NoChannel
  <1>2. paid <= n * a
    BY AllCharged
  <1>3. n * a <= n * b
    BY MoreIsCovered
  <1>4. n * a \in Nat /\ n * b \in Nat /\ (n + 1) - 1 = n /\ n + 1 > 0
    OBVIOUS
  <1>5. paid <= ((n + 1) - 1) * b + 0
    BY <1>2, <1>3, <1>4
  <1>6. QED BY <1>1, <1>4, <1>5 DEF ChargesOK

LEMMA HistoryStart == Init /\ HistoryInit => HInv
  BY DEF Init, HistoryInit, HInv, HistoryType, ChargesOK

(* One channel's entry and history change, the other channels keep theirs. *)
LEMMA OneHistory ==
  ASSUME IInv, HInv, NEW c \in Channels, NEW e \in ChannelState, UpdateChannel(c, e),
         NEW paid \in Nat, NEW n \in Nat, NEW a \in Nat, ChargesOK(e, paid, n, a),
         charged' = [charged EXCEPT ![c] = paid],
         openings' = [openings EXCEPT ![c] = n],
         accepted' = [accepted EXCEPT ![c] = a]
  PROVE  HInv'
  <1>1. HistoryType'
    BY DEF HInv, HistoryType
  <1>2. ASSUME NEW d \in Channels
        PROVE  ChargesOK(store'[d], charged'[d], openings'[d], accepted'[d])
    <2>1. CASE d = c
      <3>1. /\ store'[d] = e /\ charged'[d] = paid
            /\ openings'[d] = n /\ accepted'[d] = a
        BY <2>1 DEF IInv, TypeOK, UpdateChannel, HInv, HistoryType
      <3>2. QED BY <3>1
    <2>2. CASE d # c
      <3>1. /\ store'[d] = store[d] /\ charged'[d] = charged[d]
            /\ openings'[d] = openings[d] /\ accepted'[d] = accepted[d]
        BY <2>2 DEF IInv, TypeOK, UpdateChannel, HInv, HistoryType
      <3>2. QED BY <3>1 DEF HInv
    <2>3. QED BY <2>1, <2>2
  <1>3. QED BY <1>1, <1>2 DEF HInv

(* What is known of one channel. *)
LEMMA AtChannel ==
  ASSUME IInv, HInv, NEW c \in Channels
  PROVE  /\ store[c] \in ChannelState \cup {NoChannel}
         /\ charged[c] \in Nat /\ openings[c] \in Nat /\ accepted[c] \in Nat
         /\ ChargesOK(store[c], charged[c], openings[c], accepted[c])
         /\ Known(c) => /\ store[c] \in ChannelState
                        /\ store[c].highest \in Nat /\ store[c].spent \in Nat
                        /\ store[c].highest <= accepted[c]
                        /\ store[c].spent <= accepted[c]
  <1>1. store[c] \in ChannelState \cup {NoChannel}
    BY DEF IInv, TypeOK
  <1>2. /\ charged[c] \in Nat /\ openings[c] \in Nat /\ accepted[c] \in Nat
        /\ ChargesOK(store[c], charged[c], openings[c], accepted[c])
    BY DEF HInv, HistoryType
  <1>3. Known(c) => store[c] \in ChannelState /\ store[c] # NoChannel
    BY <1>1 DEF Known
  <1>4. QED BY <1>1, <1>2, <1>3, SessionAssumption DEF ChargesOK, ChannelState, Amounts

LEMMA SameHistory ==
  ASSUME HInv, UNCHANGED history,
         \A c \in Channels : ChargesOK(store'[c], charged[c], openings[c], accepted[c])
  PROVE  HInv'
  BY DEF HInv, HistoryType, history

LEMMA ChargeCounted ==
  ASSUME IInv, HInv, NEW c \in Channels, Deducts(c)
  PROVE  HInv'
  <1>1. PICK k \in Amounts :
          /\ Available(c) >= k
          /\ UpdateChannel(c, [store[c] EXCEPT !.spent = @ + k])
    BY DEF Deducts, Deduct
  <1> DEFINE e == store[c]
             f == [store[c] EXCEPT !.spent = @ + k]
  <1>2. Known(c)
    BY DEF Deducts, Deduct
  <1>3. /\ e \in ChannelState /\ e.highest \in Nat /\ e.spent \in Nat
        /\ e.highest <= accepted[c] /\ e.spent <= accepted[c]
        /\ charged[c] \in Nat /\ openings[c] \in Nat /\ accepted[c] \in Nat
        /\ ChargesOK(e, charged[c], openings[c], accepted[c])
        /\ e.highest \in Amounts
    BY <1>2, AtChannel DEF ChannelState
  <1>4. k \in Nat
    BY SessionAssumption DEF Amounts
  <1>5. k = 0 \/ e.spent + k <= e.highest
    BY <1>1, <1>3, <1>4 DEF Available
  <1>6. e.spent + k \in Amounts
    <2>1. CASE k = 0
      BY <1>3, <2>1 DEF ChannelState
    <2>2. CASE e.spent + k <= e.highest
      BY <1>3, <1>4, <2>2, SessionAssumption DEF Amounts
    <2>3. QED BY <1>5, <2>1, <2>2
  <1>7. /\ f \in ChannelState
        /\ f.spent = e.spent + k /\ f.highest = e.highest
    BY <1>3, <1>6 DEF ChannelState
  <1>8. f.spent <= accepted[c]
    BY <1>3, <1>4, <1>5, <1>7
  <1>9. ChargesOK(f, charged[c] + k, openings[c], accepted[c])
    <2> HIDE DEF e, f
    <2>1. QED BY <1>3, <1>4, <1>7, <1>8, EntryCharged
  <1>10. store' = [store EXCEPT ![c] = f]
    BY <1>1 DEF UpdateChannel
  <1>11. store'[c] = f
    BY <1>10 DEF IInv, TypeOK
  <1>12. store'[c].spent - store[c].spent = k
    BY <1>3, <1>4, <1>7, <1>11
  <1>13. charged' = [charged EXCEPT ![c] = charged[c] + k]
    BY <1>12 DEF Deducts
  <1>14. /\ openings' = [openings EXCEPT ![c] = openings[c]]
         /\ accepted' = [accepted EXCEPT ![c] = accepted[c]]
    BY DEF Deducts, HInv, HistoryType
  <1>15. UpdateChannel(c, f) /\ charged[c] + k \in Nat
    BY <1>3, <1>4, <1>10 DEF UpdateChannel
  <1> HIDE DEF e, f
  <1>16. QED BY <1>3, <1>7, <1>9, <1>13, <1>14, <1>15, OneHistory

LEMMA OpenCounted ==
  ASSUME IInv, HInv, NEW t \in Tasks, Opens(t)
  PROVE  HInv'
  <1> DEFINE c == task[t].channel
             a == task[t].amount
             b == IF a > accepted[c] THEN a ELSE accepted[c]
             f == [signer |-> task[t].key, deposit |-> task[t].deposit,
                   highest |-> task[t].amount, signature |-> task[t].signature,
                   spent |-> 0, finalized |-> FALSE]
  <1>1. task[t] \in OpenCommitting
    BY PendingType DEF Opens, OpenCommit
  <1>2. c \in Channels /\ a \in Nat /\ f \in ChannelState
    BY <1>1, SessionAssumption DEF OpenCommitting, ChannelState, Amounts
  <1>3. /\ store[c] \in ChannelState \cup {NoChannel}
        /\ charged[c] \in Nat /\ openings[c] \in Nat /\ accepted[c] \in Nat
        /\ ChargesOK(store[c], charged[c], openings[c], accepted[c])
    BY <1>2, AtChannel
  <1>4. b \in Nat /\ accepted[c] <= b /\ a <= b
    BY <1>2, <1>3
  <1>5. f.highest = a /\ f.spent = 0
    OBVIOUS
  <1>6. UpdateChannel(c, f)
    BY DEF Opens, OpenCommit
  <1>7. /\ openings' = [openings EXCEPT ![c] = openings[c] + 1]
        /\ accepted' = [accepted EXCEPT ![c] = b]
        /\ charged' = [charged EXCEPT ![c] = charged[c]]
    BY DEF Opens, Accepts, HInv, HistoryType
  <1> HIDE DEF b, f, c, a
  <1>8. ChargesOK(f, charged[c], openings[c] + 1, b)
    BY <1>2, <1>3, <1>4, <1>5, OpeningCharged
  <1>9. openings[c] + 1 \in Nat
    BY <1>3
  <1>10. QED BY <1>2, <1>3, <1>4, <1>6, <1>7, <1>8, <1>9, OneHistory

LEMMA StoreCounted ==
  ASSUME IInv, HInv, NEW t \in Tasks, Stores(t)
  PROVE  HInv'
  <1> DEFINE c == task[t].channel
             a == task[t].amount
             b == IF a > accepted[c] THEN a ELSE accepted[c]
             e == store[c]
  <1>1. /\ c \in Channels /\ a \in Nat /\ a \in Amounts
        /\ task[t].signature \in Signature /\ Known(c)
    BY PendingType, SessionAssumption
    DEF Stores, VoucherCommit, CloseCommit, VoucherCommitting, CloseCommitting,
        Amounts, PendingOK
  <1>2. /\ e \in ChannelState /\ e.highest \in Nat /\ e.spent \in Nat
        /\ e.highest <= accepted[c] /\ e.spent <= accepted[c]
        /\ charged[c] \in Nat /\ openings[c] \in Nat /\ accepted[c] \in Nat
        /\ ChargesOK(e, charged[c], openings[c], accepted[c])
    BY <1>1, AtChannel
  <1>3. b \in Nat /\ accepted[c] <= b /\ a <= b
    BY <1>1, <1>2
  <1>4. PICK f \in ChannelState :
          /\ UpdateChannel(c, f)
          /\ f.spent = e.spent
          /\ f.highest = a \/ f.highest = e.highest
    <2>1. CASE VoucherCommit(t)
      <3>1. Raised(e, a, task[t].signature) \in ChannelState
        BY <1>1, <1>2 DEF Raised, ChannelState
      <3>2. /\ Raised(e, a, task[t].signature).spent = e.spent
            /\ \/ Raised(e, a, task[t].signature).highest = a
               \/ Raised(e, a, task[t].signature).highest = e.highest
        BY <1>1, <1>2 DEF Raised, ChannelState
      <3>3. UpdateChannel(c, Raised(e, a, task[t].signature))
        BY <2>1 DEF VoucherCommit
      <3>4. QED BY <3>1, <3>2, <3>3
    <2>2. CASE CloseCommit(t)
      <3> DEFINE f == [e EXCEPT !.highest = a, !.signature = task[t].signature,
                                !.finalized = TRUE]
      <3>1. f \in ChannelState /\ f.spent = e.spent /\ f.highest = a
        BY <1>1, <1>2 DEF ChannelState
      <3>2. UpdateChannel(c, f)
        BY <2>2 DEF CloseCommit
      <3>3. QED BY <3>1, <3>2
    <2>3. QED BY <2>1, <2>2 DEF Stores
  <1>5. /\ openings' = [openings EXCEPT ![c] = openings[c]]
        /\ accepted' = [accepted EXCEPT ![c] = b]
        /\ charged' = [charged EXCEPT ![c] = charged[c] + 0]
    BY <1>2 DEF Stores, Accepts, HInv, HistoryType
  <1> HIDE DEF b, c, a, e
  <1>6. f.highest <= b /\ f.spent = e.spent + 0 /\ f.spent <= b
    BY <1>1, <1>2, <1>3, <1>4
  <1>7. ChargesOK(f, charged[c] + 0, openings[c], b)
    BY <1>2, <1>3, <1>6, EntryCharged
  <1>8. charged[c] + 0 \in Nat
    BY <1>2
  <1>9. QED BY <1>1, <1>2, <1>3, <1>4, <1>5, <1>7, <1>8, OneHistory

LEMMA OtherCounted ==
  ASSUME IInv, HInv, Others
  PROVE  HInv'
  <1>1. CASE UNCHANGED store
    <2>1. \A c \in Channels : ChargesOK(store'[c], charged[c], openings[c], accepted[c])
      BY <1>1 DEF HInv
    <2>2. QED BY <2>1, SameHistory DEF Others
  <1>2. CASE Restart
    <2>1. ASSUME NEW c \in Channels
          PROVE  ChargesOK(store'[c], charged[c], openings[c], accepted[c])
      <3>1. charged[c] <= openings[c] * accepted[c]
        BY AtChannel, AllCharged
      <3>2. store'[c] = NoChannel
        BY <1>2 DEF Restart
      <3>3. QED BY <3>1, <3>2 DEF ChargesOK
    <2>2. QED BY <2>1, SameHistory DEF Others
  <1>3. ASSUME NEW t \in Tasks, TopUpCommit(t)
        PROVE  HInv'
    <2> DEFINE c == task[t].channel
               f == Credited(store[c], task[t].deposit)
    <2>1. c \in Channels /\ Known(c) /\ task[t].deposit \in Amounts
      BY <1>3, PendingType DEF TopUpCommit, TopUpCommitting, PendingOK
    <2>2. /\ store[c] \in ChannelState
          /\ ChargesOK(store[c], charged[c], openings[c], accepted[c])
          /\ charged[c] \in Nat /\ openings[c] \in Nat /\ accepted[c] \in Nat
      BY <2>1, AtChannel
    <2>3. /\ f \in ChannelState /\ f.spent = store[c].spent
          /\ f.highest = store[c].highest
      BY <2>1, <2>2 DEF Credited, ChannelState
    <2>4. UpdateChannel(c, f)
      BY <1>3 DEF TopUpCommit
    <2>5. ChargesOK(f, charged[c], openings[c], accepted[c])
      BY <2>2, <2>3 DEF ChargesOK, ChannelState, NoChannel
    <2>6. /\ charged' = [charged EXCEPT ![c] = charged[c]]
          /\ openings' = [openings EXCEPT ![c] = openings[c]]
          /\ accepted' = [accepted EXCEPT ![c] = accepted[c]]
      BY DEF Others, history, HInv, HistoryType
    <2> HIDE DEF c, f
    <2>7. QED BY <2>1, <2>2, <2>3, <2>4, <2>5, <2>6, OneHistory
  <1>4. UNCHANGED store \/ Restart \/ \E t \in Tasks : TopUpCommit(t)
    BY DEF Others, ChainStep, ChainOpen, ChainTopUp, ChainClose, Accept, OpenRead,
           TopUpRead, VoucherRead, CloseRead, TopUpCheck, TopUpRefuse
  <1>5. QED BY <1>1, <1>2, <1>3, <1>4

LEMMA HistoryStep ==
  IInv /\ HInv /\ [CountedNext]_<<vars, history>> => IInv' /\ HInv'
  <1> SUFFICES ASSUME IInv, HInv, [CountedNext]_<<vars, history>>
               PROVE  IInv' /\ HInv'
    OBVIOUS
  <1>1. [Next]_vars
    BY DEF CountedNext, Deducts, Opens, Stores, Others, Next, Proceed
  <1>2. IInv'
    BY <1>1, InvariantStep
  <1>3. CASE UNCHANGED <<vars, history>>
    <2>1. HInv'
      BY <1>3 DEF vars, history, HInv, HistoryType
    <2>2. QED BY <1>2, <2>1
  <1>4. CASE CountedNext
    BY <1>2, <1>4, ChargeCounted, OpenCounted, StoreCounted, OtherCounted DEF CountedNext
  <1>5. QED BY <1>2, <1>3, <1>4

(* Whatever is replayed, overlaps or is cut off by a restart, all that was *)
(* charged to a channel is covered by its largest voucher, once for each   *)
(* time it was opened.                                                     *)
THEOREM ServiceIsCovered == CountedSpec => []ServiceCovered
  <1>1. Init /\ HistoryInit => IInv /\ HInv
    BY InvariantInit, HistoryStart
  <1>2. IInv /\ HInv => ServiceCovered
    BY AtChannel, AllCharged DEF ServiceCovered
  <1>3. QED BY <1>1, <1>2, HistoryStep, PTL DEF CountedSpec

-----------------------------------------------------------------------------
(***************************************************************************)
(* In the orderly regime (durable store, each channel opened once, a close *)
(* never overlapping another request for its channel) the concurrent       *)
(* handlers of SessionMethod implement PaymentChannel.  Vouchers, topUps   *)
(* and deductions may still overlap one another in every way.              *)
(***************************************************************************)

(* What the orderly regime adds to the invariant.  Since nothing overlaps  *)
(* a close, what a voucher or a close task found in the store still holds  *)
(* when its closure runs, and a closed channel stays covered.              *)

OrderlyEntry(e) == e.spent <= e.highest /\ e.signature.key = e.signer

OrderlyPending(p) ==
    /\ p.op = "open" => p.signature.key = p.key
    /\ p.op \in {"voucher", "close"} =>
         Open(p.channel) /\ p.signature.key = store[p.channel].signer
    /\ p.op = "close" => p.amount >= store[p.channel].highest

OInv ==
    /\ IInv
    /\ OpenedOnce
    /\ CloseAlone
    /\ \A c \in Channels : Known(c) => OrderlyEntry(store[c])
    /\ \A t \in Tasks : OrderlyPending(task[t])

LEMMA OrderlyInit == Init => OInv
  BY InvariantInit
  DEF Init, OInv, OpenedOnce, CloseAlone, Known, OrderlyPending, Idle

LEMMA OrderlyImplies == OInv => SignedBySigner
  BY DEF OInv, OrderlyEntry, SignedBySigner

(* The channel of a busy task is a channel. *)
LEMMA BusyChannel ==
  ASSUME IInv, NEW t \in Tasks, Busy(t)
  PROVE  task[t].channel \in Channels
  BY DEF IInv, TypeOK, Busy, TaskState, OpenCommitting, TopUpWaiting,
         TopUpCommitting, VoucherCommitting, CloseCommitting

-----------------------------------------------------------------------------
(* The refinement mapping along the three kinds of step *)

(* Steps that leave the chain's deposits and the store alone stutter. *)
LEMMA StoreSame ==
  ASSUME UNCHANGED <<chain, store>>
  PROVE  UNCHANGED <<Funds, Phase, Authorized, Spent>>
  BY DEF Funds, Phase, Authorized, Spent, Known

(* Replacing one entry moves the three abstract variables at that channel. *)
LEMMA EntryMapped ==
  ASSUME TypeOK, NEW c \in Channels, NEW e \in ChannelState,
         UpdateChannel(c, e), UNCHANGED chain
  PROVE  /\ Funds' = Funds
         /\ Phase' = [Phase EXCEPT ![c] = IF e.finalized THEN "closed" ELSE "open"]
         /\ Authorized' = [Authorized EXCEPT ![c] = e.highest]
         /\ Spent' = [Spent EXCEPT ![c] = e.spent]
  <1>1. e # NoChannel
    BY DEF ChannelState, NoChannel
  <1>2. \A d \in Channels : store'[d] = (IF d = c THEN e ELSE store[d])
    BY DEF TypeOK, UpdateChannel
  <1>3. Funds' = Funds
    BY DEF Funds
  <1>4. Phase' = [Phase EXCEPT ![c] = IF e.finalized THEN "closed" ELSE "open"]
    BY <1>1, <1>2 DEF Phase, Known
  <1>5. Authorized' = [Authorized EXCEPT ![c] = e.highest]
    BY <1>1, <1>2 DEF Authorized, Known
  <1>6. Spent' = [Spent EXCEPT ![c] = e.spent]
    BY <1>1, <1>2 DEF Spent, Known
  <1>7. QED BY <1>3, <1>4, <1>5, <1>6

(* The abstract variables at a known channel. *)
LEMMA MappedAt ==
  ASSUME NEW c \in Channels, Known(c)
  PROVE  /\ Funds[c] = chain[c].deposit
         /\ Phase[c] = IF store[c].finalized THEN "closed" ELSE "open"
         /\ Authorized[c] = store[c].highest
         /\ Spent[c] = store[c].spent
         /\ [Phase EXCEPT ![c] = Phase[c]] = Phase
         /\ [Authorized EXCEPT ![c] = Authorized[c]] = Authorized
         /\ [Spent EXCEPT ![c] = Spent[c]] = Spent
  <1>1. Funds[c] = chain[c].deposit
    BY DEF Funds
  <1>2. /\ Phase[c] = IF store[c].finalized THEN "closed" ELSE "open"
        /\ [Phase EXCEPT ![c] = Phase[c]] = Phase
    BY DEF Phase
  <1>3. /\ Authorized[c] = store[c].highest
        /\ [Authorized EXCEPT ![c] = Authorized[c]] = Authorized
    BY DEF Authorized
  <1>4. Spent[c] = store[c].spent /\ [Spent EXCEPT ![c] = Spent[c]] = Spent
    BY DEF Spent
  <1>5. QED BY <1>1, <1>2, <1>3, <1>4

(* Replacing an entry by one that is compatible with the requests that are *)
(* still pending on its channel.                                           *)
Compatible(c, e, p) == p.op \in {"voucher", "close"} /\ p.channel = c =>
    /\ ~e.finalized
    /\ e.signer = store[c].signer
    /\ p.op = "close" => p.amount >= e.highest

LEMMA OrderlyEntryChange ==
  ASSUME OInv, IInv', (OpenedOnce /\ CloseAlone)',
         NEW c \in Channels, NEW e \in ChannelState,
         UpdateChannel(c, e), OrderlyEntry(e),
         \A u \in Tasks : \/ task'[u] = Idle
                          \/ task'[u] = task[u] /\ Compatible(c, e, task[u])
  PROVE  OInv'
  <1>1. e # NoChannel
    BY DEF ChannelState, NoChannel
  <1>2. \A d \in Channels : store'[d] = (IF d = c THEN e ELSE store[d])
    BY DEF OInv, IInv, TypeOK, UpdateChannel
  <1>3. \A d \in Channels : Known(d)' => OrderlyEntry(store[d])'
    BY <1>2 DEF OInv, OrderlyEntry, Known
  <1>4. ASSUME NEW u \in Tasks
        PROVE  OrderlyPending(task[u])'
    <2>1. CASE task'[u] = Idle
      BY <2>1 DEF OrderlyPending, Idle
    <2>2. CASE task'[u] = task[u] /\ Compatible(c, e, task[u]) /\ Busy(u)
      <3>1. task[u].channel \in Channels /\ OrderlyPending(task[u])
        BY <2>2, BusyChannel DEF OInv
      <3>2. CASE task[u].channel = c
        BY <1>1, <1>2, <2>2, <3>1, <3>2
        DEF OrderlyPending, Compatible, Open, Known
      <3>3. CASE task[u].channel # c
        BY <1>2, <2>2, <3>1, <3>3 DEF OrderlyPending, Open, Known
      <3>4. QED BY <3>2, <3>3
    <2>3. QED BY <2>1, <2>2 DEF Busy
  <1>5. QED BY <1>3, <1>4 DEF OInv

-----------------------------------------------------------------------------
(* Each action preserves the orderly invariant and maps to an abstract     *)
(* step or to a stutter                                                    *)

AbstractStep == Abstract!Next \/ UNCHANGED <<Funds, Phase, Authorized, Spent>>

LEMMA ChainRefines ==
  ASSUME OInv, IInv', (OpenedOnce /\ CloseAlone)', NEW c \in Channels, ChainStep(c)
  PROVE  OInv' /\ AbstractStep
  <1>1. UNCHANGED <<store, task>>
    BY DEF ChainStep, ChainOpen, ChainTopUp, ChainClose
  <1>2. OInv'
    BY <1>1 DEF OInv, Known, Open, OrderlyEntry, OrderlyPending
  <1>3. UNCHANGED <<Phase, Authorized, Spent>>
    BY <1>1 DEF Phase, Authorized, Spent, Known
  <1>4. chain \in [Channels -> OnChainChannel] /\ chain[c] \in OnChainChannel
    BY DEF OInv, IInv, TypeOK
  <1>5. ASSUME NEW d \in Amounts, d > chain[c].deposit,
               chain' = [chain EXCEPT ![c].deposit = d]
        PROVE  Abstract!Fund(c)
    <2> DEFINE funded == [chain[c] EXCEPT !.deposit = d]
    <2>1. funded.deposit = d
      BY <1>4 DEF OnChainChannel
    <2>2. chain' = [chain EXCEPT ![c] = funded]
      BY <1>5
    <2> HIDE DEF funded
    <2>3. \A x \in Channels :
            chain'[x].deposit = (IF x = c THEN d ELSE chain[x].deposit)
      BY <1>4, <2>1, <2>2
    <2>4. Funds' = [Funds EXCEPT ![c] = d] /\ d > Funds[c]
      BY <1>5, <2>3 DEF Funds
    <2>5. QED BY <1>3, <2>4 DEF Abstract!Fund, Amounts
  <1>6. CASE ChainOpen(c)
    <2>1. PICK d \in Amounts \ {0} : chain' = [chain EXCEPT ![c].deposit = d]
      BY <1>6 DEF ChainOpen
    <2>2. d > chain[c].deposit
      BY <1>6, SessionAssumption DEF ChainOpen, Amounts
    <2>3. QED BY <1>2, <1>5, <2>1, <2>2 DEF AbstractStep, Abstract!Next
  <1>7. CASE ChainTopUp(c)
    BY <1>2, <1>5, <1>7 DEF ChainTopUp, AbstractStep, Abstract!Next
  <1>8. CASE ChainClose(c)
    <2> DEFINE closed == [chain[c] EXCEPT !.finalized = TRUE]
    <2>1. closed.deposit = chain[c].deposit
      BY <1>4 DEF OnChainChannel
    <2>2. chain' = [chain EXCEPT ![c] = closed]
      BY <1>8 DEF ChainClose
    <2> HIDE DEF closed
    <2>3. \A d \in Channels : chain'[d].deposit = chain[d].deposit
      BY <1>4, <2>1, <2>2
    <2>4. Funds' = Funds
      BY <2>3 DEF Funds
    <2>5. QED BY <1>2, <1>3, <2>4 DEF AbstractStep
  <1>9. QED BY <1>6, <1>7, <1>8 DEF ChainStep

LEMMA AcceptRefines ==
  ASSUME OInv, IInv', (OpenedOnce /\ CloseAlone)',
         NEW t \in Tasks, NEW c \in Channels, Accept(t, c)
  PROVE  OInv' /\ AbstractStep
  <1>1. UNCHANGED <<chain, store>>
    BY DEF Accept, OpenRead, TopUpRead, VoucherRead, CloseRead
  <1>2. AbstractStep
    BY <1>1, StoreSame DEF AbstractStep
  <1>3. PICK p : task' = [task EXCEPT ![t] = p] /\ OrderlyPending(p)
    <2>1. CASE OpenRead(t, c)
      <3>1. PICK a \in Amounts, sig \in Signature, key \in Keys :
              /\ VerifyVoucher(c, a, sig, key)
              /\ task' = [task EXCEPT ![t] =
                   [op |-> "open", channel |-> c, deposit |-> chain[c].deposit,
                    amount |-> a, signature |-> sig, key |-> key]]
        BY <2>1 DEF OpenRead, WithinDeposit
      <3>2. OrderlyPending([op |-> "open", channel |-> c, deposit |-> chain[c].deposit,
                            amount |-> a, signature |-> sig, key |-> key])
        BY <3>1 DEF OrderlyPending, VerifyVoucher
      <3>3. QED BY <3>1, <3>2
    <2>2. CASE TopUpRead(t, c)
      <3>1. OrderlyPending([op |-> "topUpWait", channel |-> c,
                            deposit |-> store[c].deposit])
        BY DEF OrderlyPending
      <3>2. QED BY <2>2, <3>1 DEF TopUpRead
    <2>3. CASE VoucherRead(t, c)
      <3>1. PICK a \in Amounts, sig \in Signature :
              /\ VerifyVoucher(c, a, sig, store[c].signer)
              /\ task' = [task EXCEPT ![t] =
                   [op |-> "voucher", channel |-> c, amount |-> a, signature |-> sig]]
        BY <2>3 DEF VoucherRead, Accepting, WithinDeposit, DeltaOK
      <3>2. OrderlyPending([op |-> "voucher", channel |-> c, amount |-> a,
                            signature |-> sig])
        BY <2>3, <3>1 DEF VoucherRead, Accepting, WithinDeposit, DeltaOK, OrderlyPending, Open, VerifyVoucher
      <3>3. QED BY <3>1, <3>2
    <2>4. CASE CloseRead(t, c)
      <3>1. PICK a \in Amounts, sig \in Signature :
              /\ a >= store[c].highest
              /\ VerifyVoucher(c, a, sig, store[c].signer)
              /\ task' = [task EXCEPT ![t] =
                   [op |-> "close", channel |-> c, amount |-> a, signature |-> sig]]
        BY <2>4 DEF CloseRead, Accepting, CoversHighest
      <3>2. OrderlyPending([op |-> "close", channel |-> c, amount |-> a,
                            signature |-> sig])
        BY <2>4, <3>1 DEF CloseRead, Accepting, CoversHighest, OrderlyPending, Open, VerifyVoucher
      <3>3. QED BY <3>1, <3>2
    <2>5. QED BY <2>1, <2>2, <2>3, <2>4 DEF Accept
  <1>4. \A u \in Tasks : OrderlyPending(task'[u])
    BY <1>3 DEF OInv, IInv, TypeOK
  <1>5. OInv'
    BY <1>1, <1>4 DEF OInv, OrderlyPending, OrderlyEntry, Open, Known
  <1>6. QED BY <1>2, <1>5

(* In the orderly regime no other request is pending on the channel of a   *)
(* task that is about to open or to close it.                              *)
LEMMA AloneCompatible ==
  ASSUME OInv, NEW t \in Tasks, task[t].op \in {"open", "close"}, Finish(t), NEW e
  PROVE  \A u \in Tasks :
           \/ task'[u] = Idle
           \/ task'[u] = task[u] /\ Compatible(task[t].channel, e, task[u])
  <1>1. ASSUME NEW u \in Tasks
        PROVE  \/ task'[u] = Idle
               \/ task'[u] = task[u] /\ Compatible(task[t].channel, e, task[u])
    <2>1. CASE u = t
      BY <2>1 DEF Finish, OInv, IInv, TypeOK
    <2>2. CASE u # t
      <3>1. task'[u] = task[u] /\ ~SameChannel(t, u)
        BY <2>2 DEF Finish, OInv, IInv, TypeOK, OpenedOnce, CloseAlone
      <3>2. task[u].op \in {"voucher", "close"} => task[u].channel # task[t].channel
        BY <3>1 DEF SameChannel, Busy, Idle
      <3>3. QED BY <3>1, <3>2 DEF Compatible
    <2>3. QED BY <2>1, <2>2
  <1>2. QED BY <1>1

(* A step that leaves highest, signer and finalized as they are, or raises *)
(* highest while no close is pending, disturbs no pending request.         *)
LEMMA RaiseCompatible ==
  ASSUME OInv, NEW c \in Channels, Known(c), NEW e \in ChannelState,
         e.signer = store[c].signer, e.finalized = store[c].finalized,
         \/ e.highest = store[c].highest
         \/ \E t \in Tasks : task[t].op = "voucher" /\ task[t].channel = c,
         \A u \in Tasks : task'[u] = Idle \/ task'[u] = task[u]
  PROVE  \A u \in Tasks : \/ task'[u] = Idle
                          \/ task'[u] = task[u] /\ Compatible(c, e, task[u])
  <1>1. ASSUME NEW u \in Tasks, task[u].op \in {"voucher", "close"},
               task[u].channel = c
        PROVE  Compatible(c, e, task[u])
    <2>1. OrderlyPending(task[u])
      BY DEF OInv
    <2>2. task[u].op = "close" => e.highest = store[c].highest
      <3>1. ASSUME NEW t \in Tasks, task[t].op = "voucher", task[t].channel = c,
                   task[u].op = "close"
            PROVE  FALSE
        BY <1>1, <3>1 DEF OInv, CloseAlone, SameChannel, Busy, Idle
      <3>2. QED BY <3>1
    <2>3. QED BY <1>1, <2>1, <2>2 DEF OrderlyPending, Compatible, Open
  <1>2. QED BY <1>1 DEF Compatible

LEMMA ProceedRefines ==
  ASSUME OInv, IInv', (OpenedOnce /\ CloseAlone)', NEW t \in Tasks, Proceed(t)
  PROVE  OInv' /\ AbstractStep
  <1> DEFINE c == task[t].channel
  <1>0. /\ IInv /\ TypeOK /\ OrderlyPending(task[t])
        /\ \A d \in Channels :
              /\ chain[d] \in OnChainChannel
              /\ Known(d) => /\ store[d] \in ChannelState
                             /\ EntryOK(d, store[d])
                             /\ OrderlyEntry(store[d])
    BY DEF OInv, IInv, TypeOK, Known
  <1>1. CASE OpenCommit(t)
    <2> DEFINE e == [signer |-> task[t].key, deposit |-> task[t].deposit,
            highest |-> task[t].amount, signature |-> task[t].signature,
            spent |-> 0, finalized |-> FALSE]
    <2>1. task[t] \in OpenCommitting /\ PendingOK(task[t]) /\ task[t].op = "open"
      BY <1>0, <1>1, PendingType DEF OpenCommit
    <2>2. c \in Channels /\ e \in ChannelState /\ ~Known(c)
      BY <2>1, SessionAssumption
      DEF OpenCommitting, ChannelState, Amounts, OInv, OpenedOnce
    <2>3. UpdateChannel(c, e) /\ Finish(t) /\ UNCHANGED chain
      BY <1>1 DEF OpenCommit
    <2>4. OrderlyEntry(e)
      BY <1>0, <2>1, SessionAssumption
      DEF OrderlyEntry, OrderlyPending, OpenCommitting, Amounts
    <2>5. OInv'
      BY <2>1, <2>2, <2>3, <2>4, AloneCompatible, OrderlyEntryChange
    <2>6. /\ Funds' = Funds
          /\ Phase' = [Phase EXCEPT ![c] = "open"]
          /\ Authorized' = [Authorized EXCEPT ![c] = task[t].amount]
          /\ Spent' = [Spent EXCEPT ![c] = 0]
      BY <1>0, <2>2, <2>3, EntryMapped
    <2>7. Phase[c] = "none" /\ Spent[c] = 0 /\ Funds[c] = chain[c].deposit
      BY <2>2 DEF Phase, Spent, Funds
    <2>8. Spent' = Spent
      BY <2>2, <2>6, <2>7 DEF Spent
    <2>9. task[t].amount \in 0..Funds[c]
      BY <1>0, <2>1, <2>2, <2>7, SessionAssumption
      DEF PendingOK, OpenCommitting, Amounts, OnChainChannel
    <2>10. Abstract!OpenChannel(c)
      BY <2>6, <2>7, <2>8, <2>9 DEF Abstract!OpenChannel
    <2>11. QED BY <2>2, <2>5, <2>10 DEF AbstractStep, Abstract!Next
  <1>2. CASE TopUpCheck(t) \/ TopUpRefuse(t)
    <2>1. UNCHANGED <<chain, store>>
      BY <1>2 DEF TopUpCheck, TopUpRefuse
    <2>2. \A u \in Tasks : task'[u] = task[u] \/ task'[u].op \in {"topUp", "idle"}
      BY <1>0, <1>2 DEF TopUpCheck, TopUpRefuse, Finish, Idle, TypeOK
    <2>3. \A u \in Tasks : OrderlyPending(task'[u])
      BY <2>2 DEF OInv, OrderlyPending
    <2>4. OInv'
      BY <2>1, <2>3 DEF OInv, OrderlyPending, OrderlyEntry, Open, Known
    <2>5. QED BY <2>1, <2>4, StoreSame DEF AbstractStep
  <1>3. CASE TopUpCommit(t)
    <2> DEFINE e == [store[c] EXCEPT !.deposit = task[t].deposit]
    <2>1. task[t] \in TopUpCommitting /\ PendingOK(task[t]) /\ task[t].op = "topUp"
      BY <1>0, <1>3, PendingType DEF TopUpCommit, Credited
    <2>2. c \in Channels /\ Known(c) /\ store[c] \in ChannelState /\ OrderlyEntry(store[c])
      BY <1>0, <2>1 DEF TopUpCommitting, PendingOK
    <2>3. /\ e \in ChannelState
          /\ e.signer = store[c].signer /\ e.finalized = store[c].finalized
          /\ e.highest = store[c].highest /\ e.spent = store[c].spent
          /\ e.signature = store[c].signature
      BY <2>1, <2>2 DEF TopUpCommitting, ChannelState
    <2>4. UpdateChannel(c, e) /\ Finish(t) /\ UNCHANGED chain
      BY <1>3 DEF TopUpCommit, Credited
    <2> HIDE DEF e
    <2>5. \A u \in Tasks : task'[u] = Idle \/ task'[u] = task[u]
      BY <1>0, <2>4 DEF Finish, TypeOK
    <2>6. OrderlyEntry(e)
      BY <2>2, <2>3 DEF OrderlyEntry
    <2>7. OInv'
      BY <2>2, <2>3, <2>4, <2>5, <2>6, RaiseCompatible, OrderlyEntryChange
    <2>8. UNCHANGED <<Funds, Phase, Authorized, Spent>>
      <3>1. /\ Funds' = Funds
            /\ Phase' = [Phase EXCEPT ![c] = IF e.finalized THEN "closed" ELSE "open"]
            /\ Authorized' = [Authorized EXCEPT ![c] = e.highest]
            /\ Spent' = [Spent EXCEPT ![c] = e.spent]
        BY <1>0, <2>2, <2>3, <2>4, EntryMapped
      <3>2. QED BY <2>2, <2>3, <3>1, MappedAt
    <2>9. QED BY <2>7, <2>8 DEF AbstractStep
  <1>4. CASE VoucherCommit(t)
    <2> DEFINE e == Raised(store[c], task[t].amount, task[t].signature)
    <2>1. /\ task[t] \in VoucherCommitting /\ PendingOK(task[t])
          /\ task[t].op = "voucher"
      BY <1>0, <1>4, PendingType DEF VoucherCommit
    <2>2. /\ c \in Channels /\ Known(c) /\ store[c] \in ChannelState
          /\ OrderlyEntry(store[c])
          /\ ~store[c].finalized /\ task[t].signature.key = store[c].signer
      BY <1>0, <2>1 DEF VoucherCommitting, PendingOK, OrderlyPending, Open
    <2>3. /\ e \in ChannelState
          /\ e.signer = store[c].signer /\ e.finalized = store[c].finalized
          /\ e.spent = store[c].spent
          /\ \/ e.highest = store[c].highest
             \/ e.highest = task[t].amount /\ task[t].amount > store[c].highest
          /\ e.signature = store[c].signature \/ e.signature = task[t].signature
          /\ e.highest >= store[c].highest
      <3>1. task[t].amount \in Nat /\ store[c].highest \in Nat
        BY <2>1, <2>2, SessionAssumption DEF VoucherCommitting, ChannelState, Amounts
      <3>2. CASE task[t].amount > store[c].highest
        <4> DEFINE r == [store[c] EXCEPT !.highest = task[t].amount,
                                         !.signature = task[t].signature]
        <4>1. e = r
          BY <3>2 DEF Raised
        <4>2. /\ r \in ChannelState
              /\ r.signer = store[c].signer /\ r.finalized = store[c].finalized
              /\ r.spent = store[c].spent
              /\ r.highest = task[t].amount /\ r.signature = task[t].signature
          BY <2>1, <2>2 DEF VoucherCommitting, ChannelState
        <4> HIDE DEF e, r
        <4>3. QED BY <3>1, <3>2, <4>1, <4>2
      <3>3. CASE ~(task[t].amount > store[c].highest)
        <4>1. e = store[c]
          BY <3>3 DEF Raised
        <4> HIDE DEF e
        <4>2. QED BY <2>2, <3>1, <4>1
      <3>4. QED BY <3>2, <3>3
    <2>4. UpdateChannel(c, e) /\ Finish(t) /\ UNCHANGED chain
      BY <1>4 DEF VoucherCommit
    <2> HIDE DEF e
    <2>5. \A u \in Tasks : task'[u] = Idle \/ task'[u] = task[u]
      BY <1>0, <2>4 DEF Finish, TypeOK
    <2>6. OrderlyEntry(e)
      <3>1. /\ e.spent \in Nat /\ e.highest \in Nat /\ store[c].highest \in Nat
            /\ e.spent <= store[c].highest
        <4>1. \A x \in ChannelState : x.spent \in Nat /\ x.highest \in Nat
          BY SessionAssumption DEF ChannelState, Amounts
        <4>2. QED BY <2>2, <2>3, <4>1 DEF OrderlyEntry
      <3>2. e.signature.key = e.signer
        BY <2>2, <2>3 DEF OrderlyEntry
      <3>3. QED BY <2>3, <3>1, <3>2 DEF OrderlyEntry
    <2>7. OInv'
      BY <2>1, <2>2, <2>3, <2>4, <2>5, <2>6, RaiseCompatible, OrderlyEntryChange
    <2>8. /\ UNCHANGED <<Funds, Phase, Spent>>
          /\ Authorized' = [Authorized EXCEPT ![c] = e.highest]
          /\ Authorized[c] = store[c].highest /\ Phase[c] = "open"
          /\ Funds[c] = chain[c].deposit
      <3>1. /\ Funds' = Funds
            /\ Phase' = [Phase EXCEPT ![c] = IF e.finalized THEN "closed" ELSE "open"]
            /\ Authorized' = [Authorized EXCEPT ![c] = e.highest]
            /\ Spent' = [Spent EXCEPT ![c] = e.spent]
        BY <1>0, <2>2, <2>3, <2>4, EntryMapped
      <3>2. QED BY <2>2, <2>3, <3>1, MappedAt
    <2>9. CASE e.highest = store[c].highest
      <3>1. Authorized' = Authorized
        BY <2>2, <2>8, <2>9 DEF Authorized
      <3>2. QED BY <2>7, <2>8, <3>1 DEF AbstractStep
    <2>10. CASE e.highest = task[t].amount /\ task[t].amount > store[c].highest
      <3>1. task[t].amount \in 0..Funds[c]
        <4>1. task[t].amount \in Nat
          BY <2>1, SessionAssumption DEF VoucherCommitting, Amounts
        <4>2. task[t].amount <= chain[c].deposit
          BY <2>1 DEF PendingOK
        <4>3. chain[c].deposit \in Nat
          BY <1>0, <2>2, SessionAssumption DEF TypeOK, OnChainChannel, Amounts
        <4>4. QED BY <2>8, <4>1, <4>2, <4>3
      <3>2. Abstract!Authorize(c)
        BY <2>8, <2>10, <3>1 DEF Abstract!Authorize
      <3>3. QED BY <2>2, <2>7, <3>2 DEF AbstractStep, Abstract!Next
    <2>11. QED BY <2>3, <2>9, <2>10
  <1>5. CASE CloseCommit(t)
    <2> DEFINE e == [store[c] EXCEPT !.highest = task[t].amount,
                                     !.signature = task[t].signature,
                                     !.finalized = TRUE]
    <2>1. task[t] \in CloseCommitting /\ PendingOK(task[t]) /\ task[t].op = "close"
      BY <1>0, <1>5, PendingType DEF CloseCommit
    <2>2. /\ c \in Channels /\ Known(c) /\ store[c] \in ChannelState
          /\ OrderlyEntry(store[c])
          /\ ~store[c].finalized /\ task[t].signature.key = store[c].signer
          /\ task[t].amount >= store[c].highest
      BY <1>0, <2>1 DEF CloseCommitting, PendingOK, OrderlyPending, Open
    <2>3. e \in ChannelState
      BY <2>1, <2>2 DEF CloseCommitting, ChannelState
    <2>4. /\ e.signer = store[c].signer /\ e.finalized
          /\ e.highest = task[t].amount /\ e.spent = store[c].spent
          /\ e.signature = task[t].signature
      BY <2>2 DEF ChannelState
    <2>5. UpdateChannel(c, e) /\ Finish(t) /\ UNCHANGED chain
      BY <1>5 DEF CloseCommit
    <2> HIDE DEF e
    <2>6. OrderlyEntry(e)
      <3>1. /\ store[c].spent \in Nat /\ store[c].highest \in Nat
            /\ task[t].amount \in Nat /\ store[c].spent <= store[c].highest
        BY <2>1, <2>2, SessionAssumption
        DEF OrderlyEntry, ChannelState, CloseCommitting, Amounts
      <3>2. QED BY <2>2, <2>4, <3>1 DEF OrderlyEntry
    <2>7. OInv'
      BY <2>1, <2>2, <2>3, <2>5, <2>6, AloneCompatible, OrderlyEntryChange
    <2>8. /\ UNCHANGED <<Funds, Spent>>
          /\ Phase' = [Phase EXCEPT ![c] = "closed"]
          /\ Authorized' = [Authorized EXCEPT ![c] = task[t].amount]
          /\ Authorized[c] = store[c].highest /\ Phase[c] = "open"
      <3>1. /\ Funds' = Funds
            /\ Phase' = [Phase EXCEPT ![c] = IF e.finalized THEN "closed" ELSE "open"]
            /\ Authorized' = [Authorized EXCEPT ![c] = e.highest]
            /\ Spent' = [Spent EXCEPT ![c] = e.spent]
        BY <1>0, <2>2, <2>3, <2>5, EntryMapped
      <3>2. /\ Phase[c] = "open" /\ Authorized[c] = store[c].highest
            /\ [Spent EXCEPT ![c] = store[c].spent] = Spent
        BY <2>2, MappedAt
      <3>3. QED BY <2>4, <3>1, <3>2
    <2>9. Abstract!CloseChannel(c)
      BY <2>1, <2>2, <2>8 DEF Abstract!CloseChannel, CloseCommitting, Amounts
    <2>10. QED BY <2>2, <2>7, <2>9 DEF AbstractStep, Abstract!Next
  <1>6. QED BY <1>1, <1>2, <1>3, <1>4, <1>5 DEF Proceed

LEMMA DeductRefines ==
  ASSUME OInv, IInv', (OpenedOnce /\ CloseAlone)', NEW c \in Channels, Deduct(c)
  PROVE  OInv' /\ AbstractStep
  <1>1. PICK n \in Amounts :
          /\ Available(c) >= n
          /\ UpdateChannel(c, [store[c] EXCEPT !.spent = @ + n])
    BY DEF Deduct
  <1> DEFINE e == [store[c] EXCEPT !.spent = @ + n]
  <1>2. /\ TypeOK /\ Known(c) /\ store[c] \in ChannelState /\ OrderlyEntry(store[c])
        /\ UpdateChannel(c, e) /\ UNCHANGED <<chain, task>>
    BY <1>1 DEF Deduct, OInv, IInv, TypeOK, Known
  <1>3. store[c].highest \in Amounts /\ store[c].spent \in Amounts
    BY <1>2 DEF ChannelState
  <1>4. /\ store[c].spent + n \in Amounts
        /\ store[c].spent + n <= store[c].highest
    BY <1>1, <1>2, <1>3, SessionAssumption DEF Available, Amounts, OrderlyEntry
  <1>5. /\ e \in ChannelState
        /\ e.signer = store[c].signer /\ e.finalized = store[c].finalized
        /\ e.highest = store[c].highest /\ e.spent = store[c].spent + n
        /\ e.signature = store[c].signature
    BY <1>2, <1>4 DEF ChannelState
  <1> HIDE DEF e
  <1>6. OrderlyEntry(e)
    BY <1>2, <1>4, <1>5 DEF OrderlyEntry
  <1>7. OInv'
    BY <1>2, <1>5, <1>6, RaiseCompatible, OrderlyEntryChange
  <1>8. /\ UNCHANGED <<Funds, Phase, Authorized>>
        /\ Spent' = [Spent EXCEPT ![c] = Spent[c] + n]
        /\ Spent[c] = store[c].spent /\ Authorized[c] = store[c].highest
        /\ Phase[c] # "none"
    BY <1>2, <1>5, EntryMapped, MappedAt
  <1>9. Abstract!Spend(c)
    BY <1>4, <1>8 DEF Abstract!Spend, Amounts
  <1>10. QED BY <1>7, <1>9 DEF AbstractStep, Abstract!Next

(* A durable store has nothing to lose only if it is empty. *)
LEMMA RestartRefines ==
  ASSUME OInv, IInv', (OpenedOnce /\ CloseAlone)', Restart, Durable
  PROVE  OInv' /\ AbstractStep
  <1>1. \A c \in Channels : ~Known(c) /\ ~Known(c)'
    BY DEF Restart, Durable, Known
  <1>2. \A t \in Tasks : task'[t] = Idle
    BY DEF Restart
  <1>3. OInv'
    BY <1>1, <1>2 DEF OInv, OrderlyPending, Idle
  <1>4. UNCHANGED <<Funds, Phase, Authorized, Spent>>
    BY <1>1 DEF Restart, Funds, Phase, Authorized, Spent
  <1>5. QED BY <1>3, <1>4 DEF AbstractStep

LEMMA OrderlyStep == OInv /\ [OrderlyNext]_vars =>
    OInv' /\ [Abstract!Next]_<<Funds, Phase, Authorized, Spent>>
  <1> SUFFICES ASSUME OInv, [OrderlyNext]_vars
               PROVE  OInv' /\ AbstractStep
    BY DEF AbstractStep
  <1>1. IInv'
    BY InvariantStep DEF OInv, OrderlyNext
  <1>2. CASE UNCHANGED vars
    <2>1. OInv'
      BY <1>1, <1>2 DEF vars, OInv, OpenedOnce, CloseAlone, SameChannel, Busy,
          OrderlyEntry, OrderlyPending, Open, Known
    <2>2. QED BY <1>2, <2>1, StoreSame DEF vars, AbstractStep
  <1>3. CASE OrderlyNext
    <2>1. (OpenedOnce /\ CloseAlone)' /\ Next /\ Durable
      BY <1>3 DEF OrderlyNext
    <2>2. ASSUME NEW c \in Channels, ChainStep(c) PROVE OInv' /\ AbstractStep
      BY <1>1, <2>1, <2>2, ChainRefines
    <2>3. ASSUME NEW c \in Channels, Deduct(c) PROVE OInv' /\ AbstractStep
      BY <1>1, <2>1, <2>3, DeductRefines
    <2>4. ASSUME NEW t \in Tasks, NEW c \in Channels, Accept(t, c)
          PROVE  OInv' /\ AbstractStep
      BY <1>1, <2>1, <2>4, AcceptRefines
    <2>5. ASSUME NEW t \in Tasks, Proceed(t) PROVE OInv' /\ AbstractStep
      BY <1>1, <2>1, <2>5, ProceedRefines
    <2>6. CASE Restart
      BY <1>1, <2>1, <2>6, RestartRefines
    <2>7. QED BY <2>1, <2>2, <2>3, <2>4, <2>5, <2>6 DEF Next
  <1>4. QED BY <1>2, <1>3

-----------------------------------------------------------------------------
(* The theorems *)

LEMMA OrderlyInvariant == OrderlySpec => []OInv
  <1>1. OInv /\ [OrderlyNext]_vars => OInv'
    BY OrderlyStep
  <1>2. QED BY OrderlyInit, <1>1, PTL DEF OrderlySpec, OrderlyNext

(* The stored signature is by the signer of the entry it is stored with. *)
THEOREM OrderlySignatures == OrderlySpec => []SignedBySigner
  BY OrderlyInvariant, OrderlyImplies, PTL

(* Each handler's two or three steps look like one step of the abstract    *)
(* channel: the authorization only grows and stays within the funds, the   *)
(* service charged stays within the authorization even after the close,    *)
(* and the close is final and covers every accepted voucher.               *)
THEOREM OrderlyImplementsChannel == OrderlySpec => ImplementsPaymentChannel
  <1>1. Init => Abstract!Init
    BY DEF Init, Abstract!Init, Funds, Phase, Authorized, Spent, Known
  <1>2. OInv /\ [OrderlyNext]_vars =>
          [Abstract!Next]_<<Funds, Phase, Authorized, Spent>>
    BY OrderlyStep
  <1>3. QED
    BY <1>1, <1>2, OrderlyInvariant, PTL
    DEF OrderlySpec, OrderlyNext, ImplementsPaymentChannel, Abstract!Spec,
        Abstract!channelVars

-----------------------------------------------------------------------------
(***************************************************************************)
(* The components side by side.  Each behaves as it does by itself.         *)
(***************************************************************************)

LEMMA EachByItself ==
    [DeployedNext]_everything =>
        /\ [OrderlyNext]_vars
        /\ [Method!Next]_(Method!vars)
        /\ [Numbers!Next]_(Numbers!vars)
        /\ [Bytes!Next]_(Bytes!vars)
        /\ [Proxy!Next]_(Proxy!vars)
        /\ [Storage!Next]_(Storage!vars)
        /\ [Wire!Next]_(Wire!vars)
BY DEF DeployedNext, everything, OnlySystem, OnlyCharges, OnlyHandlers, NoTask,
       vars, methodVars, numbersVars, bytesVars, proxyVars, storageVars,
       wireVars, Method!vars, Numbers!vars, Bytes!vars, Proxy!vars, Storage!vars,
       Wire!vars

(* A component that does not run is in one of its initial states.          *)
LEMMA EachStarts ==
    DeployedInit => /\ Init /\ Method!Init /\ Numbers!Init
                    /\ Bytes!Init /\ Proxy!Init /\ Storage!Init /\ Wire!Init
<1>1. DeployedInit =>
        Init /\ Numbers!Init /\ Proxy!Init /\ Storage!Init /\ Wire!Init
  BY DEF DeployedInit, NoNumbers, NoProxy, NoStorage, NoWire
<1>2. NoMethod => Method!Init
  <2> SUFFICES ASSUME NoMethod PROVE Method!Init
    OBVIOUS
  <2>1. Method!ChargeRequest # {}
    <3>1. [currency |-> [value |-> "move", spelling |-> "short"],
           recipient |-> [value |-> "a1", spelling |-> "short"],
           amount |-> 1] \in Method!ChargeRequest
      BY DEF Method!ChargeRequest, Method!Address, Method!Currencies
    <3> QED
      BY <3>1
  <2>2. Method!Payload # {}
    <3>1. [function |-> Method!NativeTransfer,
           recipient |-> [value |-> "a1", spelling |-> "short"],
           amount |-> 1] \in Method!Payload
      BY DEF Method!Payload, Method!Address
    <3> QED
      BY <3>1
  <2>3. \A p : {} \in Method!Reported(p)
    BY DEF Method!Reported
  <2> DEFINE p == AnyOf(Method!Payload)
  <2>4. p \in Method!Payload
    BY <2>2 DEF AnyOf
  <2>5. Method!Answers(p) # {}
    <3> HIDE DEF p
    <3>1. [payload |-> p, events |-> {}, legible |-> TRUE] \in Method!Answers(p)
      BY <2>3 DEF Method!Answers
    <3> QED
      BY <3>1
  <2>6. tx \in Method!Answers(p)
    BY <2>5 DEF NoMethod, AnyOf
  <2>7. request \in Method!ChargeRequest /\ verdict = "none"
    BY <2>1 DEF NoMethod, AnyOf
  <2> QED
    BY <2>4, <2>6, <2>7 DEF Method!Init
<1>3. NoBytes => Bytes!Init
  <2> SUFFICES ASSUME NoBytes PROVE Bytes!Init
    OBVIOUS
  <2> DEFINE v == AnyOf(Bytes!Vouchers)
  <2>1. [key |-> "k1", channel |-> <<1>>, total |-> 0] \in Bytes!Vouchers
    BY DEF Bytes!Vouchers
  <2>2. v \in Bytes!Vouchers
    BY <2>1 DEF AnyOf
  <2>3. /\ signed = [voucher |-> v, by |-> "typescript"]
        /\ claimed = v /\ checked = << >>
    BY DEF NoBytes
  <2> HIDE DEF v
  <2> QED
    BY <2>2, <2>3 DEF Bytes!Init
<1> QED
  BY <1>1, <1>2, <1>3 DEF DeployedInit

(* Beside the other components the handlers implement the channel, too.    *)
THEOREM HandlersKeepTheirPromises ==
    ComponentsSpec => []SignedBySigner /\ ImplementsPaymentChannel
<1>1. ComponentsSpec => OrderlySpec
  BY EachStarts, EachByItself, PTL DEF ComponentsSpec, OrderlySpec, OrderlyNext
<1> QED
  BY <1>1, OrderlySignatures, OrderlyImplementsChannel, PTL

-----------------------------------------------------------------------------
(* What ChargeProofs says of any transfers and any challenges; its calls   *)
(* are not needed here.                                                    *)
Payments == INSTANCE ChargeProofs WITH
    Accounts <- {"a1", "a2"}, Native <- "move", Tokens <- {"usdc"},
    Spellings <- {"short", "padded"}, Short <- "short", Sums <- {1, 2},
    Calls <- {}, Requests <- {}, Seconds <- {0},
    Deployments <- ChargeDeployments, call <- chargeCall,
    Payments <- {"q1", "q2", "q3"}, MaxSymbols <- 2, Lifetime <- 1, MaxTime <- 2,
    ChargeOf <- [q \in {"q1", "q2", "q3"} |-> IF q = "q3" THEN "other" ELSE "same"],
    Symbols <- {"'", "/", ",", "=", "CR", "BEL", "e'"},
    stage <- phase, sent <- answer, received <- read

LEMMA PaymentsAssumptions == Payments!TransferAssumption /\ Payments!ChargeAssumption
<1>1. Payments!IsFiniteSet({})
  <2>1. << >> \in Seq({})
    OBVIOUS
  <2> QED
    BY <2>1 DEF Payments!IsFiniteSet
<1> QED
  BY <1>1 DEF Payments!TransferAssumption, Payments!ChargeAssumption

(* The method is the one of ChargeProofs. *)
LEMMA TransfersAreTransfers ==
    /\ Method!ChargeRequest = Payments!ChargeRequest /\ Method!Payload = Payments!Payload
    /\ Method!Transfers = Payments!Transfers
    /\ \A p : Method!Answers(p) = Payments!Answers(p)
    /\ \A t, r : Method!Verified(t, r) <=> Payments!Verified(t, r)
    /\ \A p, r : Method!Credits(p, r) <=> Payments!Credits(p, r)
    /\ \A p, r : Method!Pays(p, r) <=> Payments!Pays(p, r)
    /\ \A t, r : Method!Compared(t, r) <=> Payments!Compared(t, r)
    /\ \A r : Method!BuildTransfer(r) = Payments!BuildTransfer(r)
BY DEF Payments!IsNativeCurrency, Payments!BuildTransfer, Payments!Moved,
       Payments!Reported, Payments!Answers, Payments!SameAddress,
       Payments!IsNativeMove, Payments!SameMetadata, Payments!CurrencyOK,
       Payments!EventMatches, Payments!PayloadMatches, Payments!Verified,
       Payments!Credits, Payments!Pays, Payments!Compared,
       Payments!Currencies, Payments!Address, Payments!ChargeRequest,
       Payments!FungibleTransfer, Payments!NativeTransfer,
       Payments!TypedTransfers, Payments!Transfers, Payments!Other,
       Payments!Payload, Method!IsNativeCurrency, Method!BuildTransfer,
       Method!Moved, Method!Reported, Method!Answers, Method!SameAddress,
       Method!IsNativeMove, Method!SameMetadata, Method!CurrencyOK,
       Method!EventMatches, Method!PayloadMatches, Method!Verified,
       Method!Credits, Method!Pays, Method!Compared, Method!Currencies,
       Method!Address, Method!ChargeRequest, Method!FungibleTransfer,
       Method!NativeTransfer, Method!TypedTransfers, Method!Transfers,
       Method!Other, Method!Payload

LEMMA OwnOperators ==
    /\ Payments!Method!ChargeRequest = Payments!ChargeRequest
    /\ Payments!Method!Payload = Payments!Payload
    /\ Payments!Method!Transfers = Payments!Transfers
    /\ \A p : Payments!Method!Answers(p) = Payments!Answers(p)
    /\ \A t, r : Payments!Method!Verified(t, r) <=> Payments!Verified(t, r)
    /\ \A p, r : Payments!Method!Credits(p, r) <=> Payments!Credits(p, r)
    /\ \A p, r : Payments!Method!Pays(p, r) <=> Payments!Pays(p, r)
    /\ \A t, r : Payments!Method!Compared(t, r) <=> Payments!Compared(t, r)
    /\ \A r : Payments!Method!BuildTransfer(r) = Payments!BuildTransfer(r)
BY PaymentsAssumptions, Payments!MethodOperators

(* verify_tx_hash accepts what credits the recipient, exactly what pays    *)
(* where the currency is compared; and it never refuses the transfers that *)
(* build_transfer_payload makes.                                           *)
THEOREM VerdictsAreRight == ComponentsSpec => []AcceptedIsPaid
<1>1. DeployedInit => Payments!Method!Init
  BY EachStarts, TransfersAreTransfers, OwnOperators DEF Method!Init, Payments!Method!Init
<1>2. [DeployedNext]_everything => [Payments!Method!Next]_(Payments!Method!vars)
  BY EachByItself, TransfersAreTransfers, OwnOperators
    DEF Method!Next, Payments!Method!Next, Method!Verify, Payments!Method!Verify,
        Method!vars, Payments!Method!vars
<1>3. Payments!Method!AcceptedIsPaid /\ Payments!Method!BuiltIsAccepted => AcceptedIsPaid
  BY TransfersAreTransfers, OwnOperators
    DEF AcceptedIsPaid, Method!AcceptedIsPaid, Payments!Method!AcceptedIsPaid,
        Method!BuiltIsAccepted, Payments!Method!BuiltIsAccepted
<1>4. /\ Payments!Method!Spec => []Payments!Method!AcceptedIsPaid
      /\ Payments!Method!Spec => []Payments!Method!BuiltIsAccepted
  BY PaymentsAssumptions, Payments!AcceptedMeansPaid, Payments!BuiltTransfersAreAccepted
<1> QED
  BY <1>1, <1>2, <1>3, <1>4, PTL DEF ComponentsSpec, Payments!Method!Spec

-----------------------------------------------------------------------------
(* What PartsProofs says of any stores, here of two keys in one file, of   *)
(* any vouchers, here of bytes of two bits, and of any proxies and amounts *)
Parts == INSTANCE PartsProofs WITH
    Calls <- {"p1", "p2"}, Keys <- {"k1", "k2"}, Values <- {"v1", "v2"},
    Long <- {"v2"}, FileOf <- [k \in {"k1", "k2"} |-> "k1"], Absent <- "absent",
    store <- kept, calls <- storeCalls,
    Half <- 2, Width <- 2, ChannelIds <- {<<1>>, <<1, 0>>},
    Signers <- {"k1", "k2"}, MaxTotal <- 17,
    Methods <- {"GET", "POST", "PUT"}, Characters <- {"/", "a", "b", "s"},
    MaxLength <- 5,
    Signs <- {".", "-", "+", "space"}, Digits <- {"0", "2", "5"}, Longest <- 4,
    DecimalPlaces <- 0..3, MaxPlaces <- 2, Wide <- 255, Narrow <- 99

(* The stores are those of PartsProofs. *)
LEMMA StoresAreStores ==
    /\ Parts!StoresAssumption
    /\ Storage!Init => Parts!Init
    /\ [Storage!Next]_(Storage!vars) => [Parts!Next]_(Parts!vars)
    /\ Parts!UnreadableIsTorn => Storage!UnreadableIsTorn
    /\ Parts!Map!Init => Storage!Map!Init
    /\ [Parts!Careful \subseteq circumstances =>
            [Parts!Map!Next]_(Parts!Map!vars)]_(Parts!vars)
       => [Storage!Careful \subseteq circumstances =>
            [Storage!Map!Next]_(Storage!Map!vars)]_(Storage!vars)
<1>1. Parts!StoresAssumption
  BY StorageAssumption
    DEF Storage!StoresAssumption, Parts!StoresAssumption, Parts!Content,
        Storage!Content, Parts!Empty, Storage!Empty, Parts!Mixed, Storage!Mixed
<1>2. Storage!Init => Parts!Init
  BY DEF Storage!Init, Parts!Init, Storage!Idle, Parts!Idle
<1>3. /\ Storage!Operations = Parts!Operations
      /\ Storage!Idle = Parts!Idle
      /\ \A op : Storage!Asked(op) = Parts!Asked(op)
      /\ \A op : Storage!Writing(op) = Parts!Writing(op)
      /\ \A op : Storage!Detached(op) = Parts!Detached(op)
      /\ \A op, given : Storage!Got(op, given) = Parts!Got(op, given)
      /\ Storage!Empty = Parts!Empty /\ Storage!Mixed = Parts!Mixed
      /\ \A p : Storage!Assume(p) = Parts!Assume(p)
      /\ \A k : Storage!Place(k) = Parts!Place(k)
  BY DEF Storage!Operations, Parts!Operations, Storage!Idle, Parts!Idle,
         Storage!Asked, Parts!Asked, Storage!Writing, Parts!Writing,
         Storage!Detached, Parts!Detached, Storage!Got, Parts!Got,
         Storage!Empty, Parts!Empty, Storage!Mixed, Parts!Mixed,
         Storage!Assume, Parts!Assume, Storage!Place, Parts!Place
<1>4. /\ \A place : Storage!Busy(place) = Parts!Busy(place)
      /\ \A op : Storage!Answer(op) = Parts!Answer(op)
      /\ \A op : Storage!Eager(op) <=> Parts!Eager(op)
      /\ \A old, value : Storage!Overwritten(old, value) = Parts!Overwritten(old, value)
  BY <1>3 DEF Storage!Busy, Parts!Busy, Storage!Answer, Parts!Answer,
         Storage!Eager, Parts!Eager, Storage!Overwritten, Parts!Overwritten
<1>5. \A c, op : Storage!Answered(c, op) <=> Parts!Answered(c, op)
  BY <1>3, <1>4 DEF Storage!Answered, Parts!Answered
<1>6. \A place, c : Storage!Whole(place, c) <=> Parts!Whole(place, c)
  BY <1>3, <1>4 DEF Storage!Whole, Parts!Whole
<1>7. \A c : /\ Storage!Read(c) <=> Parts!Read(c)
             /\ Storage!Insert(c) <=> Parts!Insert(c)
             /\ Storage!Remove(c) <=> Parts!Remove(c)
             /\ Storage!Truncate(c) <=> Parts!Truncate(c)
             /\ Storage!Write(c) <=> Parts!Write(c)
             /\ Storage!End(c) <=> Parts!End(c)
             /\ \A op : Storage!Ask(c, op) <=> Parts!Ask(c, op)
  <2>1. \A c : /\ Storage!Read(c) <=> Parts!Read(c)
               /\ Storage!Insert(c) <=> Parts!Insert(c)
               /\ Storage!Remove(c) <=> Parts!Remove(c)
    BY <1>3, <1>4, <1>5, <1>6
      DEF Storage!Read, Parts!Read, Storage!Insert, Parts!Insert,
          Storage!Remove, Parts!Remove
  <2>2. \A c : Storage!Truncate(c) <=> Parts!Truncate(c)
    BY <1>3, <1>4, <1>5, <1>6 DEF Storage!Truncate, Parts!Truncate
  <2>3. \A c : Storage!Write(c) <=> Parts!Write(c)
    BY <1>3, <1>4, <1>5, <1>6 DEF Storage!Write, Parts!Write
  <2>4. \A c : Storage!End(c) <=> Parts!End(c)
    BY <1>3, <1>4, <1>5, <1>6 DEF Storage!End, Parts!End
  <2>5. \A c : \A op : Storage!Ask(c, op) <=> Parts!Ask(c, op)
    BY DEF Storage!Ask, Parts!Ask, Storage!Idle, Parts!Idle, Storage!Assume,
           Parts!Assume, Storage!Busy, Parts!Busy,
           Storage!Place, Parts!Place, Storage!Eager,
           Parts!Eager, Storage!Answered, Parts!Answered, Storage!Got,
           Parts!Got, Storage!Answer, Parts!Answer, Storage!Asked,
           Parts!Asked, Storage!Empty, Parts!Empty, Storage!Mixed,
           Parts!Mixed
  <2> QED
    BY <2>1, <2>2, <2>3, <2>4, <2>5
<1>8. Storage!Restart <=> Parts!Restart
  BY DEF Storage!Restart, Parts!Restart, Storage!Idle, Parts!Idle,
         Storage!Assume, Parts!Assume
<1>9. [Storage!Next]_(Storage!vars) => [Parts!Next]_(Parts!vars)
  <2>1. Storage!Next => Parts!Next
    <3>1. ASSUME NEW c, NEW op \in Storage!Operations, Storage!Ask(c, op)
          PROVE  op \in Parts!Operations /\ Parts!Ask(c, op)
      BY <1>3, <1>7, <3>1
    <3> QED
      BY <1>7, <1>8, <3>1 DEF Storage!Next, Parts!Next
  <2>2. Storage!vars = Parts!vars /\ Storage!vars' = Parts!vars'
    BY DEF Storage!vars, Parts!vars
  <2> QED
    BY <2>1, <2>2
<1>10. Parts!UnreadableIsTorn => Storage!UnreadableIsTorn
  BY <1>3 DEF Storage!UnreadableIsTorn, Parts!UnreadableIsTorn
<1>11. /\ Storage!Kept = Parts!Kept /\ Storage!Kept' = Parts!Kept'
       /\ Storage!KeptCalls = Parts!KeptCalls
       /\ Storage!KeptCalls' = Parts!KeptCalls'
  BY DEF Storage!Kept, Parts!Kept, Storage!InProgress, Parts!InProgress,
         Storage!Place, Parts!Place, Storage!Assume, Parts!Assume,
         Storage!KeptCalls, Parts!KeptCalls, Storage!Got, Parts!Got
<1>12. Parts!Map!Init => Storage!Map!Init
  BY <1>11 DEF Parts!Map!Init, Storage!Map!Init, Parts!Map!Idle, Storage!Map!Idle
<1>13. [Parts!Map!Next]_(Parts!Map!vars) => [Storage!Map!Next]_(Storage!Map!vars)
  <2>1. /\ Storage!Map!Operations = Parts!Map!Operations
        /\ Storage!Map!Idle = Parts!Map!Idle
        /\ \A op : Storage!Map!Asked(op) = Parts!Map!Asked(op)
        /\ \A op, given : Storage!Map!Got(op, given) = Parts!Map!Got(op, given)
        /\ \A op : Storage!Map!Answer(op) = Parts!Map!Answer(op)
        /\ \A op : Storage!Map!Effect(op) <=> Parts!Map!Effect(op)
    BY <1>11 DEF Storage!Map!Operations, Parts!Map!Operations, Storage!Map!Idle,
         Parts!Map!Idle, Storage!Map!Asked, Parts!Map!Asked,
         Storage!Map!Got, Parts!Map!Got, Storage!Map!Answer, Parts!Map!Answer,
         Storage!Map!Effect, Parts!Map!Effect
  <2>2. \A c, op : /\ Storage!Map!Ask(c, op) <=> Parts!Map!Ask(c, op)
                   /\ Storage!Map!Act(c, op) <=> Parts!Map!Act(c, op)
    BY <1>11, <2>1 DEF Storage!Map!Ask, Parts!Map!Ask, Storage!Map!Act, Parts!Map!Act
  <2>3. /\ \A c : Storage!Map!End(c) <=> Parts!Map!End(c)
        /\ Storage!Map!Restart <=> Parts!Map!Restart
    BY <1>11, <2>1 DEF Storage!Map!End, Parts!Map!End, Storage!Map!Restart, Parts!Map!Restart
  <2> QED
    BY <1>11, <2>1, <2>2, <2>3
      DEF Storage!Map!Next, Parts!Map!Next, Storage!Map!vars, Parts!Map!vars
<1>14. Parts!Careful = Storage!Careful /\ Parts!vars = Storage!vars
       /\ (UNCHANGED Parts!vars <=> UNCHANGED Storage!vars)
  BY DEF Parts!Careful, Storage!Careful, Parts!vars, Storage!vars
<1> QED
  BY <1>1, <1>2, <1>9, <1>10, <1>12, <1>13, <1>14

(* Both stores are the map of the trait for careful callers, whatever runs *)
(* beside them; and for all callers an unreadable file is a torn one.      *)
THEOREM StoresKeepTheirPromises == ComponentsSpec => ImplementsKeyValue
<1>1. Parts!Spec => Parts!ImplementsKeyValue /\ []Parts!UnreadableIsTorn
  BY StoresAreStores, Parts!StoresAreMaps, Parts!UnreadableAreTorn
<1> QED
  BY <1>1, EachStarts, EachByItself, StoresAreStores, PTL
    DEF ComponentsSpec, Parts!Spec, Parts!ImplementsKeyValue,
        Storage!ImplementsKeyValue, ImplementsKeyValue

(* The vouchers are those of PartsProofs. *)
LEMMA BytesAreBytes ==
    /\ Parts!Bytes!BytesAssumption
    /\ Bytes!Init => Parts!Bytes!Init
    /\ [Bytes!Next]_(Bytes!vars) => [Parts!Bytes!Next]_(Parts!Bytes!vars)
    /\ Parts!Bytes!AcceptedIsSigned => Bytes!AcceptedIsSigned
<1>1. Parts!Bytes!BytesAssumption
  BY VouchersAssumption DEF Bytes!BytesAssumption, Parts!Bytes!BytesAssumption,
      Bytes!Byte, Parts!Bytes!Byte
<1>2. /\ Bytes!Byte = Parts!Bytes!Byte /\ Bytes!Vouchers = Parts!Bytes!Vouchers
      /\ \A v : Bytes!Uleb128(v) = Parts!Bytes!Uleb128(v)
  BY DEF Bytes!Byte, Parts!Bytes!Byte, Bytes!Vouchers, Parts!Bytes!Vouchers,
         Bytes!Uleb128, Parts!Bytes!Uleb128
<1>3. Bytes!Holds = Parts!Bytes!Holds
  BY <1>2 DEF Bytes!Holds, Parts!Bytes!Holds
<1>4. /\ Bytes!Fits = Parts!Bytes!Fits
      /\ \A n : Bytes!LittleEndian(n) = Parts!Bytes!LittleEndian(n)
  BY <1>2, <1>3 DEF Bytes!Fits, Parts!Bytes!Fits, Bytes!LittleEndian,
         Parts!Bytes!LittleEndian
<1>5. \A c, n : Bytes!Serialize(c, n) = Parts!Bytes!Serialize(c, n)
  BY <1>2, <1>4 DEF Bytes!Serialize, Parts!Bytes!Serialize
<1>6. \A k, c, n : Bytes!Sign(k, c, n) = Parts!Bytes!Sign(k, c, n)
  BY <1>5 DEF Bytes!Sign, Parts!Bytes!Sign
<1>7. /\ \A v : Bytes!SignatureOf(v) = Parts!Bytes!SignatureOf(v)
      /\ \A n : Bytes!Readable(n) = Parts!Bytes!Readable(n)
      /\ Bytes!Presented = Parts!Bytes!Presented
  BY <1>4, <1>6 DEF Bytes!SignatureOf, Parts!Bytes!SignatureOf, Bytes!Readable,
         Parts!Bytes!Readable, Bytes!Presented, Parts!Bytes!Presented
<1>8. \A l, s, c : Bytes!VerifiedBy(l, s, c) = Parts!Bytes!VerifiedBy(l, s, c)
  BY <1>6, <1>7 DEF Bytes!VerifiedBy, Parts!Bytes!VerifiedBy
<1>9. Bytes!Init => Parts!Bytes!Init
  BY <1>2, <1>7 DEF Bytes!Init, Parts!Bytes!Init
<1>10. [Bytes!Next]_(Bytes!vars) => [Parts!Bytes!Next]_(Parts!Bytes!vars)
  BY <1>7, <1>8 DEF Bytes!Next, Parts!Bytes!Next, Bytes!Present, Parts!Bytes!Present,
         Bytes!vars, Parts!Bytes!vars
<1>11. Parts!Bytes!AcceptedIsSigned => Bytes!AcceptedIsSigned
  BY <1>4, <1>7 DEF Bytes!AcceptedIsSigned, Parts!Bytes!AcceptedIsSigned,
         Bytes!SameVoucher, Parts!Bytes!SameVoucher
<1> QED
  BY <1>1, <1>9, <1>10, <1>11

(* A voucher is verified for the channel and key it was signed with, in    *)
(* Rust for the u64 that was signed, in TypeScript for every total that is *)
(* the same in the width of one.                                           *)
THEOREM VouchersAreAsSigned == ComponentsSpec => []AcceptedIsSigned
<1>1. Parts!Bytes!Spec => []Parts!Bytes!AcceptedIsSigned
  BY BytesAreBytes, Parts!VouchersAreBound
<1>2. Parts!Bytes!AcceptedIsSigned => AcceptedIsSigned
  BY BytesAreBytes DEF AcceptedIsSigned
<1> QED
  BY <1>1, <1>2, EachStarts, EachByItself, BytesAreBytes, PTL
    DEF ComponentsSpec, Parts!Bytes!Spec

(* The proxies are those of PartsProofs. *)
LEMMA ProxiesAreProxies ==
    /\ Parts!Routes!ProxyAssumption
    /\ Proxy!Init => Parts!Routes!Init
    /\ [Proxy!Next]_(Proxy!vars) => [Parts!Routes!Next]_(Parts!Routes!vars)
    /\ Parts!Routes!RoutedAsAddressed => Proxy!RoutedAsAddressed
    /\ Parts!Routes!OthersAreRefused => Proxy!OthersAreRefused
    /\ Parts!Routes!DiscoveryIsApart => Proxy!DiscoveryIsApart
<1>0. /\ \A t : Proxy!ToSet(t) = Parts!Routes!ToSet(t)
      /\ \A s, t : Proxy!IsPrefix(s, t) <=> Parts!Routes!IsPrefix(s, t)
      /\ \A I : Proxy!Min(I) = Parts!Routes!Min(I)
  BY DEF Proxy!ToSet, Parts!Routes!ToSet, Proxy!IsPrefix, Parts!Routes!IsPrefix,
         Proxy!Min, Parts!Routes!Min
<1>1. Parts!Routes!ProxyAssumption
  BY <1>0, ProxiesAssumption DEF Proxy!ProxyAssumption, Parts!Routes!ProxyAssumption
<1>2. /\ Proxy!None = Parts!Routes!None /\ Proxy!Slash = Parts!Routes!Slash
      /\ Proxy!Paths = Parts!Routes!Paths
      /\ \A x : Proxy!Some(x) = Parts!Routes!Some(x)
      /\ \A r, m : Proxy!Admits(r, m) <=> Parts!Routes!Admits(r, m)
      /\ \A p, s : Proxy!PathMatches(p, s) <=> Parts!Routes!PathMatches(p, s)
  BY DEF Proxy!None, Parts!Routes!None, Proxy!Slash, Parts!Routes!Slash,
         Proxy!Paths, Parts!Routes!Paths, Proxy!Some, Parts!Routes!Some,
         Proxy!Admits, Parts!Routes!Admits, Proxy!PathMatches, Parts!Routes!PathMatches
<1>3. \A t, k, p : Proxy!Piece(t, k, p) = Parts!Routes!Piece(t, k, p)
  BY <1>2 DEF Proxy!Piece, Parts!Routes!Piece
<1>4. \A t : Proxy!Segments(t) = Parts!Routes!Segments(t)
  BY <1>3 DEF Proxy!Segments, Parts!Routes!Segments
<1>5. \A t : Proxy!TrimSlashes(t) = Parts!Routes!TrimSlashes(t)
  BY <1>2 DEF Proxy!TrimSlashes, Parts!Routes!TrimSlashes
<1>6. \A c, t : Proxy!Stripped(c, t) = Parts!Routes!Stripped(c, t)
  BY <1>0, <1>2, <1>5 DEF Proxy!Stripped, Parts!Routes!Stripped
<1>7. \A c, id : Proxy!ServiceOf(c, id) = Parts!Routes!ServiceOf(c, id)
  BY <1>0, <1>2
    DEF Proxy!ServiceOf, Parts!Routes!ServiceOf, Proxy!FirstOf, Parts!Routes!FirstOf,
        Proxy!SelectInSeq, Parts!Routes!SelectInSeq
<1>8. \A s, m, rest : Proxy!RouteOf(s, m, rest) = Parts!Routes!RouteOf(s, m, rest)
  <2> SUFFICES ASSUME NEW s, NEW m, NEW rest
               PROVE  Proxy!RouteOf(s, m, rest) = Parts!Routes!RouteOf(s, m, rest)
    OBVIOUS
  <2>1. Proxy!FirstOf(s.routes, LAMBDA r : Proxy!Admits(r, m)
                                            /\ Proxy!PathMatches(r.path, rest))
        = Parts!Routes!FirstOf(s.routes, LAMBDA r : Parts!Routes!Admits(r, m)
                                            /\ Parts!Routes!PathMatches(r.path, rest))
    BY <1>0, <1>2 DEF Proxy!FirstOf, Parts!Routes!FirstOf,
                      Proxy!SelectInSeq, Parts!Routes!SelectInSeq
  <2>2. Proxy!FirstOf(s.routes, LAMBDA r : Proxy!PathMatches(r.path, rest))
        = Parts!Routes!FirstOf(s.routes,
                               LAMBDA r : Parts!Routes!PathMatches(r.path, rest))
    BY <1>0, <1>2 DEF Proxy!FirstOf, Parts!Routes!FirstOf,
                      Proxy!SelectInSeq, Parts!Routes!SelectInSeq
  <2> QED
    BY <1>2, <2>1, <2>2 DEF Proxy!RouteOf, Parts!Routes!RouteOf
<1>9. \A c, m, t : Proxy!MatchRoute(c, m, t) = Parts!Routes!MatchRoute(c, m, t)
  BY <1>2, <1>4, <1>6, <1>7, <1>8 DEF Proxy!MatchRoute, Parts!Routes!MatchRoute
<1>10. \A c, m, t : Proxy!Discovery(c, m, t) = Parts!Routes!Discovery(c, m, t)
  BY <1>0, <1>2, <1>5, <1>6, <1>7 DEF Proxy!Discovery, Parts!Routes!Discovery
<1>11. Proxy!Init => Parts!Routes!Init
  BY <1>2 DEF Proxy!Init, Parts!Routes!Init
<1>12. [Proxy!Next]_(Proxy!vars) => [Parts!Routes!Next]_(Parts!Routes!vars)
  BY <1>9, <1>10 DEF Proxy!Next, Parts!Routes!Next, Proxy!Look, Parts!Routes!Look,
         Proxy!vars, Parts!Routes!vars
<1>13. /\ Proxy!Base = Parts!Routes!Base /\ Proxy!Below = Parts!Routes!Below
       /\ Proxy!Rest = Parts!Routes!Rest
  BY <1>0, <1>2, <1>4 DEF Proxy!Base, Parts!Routes!Base, Proxy!Below, Parts!Routes!Below,
         Proxy!Rest, Parts!Routes!Rest
<1>14. /\ Parts!Routes!RoutedAsAddressed => Proxy!RoutedAsAddressed
       /\ Parts!Routes!OthersAreRefused => Proxy!OthersAreRefused
       /\ Parts!Routes!DiscoveryIsApart => Proxy!DiscoveryIsApart
  BY <1>0, <1>2, <1>4, <1>13 DEF Proxy!RoutedAsAddressed, Parts!Routes!RoutedAsAddressed,
         Proxy!OthersAreRefused, Parts!Routes!OthersAreRefused,
         Proxy!DiscoveryIsApart, Parts!Routes!DiscoveryIsApart
<1> QED
  BY <1>1, <1>11, <1>12, <1>14

(* A request goes where its path says and nowhere else, and no question    *)
(* about the services hides a route.                                       *)
THEOREM RequestsGoWhereAddressed == ComponentsSpec => []RoutedAsAddressed
<1>1. Parts!Routes!Spec =>
        [](/\ Parts!Routes!RoutedAsAddressed
           /\ Parts!Routes!OthersAreRefused
           /\ Parts!Routes!DiscoveryIsApart)
  BY ProxiesAreProxies, Parts!RequestsAreRouted
<1>2. /\ Parts!Routes!RoutedAsAddressed /\ Parts!Routes!OthersAreRefused
      /\ Parts!Routes!DiscoveryIsApart
      => RoutedAsAddressed
  BY ProxiesAreProxies DEF RoutedAsAddressed
<1> QED
  BY <1>1, <1>2, EachStarts, EachByItself, ProxiesAreProxies, PTL
    DEF ComponentsSpec, Parts!Routes!Spec

(* The amounts are those of PartsProofs. *)
LEMMA NumbersAreNumbers ==
    /\ Parts!Numbers!AmountsAssumption
    /\ Numbers!Init => Parts!Numbers!Init
    /\ [Numbers!Next]_(Numbers!vars) => [Parts!Numbers!Next]_(Parts!Numbers!vars)
    /\ Parts!Numbers!DollarsAreExact => Numbers!DollarsAreExact
    /\ Parts!Numbers!BothAgree => Numbers!BothAgree
    /\ Parts!Numbers!NothingElseIsRead => Numbers!NothingElseIsRead
<1>1. /\ \A t : Numbers!ToSet(t) = Parts!Numbers!ToSet(t)
      /\ Numbers!Numerals = Parts!Numbers!Numerals
      /\ Numbers!Blank = Parts!Numbers!Blank
      /\ Numbers!Texts = Parts!Numbers!Texts
      /\ \A v : Numbers!Accepted(v) = Parts!Numbers!Accepted(v)
      /\ \A why : Numbers!Refused(why) = Parts!Numbers!Refused(why)
      /\ \A n : Numbers!TenTo(n) = Parts!Numbers!TenTo(n)
      /\ \A t : Numbers!Numeral(t) <=> Parts!Numbers!Numeral(t)
      /\ \A t : Numbers!Points(t) = Parts!Numbers!Points(t)
      /\ \A t : Numbers!StripZeros(t) = Parts!Numbers!StripZeros(t)
      /\ \A f, d : Numbers!Padding(f, d) = Parts!Numbers!Padding(f, d)
  BY DEF Numbers!ToSet, Parts!Numbers!ToSet, Numbers!Numerals, Parts!Numbers!Numerals,
         Numbers!Blank, Parts!Numbers!Blank, Numbers!Texts, Parts!Numbers!Texts,
         Numbers!Accepted, Parts!Numbers!Accepted, Numbers!Refused, Parts!Numbers!Refused,
         Numbers!TenTo, Parts!Numbers!TenTo, Numbers!Numeral, Parts!Numbers!Numeral,
         Numbers!Points, Parts!Numbers!Points, Numbers!StripZeros,
         Parts!Numbers!StripZeros, Numbers!Padding, Parts!Numbers!Padding
<1>2. Parts!Numbers!AmountsAssumption
  BY <1>1, NumbersAssumption
    DEF Numbers!AmountsAssumption, Parts!Numbers!AmountsAssumption
<1>3. Numbers!Digit = Parts!Numbers!Digit
  BY <1>1 DEF Numbers!Digit, Parts!Numbers!Digit
<1>4. \A t : Numbers!Value(t) = Parts!Numbers!Value(t)
  BY <1>3 DEF Numbers!Value, Parts!Numbers!Value
<1>5. /\ \A t : Numbers!Trim(t) = Parts!Numbers!Trim(t)
      /\ \A t : Numbers!Split(t) = Parts!Numbers!Split(t)
  BY DEF Numbers!Trim, Parts!Numbers!Trim, Numbers!Split, Parts!Numbers!Split,
         Numbers!Points, Parts!Numbers!Points, Numbers!Blank, Parts!Numbers!Blank
<1>6. \A w, f, d : Numbers!Scaled(w, f, d) = Parts!Numbers!Scaled(w, f, d)
  BY <1>1, <1>4 DEF Numbers!Scaled, Parts!Numbers!Scaled
<1>7. \A t, d : Numbers!ParseDollarAmount(t, d) = Parts!Numbers!ParseDollarAmount(t, d)
  BY <1>1, <1>4, <1>5, <1>6
    DEF Numbers!ParseDollarAmount, Parts!Numbers!ParseDollarAmount
<1>8. \A t, d : Numbers!ParseUnits(t, d) = Parts!Numbers!ParseUnits(t, d)
  BY <1>1, <1>5 DEF Numbers!ParseUnits, Parts!Numbers!ParseUnits
<1>9. \A t, max : Numbers!ReadInteger(t, max) = Parts!Numbers!ReadInteger(t, max)
  BY <1>1, <1>4 DEF Numbers!ReadInteger, Parts!Numbers!ReadInteger
<1>10. \A max : Numbers!UnitsRead(max) = Parts!Numbers!UnitsRead(max)
  BY <1>9 DEF Numbers!UnitsRead, Parts!Numbers!UnitsRead
<1>11. Numbers!Init => Parts!Numbers!Init
  BY <1>1 DEF Numbers!Init, Parts!Numbers!Init
<1>12. [Numbers!Next]_(Numbers!vars) => [Parts!Numbers!Next]_(Parts!Numbers!vars)
  BY <1>1, <1>7, <1>8
    DEF Numbers!Next, Parts!Numbers!Next, Numbers!Convert, Parts!Numbers!Convert,
        Numbers!vars, Parts!Numbers!vars
<1>13. Numbers!Converted <=> Parts!Numbers!Converted
  BY <1>1 DEF Numbers!Converted, Parts!Numbers!Converted
<1>14. /\ \A t : Numbers!Decimal(t) <=> Parts!Numbers!Decimal(t)
       /\ \A t, d : Numbers!Shifted(t, d) = Parts!Numbers!Shifted(t, d)
  BY <1>1, <1>4, <1>5 DEF Numbers!Decimal, Parts!Numbers!Decimal, Numbers!Shifted,
         Parts!Numbers!Shifted
<1>15. Parts!Numbers!DollarsAreExact => Numbers!DollarsAreExact
  BY <1>5, <1>13, <1>14 DEF Numbers!DollarsAreExact, Parts!Numbers!DollarsAreExact
<1>16. Parts!Numbers!BothAgree => Numbers!BothAgree
  BY <1>1, <1>5, <1>10, <1>13 DEF Numbers!BothAgree, Parts!Numbers!BothAgree
<1>17. Parts!Numbers!NothingElseIsRead => Numbers!NothingElseIsRead
  BY <1>10, <1>13 DEF Numbers!NothingElseIsRead, Parts!Numbers!NothingElseIsRead
<1> QED
  BY <1>2, <1>11, <1>12, <1>15, <1>16, <1>17

(* An amount is paid as it was written, or refused by both parsers.        *)
THEOREM AmountsAreAsWritten == ComponentsSpec => []AmountsAreExact
<1>1. Parts!Numbers!Spec =>
        [](/\ Parts!Numbers!DollarsAreExact
           /\ Parts!Numbers!BothAgree
           /\ Parts!Numbers!NothingElseIsRead)
  BY NumbersAreNumbers, Parts!AmountsAreConverted
<1>2. /\ Parts!Numbers!DollarsAreExact /\ Parts!Numbers!BothAgree
      /\ Parts!Numbers!NothingElseIsRead
      => AmountsAreExact
  BY NumbersAreNumbers DEF AmountsAreExact
<1> QED
  BY <1>1, <1>2, EachStarts, EachByItself, NumbersAreNumbers, PTL
    DEF ComponentsSpec, Parts!Numbers!Spec

(* The challenges are those of ChargeProofs. *)
LEMMA WiresAreWires ==
    /\ Payments!Wire!WireAssumption
    /\ Wire!Init => Payments!Wire!Init
    /\ [Wire!Next]_(Wire!vars) => [Payments!Wire!Next]_(Payments!Wire!vars)
    /\ Payments!Wire!ReadIsMade => Wire!ReadIsMade
    /\ Payments!Wire!UnreadableHasReason => Wire!UnreadableHasReason
    /\ Payments!Wire!BoundToMaker => Wire!BoundToMaker
    /\ Payments!Wire!BothEndsAgree => Wire!BothEndsAgree
    /\ Payments!Wire!AcceptedAsMade => Wire!AcceptedAsMade
<1>1. /\ \A t : Wire!ToSet(t) = Payments!Wire!ToSet(t)
      /\ Wire!None = Payments!Wire!None
      /\ \A x : Wire!Some(x) = Payments!Wire!Some(x)
      /\ Wire!Texts = Payments!Wire!Texts
      /\ Wire!Control = Payments!Wire!Control
      /\ Wire!Foreign = Payments!Wire!Foreign
      /\ Wire!Quote = Payments!Wire!Quote
      /\ Wire!Backslash = Payments!Wire!Backslash
      /\ Wire!LineBreak = Payments!Wire!LineBreak
  BY DEF Wire!ToSet, Payments!Wire!ToSet, Wire!None, Payments!Wire!None, Wire!Some,
        Payments!Wire!Some, Wire!Texts, Payments!Wire!Texts, Wire!Control,
        Payments!Wire!Control, Wire!Foreign, Payments!Wire!Foreign, Wire!Quote,
        Payments!Wire!Quote, Wire!Backslash, Payments!Wire!Backslash, Wire!LineBreak,
        Payments!Wire!LineBreak
<1>2. /\ \A t : Wire!Moment(t) = Payments!Wire!Moment(t)
      /\ \A option : Wire!Given(option) = Payments!Wire!Given(option)
  BY <1>1 DEF Wire!Moment, Payments!Wire!Moment, Wire!Given, Payments!Wire!Given
<1>3. \A c : Wire!Joined(c) = Payments!Wire!Joined(c)
  BY <1>2 DEF Wire!Joined, Payments!Wire!Joined
<1>4. \A secret, realm, c :
          Wire!ComputeChallengeId(secret, realm, c)
            = Payments!Wire!ComputeChallengeId(secret, realm, c)
  BY <1>3 DEF Wire!ComputeChallengeId, Payments!Wire!ComputeChallengeId
<1>5. \A s, c, bound : Wire!WithId(s, c, bound) = Payments!Wire!WithId(s, c, bound)
  BY <1>4 DEF Wire!WithId, Payments!Wire!WithId
<1>6. \A s, intent, req :
          Wire!Bare(s, intent, req)
            = Payments!Wire!Bare(s, intent, req)
  BY <1>1 DEF Wire!Bare, Payments!Wire!Bare
<1>7. \A s, intent, req, expires, description :
          Wire!Offered(s, intent, req, expires, description)
             = Payments!Wire!Offered(s, intent, req, expires, description)
  <2> SUFFICES ASSUME NEW s, NEW intent, NEW req, NEW expires, NEW description
               PROVE  Wire!Offered(s, intent, req, expires, description)
                        = Payments!Wire!Offered(s, intent, req, expires, description)
    OBVIOUS
  <2> DEFINE
        until == IF expires = Wire!None
                 THEN Wire!Some(Wire!Moment(clock + 1)) ELSE expires
        c == [Wire!Bare(s, intent, req)
                EXCEPT !.expires = until, !.description = description]
  <2>1. Wire!Offered(s, intent, req, expires, description) = Wire!WithId(s, c, c)
    BY DEF Wire!Offered
  <2>2. /\ Payments!Wire!None = Wire!None
        /\ Payments!Wire!Some(Payments!Wire!Moment(clock + 1))
             = Wire!Some(Wire!Moment(clock + 1))
        /\ Payments!Wire!Bare(s, intent, req) = Wire!Bare(s, intent, req)
    BY <1>1, <1>2, <1>6, Zenon
  <2>3. Payments!Wire!Offered(s, intent, req, expires, description)
          = Payments!Wire!WithId(s, c, c)
    BY <2>2 DEF Payments!Wire!Offered
  <2> HIDE DEF c
  <2> QED
    BY <1>5, <2>1, <2>3
<1>8. /\ \A s, req, expires, digest, opaque :
             Wire!Full(s, req, expires, digest, opaque)
               = Payments!Wire!Full(s, req, expires, digest, opaque)
      /\ \A s, req, expires, digest, opaque :
             Wire!SetAfterwards(s, req, expires, digest, opaque)
               = Payments!Wire!SetAfterwards(s, req, expires, digest, opaque)
  BY <1>5, <1>6 DEF Wire!Full, Payments!Wire!Full, Wire!SetAfterwards,
        Payments!Wire!SetAfterwards
<1>9. \A t, c, code : Wire!Onto(t, c, code) = Payments!Wire!Onto(t, c, code)
  BY DEF Wire!Onto, Payments!Wire!Onto
<1>10. \A t, code : Wire!Written(t, code) = Payments!Wire!Written(t, code)
  BY <1>9 DEF Wire!Written, Payments!Wire!Written
<1>11. \A t : Wire!Escape(t) = Payments!Wire!Escape(t)
  BY <1>1, <1>10 DEF Wire!Escape, Payments!Wire!Escape
<1>12. \A key, t : Wire!Param(key, t) = Payments!Wire!Param(key, t)
  BY <1>1, <1>11 DEF Wire!Param, Payments!Wire!Param
<1>13. \A key, t : Wire!Following(key, t) = Payments!Wire!Following(key, t)
  BY <1>12 DEF Wire!Following, Payments!Wire!Following
<1>14. \A key, option :
           Wire!Optional(key, option)
             = Payments!Wire!Optional(key, option)
  BY <1>1, <1>13 DEF Wire!Optional, Payments!Wire!Optional
<1>15. \A c : Wire!ParamsOf(c) = Payments!Wire!ParamsOf(c)
  BY <1>12, <1>13, <1>14 DEF Wire!ParamsOf, Payments!Wire!ParamsOf
<1>16. \A c : Wire!FormatWwwAuthenticate(c) = Payments!Wire!FormatWwwAuthenticate(c)
  BY <1>15 DEF Wire!FormatWwwAuthenticate, Payments!Wire!FormatWwwAuthenticate
<1>17. \A c : Wire!Send(c) = Payments!Wire!Send(c)
  BY <1>1, <1>16 DEF Wire!Send, Payments!Wire!Send
<1>18. /\ Wire!Separators = Payments!Wire!Separators
       /\ Wire!Reading = Payments!Wire!Reading
       /\ \A r, value : Wire!Inserted(r, value) = Payments!Wire!Inserted(r, value)
  BY DEF Wire!Separators, Payments!Wire!Separators, Wire!Reading,
        Payments!Wire!Reading, Wire!Inserted, Payments!Wire!Inserted
<1>19. \A r, c : Wire!Scanned(r, c) = Payments!Wire!Scanned(r, c)
  BY <1>1, <1>18 DEF Wire!Scanned, Payments!Wire!Scanned
<1>20. \A r : Wire!Ended(r) = Payments!Wire!Ended(r)
  BY <1>1, <1>18 DEF Wire!Ended, Payments!Wire!Ended
<1>21. \A r, t : Wire!ScannedOn(r, t) = Payments!Wire!ScannedOn(r, t)
  BY <1>19 DEF Wire!ScannedOn, Payments!Wire!ScannedOn
<1>22. \A t : Wire!AuthParams(t) = Payments!Wire!AuthParams(t)
  BY <1>18, <1>20, <1>21 DEF Wire!AuthParams, Payments!Wire!AuthParams
<1>23. \A pairs, key : Wire!ValueOf(pairs, key) = Payments!Wire!ValueOf(pairs, key)
  BY <1>1 DEF Wire!ValueOf, Payments!Wire!ValueOf
<1>24. /\ \A t : Wire!ValidDigest(t) <=> Payments!Wire!ValidDigest(t)
       /\ Wire!RequiredKeys = Payments!Wire!RequiredKeys
  BY DEF Wire!ValidDigest, Payments!Wire!ValidDigest, Wire!RequiredKeys,
        Payments!Wire!RequiredKeys
<1>25. \A header : Wire!Fields(header) = Payments!Wire!Fields(header)
  BY <1>1, <1>22, <1>23, <1>24 DEF Wire!Fields, Payments!Wire!Fields
<1>26. \A header :
           Wire!ParseWwwAuthenticate(header)
             = Payments!Wire!ParseWwwAuthenticate(header)
  BY <1>1, <1>25, <1>24 DEF Wire!ParseWwwAuthenticate,
        Payments!Wire!ParseWwwAuthenticate
<1>27. \A t : Wire!Bytewise(t) = Payments!Wire!Bytewise(t)
  BY <1>1, <1>10 DEF Wire!Bytewise, Payments!Wire!Bytewise
<1>28. \A option : Wire!Present(option) = Payments!Wire!Present(option)
  BY <1>1 DEF Wire!Present, Payments!Wire!Present
<1>29. \A c : Wire!Nonempty(c) = Payments!Wire!Nonempty(c)
  BY <1>28 DEF Wire!Nonempty, Payments!Wire!Nonempty
<1>30. \A header : Wire!ParseInBrowser(header) = Payments!Wire!ParseInBrowser(header)
  BY <1>1, <1>25, <1>27, <1>28, <1>29, <1>24 DEF Wire!ParseInBrowser,
        Payments!Wire!ParseInBrowser
<1>31. \A c : Wire!Echo(c) = Payments!Wire!Echo(c)
  BY DEF Wire!Echo, Payments!Wire!Echo
<1>32. \A now, expires :
           Wire!ExpiredAt(now, expires)
             <=> Payments!Wire!ExpiredAt(now, expires)
  BY <1>1, <1>2 DEF Wire!ExpiredAt, Payments!Wire!ExpiredAt
<1>33. \A expires : Wire!IsExpired(expires) <=> Payments!Wire!IsExpired(expires)
  BY <1>32 DEF Wire!IsExpired, Payments!Wire!IsExpired
<1>34. \A s, echo : Wire!Checked(s, echo) = Payments!Wire!Checked(s, echo)
  BY <1>4, <1>33 DEF Wire!Checked, Payments!Wire!Checked
<1>50. \A x, y : Wire!SameCharge(x, y) <=> Payments!Wire!SameCharge(x, y)
  BY DEF Wire!SameCharge, Payments!Wire!SameCharge
<1>35. \A s, echo, expected :
           Wire!Verified(s, echo, expected)
             = Payments!Wire!Verified(s, echo, expected)
  BY <1>1, <1>34, <1>50 DEF Wire!Verified, Payments!Wire!Verified
<1>36. /\ \A secret, c :
              Wire!VerifyChallenge(secret, c)
                <=> Payments!Wire!VerifyChallenge(secret, c)
       /\ \A intent, c : Wire!ValidFor(intent, c) <=> Payments!Wire!ValidFor(intent, c)
  BY <1>4, <1>33 DEF Wire!VerifyChallenge, Payments!Wire!VerifyChallenge,
        Wire!ValidFor, Payments!Wire!ValidFor
<1>37. /\ Wire!Expiries = Payments!Wire!Expiries
       /\ Wire!Digests = Payments!Wire!Digests
       /\ Wire!Opaques = Payments!Wire!Opaques
       /\ Wire!Expectations = Payments!Wire!Expectations
  BY <1>1, <1>2 DEF Wire!Expiries, Payments!Wire!Expiries, Wire!Digests,
        Payments!Wire!Digests, Wire!Opaques, Payments!Wire!Opaques, Wire!Expectations,
        Payments!Wire!Expectations
<1>38. Payments!Wire!WireAssumption
  BY <1>1, WiresAssumption DEF Wire!WireAssumption, Payments!Wire!WireAssumption
<1>39. Wire!Init => Payments!Wire!Init
  BY <1>1 DEF Wire!Init, Payments!Wire!Init
<1>40. Wire!Make <=> Payments!Wire!Make
  BY <1>37, <1>7, <1>8, <1>1 DEF Wire!Make, Payments!Wire!Make
<1>41. Wire!Respond <=> Payments!Wire!Respond
  BY <1>17 DEF Wire!Respond, Payments!Wire!Respond
<1>42. Wire!Read <=> Payments!Wire!Read
  BY <1>1, <1>26, <1>30 DEF Wire!Read, Payments!Wire!Read
<1>43. \A s, expected : Wire!Verify(s, expected) <=> Payments!Wire!Verify(s, expected)
  BY <1>1, <1>31, <1>35 DEF Wire!Verify, Payments!Wire!Verify
<1>44. [Wire!Next]_(Wire!vars) => [Payments!Wire!Next]_(Payments!Wire!vars)
  BY <1>40, <1>41, <1>42, <1>43, <1>37 DEF Wire!Next, Payments!Wire!Next,
        Wire!Tick, Payments!Wire!Tick, Wire!vars, Payments!Wire!vars
<1>45. Payments!Wire!ReadIsMade => Wire!ReadIsMade
  BY <1>1, <1>2, <1>27 DEF Wire!ReadIsMade, Payments!Wire!ReadIsMade
<1>46. Payments!Wire!UnreadableHasReason => Wire!UnreadableHasReason
  BY <1>1, <1>2, <1>24 DEF Wire!UnreadableHasReason,
        Payments!Wire!UnreadableHasReason
<1>47. Payments!Wire!BoundToMaker => Wire!BoundToMaker
  BY <1>1, <1>34, <1>31, <1>36 DEF Wire!BoundToMaker, Payments!Wire!BoundToMaker
<1>48. Payments!Wire!BothEndsAgree => Wire!BothEndsAgree
  BY <1>1, <1>34, <1>31, <1>36 DEF Wire!BothEndsAgree, Payments!Wire!BothEndsAgree
<1>49. Payments!Wire!AcceptedAsMade => Wire!AcceptedAsMade
  BY <1>1, <1>32, <1>50 DEF Wire!AcceptedAsMade, Payments!Wire!AcceptedAsMade
<1> QED
  BY <1>38, <1>39, <1>44, <1>45, <1>46, <1>47, <1>48, <1>49

(* A client reads the challenge that was made, quotes and all, or one of   *)
(* its texts says why it reads none.                                       *)
THEOREM ChallengesAreReadAsMade == ComponentsSpec => []ReadIsMade
<1>1. Payments!Wire!Spec =>
        [](Payments!Wire!ReadIsMade /\ Payments!Wire!UnreadableHasReason)
  BY PaymentsAssumptions, WiresAreWires, Payments!ChallengesAreBound, PTL
<1>2. Payments!Wire!ReadIsMade /\ Payments!Wire!UnreadableHasReason => ReadIsMade
  BY WiresAreWires DEF ReadIsMade
<1> QED
  BY <1>1, <1>2, EachStarts, EachByItself, WiresAreWires, PTL
    DEF ComponentsSpec, Payments!Wire!Spec

(* A challenge is taken back by its maker alone, for the request it was    *)
(* made for, until both ends find it expired.                              *)
THEOREM ChallengesAreTheirMakers == ComponentsSpec => []BoundToMaker
<1>1. Payments!Wire!Spec =>
        [](/\ Payments!Wire!BoundToMaker
           /\ Payments!Wire!BothEndsAgree
           /\ Payments!Wire!AcceptedAsMade)
  BY PaymentsAssumptions, WiresAreWires, Payments!ChallengesAreBound, PTL
<1>2. /\ Payments!Wire!BoundToMaker /\ Payments!Wire!BothEndsAgree
      /\ Payments!Wire!AcceptedAsMade
      => BoundToMaker
  BY WiresAreWires DEF BoundToMaker
<1> QED
  BY <1>1, <1>2, EachStarts, EachByItself, WiresAreWires, PTL
    DEF ComponentsSpec, Payments!Wire!Spec
=============================================================================
