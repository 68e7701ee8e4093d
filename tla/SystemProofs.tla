---------------------------- MODULE SystemProofs ----------------------------
(***************************************************************************)
(* Proofs about SessionSystem, for any calls, channels, price, deposit and *)
(* width of the amounts: the server never holds more of the payer's money  *)
(* than the provider has counted, whatever is lost, repeated or restarted; *)
(* and where opens are made alone and nothing is lost, every deposit is    *)
(* within reach of close.                                                  *)
(***************************************************************************)
EXTENDS SessionSystemSafety, FiniteSetTheorems, TLAPS

-----------------------------------------------------------------------------
(* The inductive invariant *)

(* A channel is used when the provider, a request, a handler or the store  *)
(* knows it.                                                               *)
Sent(r) == call[r].phase \in {"sent", "handling"}

Used(c) ==
    \/ Server!Known(c)
    \/ entry.opened /\ entry.channel = c
    \/ \E r \in Calls : Server!Busy(r) /\ task[r].channel = c
    \/ \E r \in Calls : Sent(r) /\ call[r].channel = c

Submitting(r) == call[r].phase = "submitted"

(* Channels come from submitted opens only.                                *)
Tracked ==
    /\ \A c \in Channels : Used(c) => c \in submitted
    /\ \A r \in Calls : Submitting(r) => call[r].channel \in submitted

(* Until pay has registered it, the channel it opens is known to nobody    *)
(* else: the entry that replaces another one starts at the first voucher.  *)
Private ==
    \A r \in Calls : Submitting(r) =>
        /\ \A c \in Channels : Used(c) => call[r].channel # c
        /\ \A q \in Calls \ {r} :
             Submitting(q) => call[q].channel # call[r].channel

(* A handler past its reads finds its channel.                             *)
Found == \A r \in Calls, c \in Channels :
    task[r].op \in {"topUpWait", "topUp", "voucher", "close"} /\ task[r].channel = c
        => Server!Known(c)

(* What is under way was counted before it was sent.                       *)
Counted == \A c \in Channels : entry.opened /\ entry.channel = c =>
    /\ Server!Known(c) => store[c].highest <= entry.cumulative
    /\ \A r \in Calls : task[r].op \in {"open", "voucher", "close"} /\ task[r].channel = c
         => task[r].amount <= entry.cumulative
    /\ \A r \in Calls : Sent(r) /\ call[r].channel = c
         => call[r].amount <= entry.cumulative

IInv == TypeOK /\ Tracked /\ Private /\ Found /\ Counted

-----------------------------------------------------------------------------
(* What types say of the parts of the state *)

LEMMA EntryFacts ==
  ASSUME TypeOK, entry.opened
  PROVE  /\ entry \in ChannelEntry
         /\ entry.channel \in Channels
         /\ entry.cumulative \in 0..MaxAmount
  <1>1. ~NoEntry.opened
    BY DEF NoEntry
  <1>2. entry # NoEntry
    BY <1>1
  <1>3. QED BY <1>2 DEF TypeOK, ChannelEntry, Server!Amounts

LEMMA CallFacts ==
  ASSUME TypeOK, NEW r \in Calls
  PROVE  /\ Sent(r) => /\ call[r] \in Request
                       /\ call[r].channel \in Channels
                       /\ call[r].amount \in 0..MaxAmount
                       /\ call[r].op \in {"open", "voucher", "close"}
         /\ Submitting(r) => /\ call[r] \in Opening
                             /\ call[r].channel \in Channels
         /\ call[r].phase \in {"idle", "opening"} => call[r] \in Waiting
  BY DEF TypeOK, Sent, Submitting, Waiting, Opening, Request, Failed, Server!Amounts

LEMMA TaskFacts ==
  ASSUME TypeOK, NEW r \in Calls
  PROVE  /\ task[r] \in Server!TaskState
         /\ task[r] = Server!Idle \/ task[r].op \in
              {"open", "topUpWait", "topUp", "voucher", "close"}
         /\ task[r].op = "open" => task[r] \in Server!OpenCommitting
         /\ task[r].op = "topUpWait" => task[r] \in Server!TopUpWaiting
         /\ task[r].op = "topUp" => task[r] \in Server!TopUpCommitting
         /\ task[r].op = "voucher" => task[r] \in Server!VoucherCommitting
         /\ task[r].op = "close" => task[r] \in Server!CloseCommitting
         /\ Server!Idle.op \notin {"open", "topUpWait", "topUp", "voucher", "close"}
  BY DEF TypeOK, Server!TypeOK, Server!TaskState, Server!Idle,
         Server!OpenCommitting, Server!TopUpWaiting, Server!TopUpCommitting,
         Server!VoucherCommitting, Server!CloseCommitting

LEMMA BusyFacts ==
  ASSUME TypeOK, NEW r \in Calls, Server!Busy(r)
  PROVE  task[r].channel \in Channels
  BY TaskFacts DEF Server!Busy, Server!TaskState, Server!Idle,
         Server!OpenCommitting, Server!TopUpWaiting, Server!TopUpCommitting,
         Server!VoucherCommitting, Server!CloseCommitting

LEMMA StoreFacts ==
  ASSUME TypeOK, NEW c \in Channels, Server!Known(c)
  PROVE  store[c] \in Server!ChannelState /\ store[c].highest \in 0..MaxAmount
  BY DEF TypeOK, Server!TypeOK, Server!Known, Server!ChannelState, Server!Amounts

-----------------------------------------------------------------------------
(* What the steps of the handlers change *)

(* A handler takes up a request: it holds something of its channel. *)
Holds(p, c) ==
    /\ p.channel = c
    /\ p.op \in {"open", "topUpWait", "topUp", "voucher", "close"}
    /\ p.op # "open" => Server!Known(c)

LEMMA AcceptShape ==
  ASSUME TypeOK, NEW r \in Calls, NEW c \in Channels, Server!Accept(r, c)
  PROVE  /\ UNCHANGED <<chain, store>>
         /\ \E p \in Server!TaskState :
              Holds(p, c) /\ task' = [task EXCEPT ![r] = p]
  <1>0. /\ chain[c] \in Server!OnChainChannel
        /\ store[c] \in Server!ChannelState \cup {Server!NoChannel}
    BY DEF TypeOK, Server!TypeOK
  <1>1. CASE Server!OpenRead(r, c)
    <2>1. PICK a \in Server!Amounts, sig \in Server!Signature, key \in {"payer"} :
            task' = [task EXCEPT ![r] =
              [op |-> "open", channel |-> c, deposit |-> chain[c].deposit,
               amount |-> a, signature |-> sig, key |-> key]]
      BY <1>1 DEF Server!OpenRead
    <2> DEFINE p == [op |-> "open", channel |-> c, deposit |-> chain[c].deposit,
                     amount |-> a, signature |-> sig, key |-> key]
    <2>2. p \in Server!OpenCommitting
      BY <1>0 DEF Server!OpenCommitting, Server!OnChainChannel
    <2>3. p \in Server!TaskState /\ Holds(p, c)
      BY <2>2 DEF Server!TaskState, Holds
    <2>4. QED BY <1>1, <2>1, <2>3 DEF Server!OpenRead
  <1>2. CASE Server!TopUpRead(r, c)
    <2> DEFINE p == [op |-> "topUpWait", channel |-> c, deposit |-> store[c].deposit]
    <2>1. Server!Known(c) /\ store[c].deposit \in Server!Amounts
      BY <1>0, <1>2 DEF Server!TopUpRead, Server!Known, Server!ChannelState
    <2>2. p \in Server!TopUpWaiting
      BY <2>1 DEF Server!TopUpWaiting
    <2>3. p \in Server!TaskState /\ Holds(p, c)
      BY <2>1, <2>2 DEF Server!TaskState, Holds
    <2>4. QED BY <1>2, <2>3 DEF Server!TopUpRead
  <1>3. CASE Server!VoucherRead(r, c)
    <2>1. PICK a \in Server!Amounts, sig \in Server!Signature :
            task' = [task EXCEPT ![r] =
              [op |-> "voucher", channel |-> c, amount |-> a, signature |-> sig]]
      BY <1>3 DEF Server!VoucherRead
    <2> DEFINE p == [op |-> "voucher", channel |-> c, amount |-> a, signature |-> sig]
    <2>2. p \in Server!VoucherCommitting
      BY DEF Server!VoucherCommitting
    <2>3. p \in Server!TaskState /\ Holds(p, c)
      BY <1>3, <2>2 DEF Server!TaskState, Holds, Server!VoucherRead, Server!Accepting
    <2>4. QED BY <1>3, <2>1, <2>3 DEF Server!VoucherRead
  <1>4. CASE Server!CloseRead(r, c)
    <2>1. PICK a \in Server!Amounts, sig \in Server!Signature :
            task' = [task EXCEPT ![r] =
              [op |-> "close", channel |-> c, amount |-> a, signature |-> sig]]
      BY <1>4 DEF Server!CloseRead
    <2> DEFINE p == [op |-> "close", channel |-> c, amount |-> a, signature |-> sig]
    <2>2. p \in Server!CloseCommitting
      BY DEF Server!CloseCommitting
    <2>3. p \in Server!TaskState /\ Holds(p, c)
      BY <1>4, <2>2 DEF Server!TaskState, Holds, Server!CloseRead, Server!Accepting
    <2>4. QED BY <1>4, <2>1, <2>3 DEF Server!CloseRead
  <1>5. QED BY <1>1, <1>2, <1>3, <1>4 DEF Server!Accept

(* A handler that wrote to the store leaves there the highest voucher it    *)
(* held or the one there was.                                              *)
Wrote(r, e) ==
    LET c == task[r].channel IN
    \/ task[r].op \in {"open", "voucher", "close"} /\ e.highest = task[r].amount
    \/ Server!Known(c) /\ e.highest = store[c].highest

LEMMA ProceedShape ==
  ASSUME TypeOK, Found, NEW r \in Calls, Server!Proceed(r)
  PROVE  /\ Server!Busy(r)
         /\ UNCHANGED chain
         /\ \/ UNCHANGED store
            \/ \E e \in Server!ChannelState :
                 Wrote(r, e) /\ store' = [store EXCEPT ![task[r].channel] = e]
         /\ \/ task' = [task EXCEPT ![r] = Server!Idle]
            \/ /\ UNCHANGED store
               /\ Server!Known(task[r].channel)
               /\ \E p \in Server!TopUpCommitting :
                    p.channel = task[r].channel /\ task' = [task EXCEPT ![r] = p]
  <1> DEFINE c == task[r].channel
  <1>0. task[r].op \in {"open", "topUpWait", "topUp", "voucher", "close"}
    BY DEF Server!Proceed, Server!OpenCommit, Server!TopUpCheck, Server!TopUpRefuse,
           Server!TopUpCommit, Server!VoucherCommit, Server!CloseCommit
  <1>1. Server!Busy(r)
    BY <1>0, TaskFacts DEF Server!Busy
  <1>2. c \in Channels
    BY <1>1, BusyFacts
  <1>3. task[r].op # "open" => Server!Known(c) /\ store[c] \in Server!ChannelState
    BY <1>0, <1>2, StoreFacts DEF Found
  <1>4. CASE Server!OpenCommit(r)
    <2> DEFINE e == [signer |-> task[r].key, deposit |-> task[r].deposit,
                     highest |-> task[r].amount, signature |-> task[r].signature,
                     spent |-> 0, finalized |-> FALSE]
    <2>1. task[r] \in Server!OpenCommitting
      BY <1>4, TaskFacts DEF Server!OpenCommit
    <2>2. e \in Server!ChannelState
      BY <2>1, SystemAssumption
      DEF Server!OpenCommitting, Server!ChannelState, Server!Amounts
    <2>3. e.highest = task[r].amount
      OBVIOUS
    <2>4. store' = [store EXCEPT ![c] = e] /\ task' = [task EXCEPT ![r] = Server!Idle]
          /\ UNCHANGED chain /\ task[r].op = "open"
      BY <1>4 DEF Server!OpenCommit, Server!UpdateChannel, Server!Finish
    <2> HIDE DEF e
    <2>5. Wrote(r, e)
      BY <2>3, <2>4 DEF Wrote
    <2>6. QED BY <1>1, <2>2, <2>4, <2>5
  <1>5. CASE Server!TopUpCheck(r)
    <2> DEFINE p == [op |-> "topUp", channel |-> c, deposit |-> chain[c].deposit]
    <2>1. chain[c].deposit \in Server!Amounts
      BY <1>2 DEF TypeOK, Server!TypeOK, Server!OnChainChannel
    <2>2. p \in Server!TopUpCommitting /\ p.channel = c
      BY <1>2, <2>1 DEF Server!TopUpCommitting
    <2>3. Server!Known(c)
      BY <1>3, <1>5 DEF Server!TopUpCheck
    <2>4. QED BY <1>1, <1>5, <2>2, <2>3 DEF Server!TopUpCheck
  <1>6. CASE Server!TopUpRefuse(r)
    BY <1>1, <1>6 DEF Server!TopUpRefuse, Server!Finish
  <1>7. CASE Server!TopUpCommit(r)
    <2> DEFINE e == [store[c] EXCEPT !.deposit = task[r].deposit]
    <2>1. task[r] \in Server!TopUpCommitting /\ Server!Known(c)
          /\ store[c] \in Server!ChannelState
      BY <1>3, <1>7, TaskFacts DEF Server!TopUpCommit
    <2>2. e \in Server!ChannelState /\ e.highest = store[c].highest
      BY <2>1 DEF Server!ChannelState, Server!TopUpCommitting
    <2>3. store' = [store EXCEPT ![c] = e] /\ task' = [task EXCEPT ![r] = Server!Idle]
          /\ UNCHANGED chain
      BY <1>7 DEF Server!TopUpCommit, Server!Credited, Server!UpdateChannel, Server!Finish
    <2> HIDE DEF e
    <2>4. Wrote(r, e)
      BY <2>1, <2>2 DEF Wrote
    <2>5. QED BY <1>1, <2>2, <2>3, <2>4
  <1>8. CASE Server!VoucherCommit(r)
    <2> DEFINE e == Server!Raised(store[c], task[r].amount, task[r].signature)
    <2>1. task[r] \in Server!VoucherCommitting /\ Server!Known(c)
          /\ store[c] \in Server!ChannelState /\ task[r].op = "voucher"
      BY <1>3, <1>8, TaskFacts DEF Server!VoucherCommit
    <2>2. e \in Server!ChannelState /\ e.highest \in {task[r].amount, store[c].highest}
      BY <2>1 DEF Server!ChannelState, Server!VoucherCommitting, Server!Raised
    <2>3. store' = [store EXCEPT ![c] = e] /\ task' = [task EXCEPT ![r] = Server!Idle]
          /\ UNCHANGED chain
      BY <1>8 DEF Server!VoucherCommit, Server!UpdateChannel, Server!Finish
    <2> HIDE DEF e
    <2>4. Wrote(r, e)
      BY <2>1, <2>2 DEF Wrote
    <2>5. QED BY <1>1, <2>2, <2>3, <2>4
  <1>9. CASE Server!CloseCommit(r)
    <2> DEFINE e == [store[c] EXCEPT !.highest = task[r].amount,
                                     !.signature = task[r].signature,
                                     !.finalized = TRUE]
    <2>1. task[r] \in Server!CloseCommitting /\ Server!Known(c)
          /\ store[c] \in Server!ChannelState /\ task[r].op = "close"
      BY <1>3, <1>9, TaskFacts DEF Server!CloseCommit
    <2>2. e \in Server!ChannelState /\ e.highest = task[r].amount
      BY <2>1 DEF Server!ChannelState, Server!CloseCommitting
    <2>3. store' = [store EXCEPT ![c] = e] /\ task' = [task EXCEPT ![r] = Server!Idle]
          /\ UNCHANGED chain
      BY <1>9 DEF Server!CloseCommit, Server!UpdateChannel, Server!Finish
    <2> HIDE DEF e
    <2>4. Wrote(r, e)
      BY <2>1, <2>2 DEF Wrote
    <2>5. QED BY <1>1, <2>2, <2>3, <2>4
  <1>10. QED BY <1>4, <1>5, <1>6, <1>7, <1>8, <1>9 DEF Server!Proceed

-----------------------------------------------------------------------------
(* What a step may change without a look at who takes it *)

Commits == {"open", "voucher", "close"}

EntryStep ==
    \/ UNCHANGED entry
    \/ /\ entry.opened /\ entry'.opened
       /\ entry'.channel = entry.channel
       /\ entry'.cumulative \in Nat
       /\ entry'.cumulative >= entry.cumulative

(* The store takes over what a handler holds, and loses an entry only when *)
(* no handler is left.                                                     *)
StoreStep(c) ==
    /\ Server!Known(c)' =>
         \/ Server!Known(c) /\ store'[c].highest = store[c].highest
         \/ \E r \in Calls : /\ task[r].op \in Commits
                             /\ task[r].channel = c
                             /\ store'[c].highest = task[r].amount
    /\ Server!Known(c) =>
         Server!Known(c)' \/ \A r \in Calls : task'[r] = Server!Idle

(* A handler takes over what was sent. *)
TaskStep(r) ==
    \/ task'[r] = task[r]
    \/ task'[r] = Server!Idle
    \/ /\ Sent(r)
       /\ Holds(task'[r], call[r].channel)
       /\ task'[r].op \in Commits => task'[r].amount = call[r].amount
    \/ /\ Server!Busy(r)
       /\ Server!Known(task[r].channel)
       /\ task'[r].op = "topUp" /\ task'[r].channel = task[r].channel

(* What is sent was counted. *)
CallStep(r) ==
    /\ Sent(r)' =>
         \/ /\ Sent(r)
            /\ call'[r].channel = call[r].channel
            /\ call'[r].amount = call[r].amount
         \/ /\ entry.opened
            /\ call'[r].channel = entry.channel
            /\ call'[r].amount <= entry'.cumulative
    /\ Submitting(r)' => call'[r] = call[r]

LEMMA Preserved ==
  ASSUME IInv, TypeOK', UNCHANGED submitted, EntryStep,
         \A c \in Channels : StoreStep(c),
         \A r \in Calls : TaskStep(r) /\ CallStep(r)
  PROVE  IInv'
  <1>0. TypeOK /\ Tracked /\ Private /\ Found /\ Counted
    BY DEF IInv
  <1>1. ~Server!Idle.op \in {"open", "topUpWait", "topUp", "voucher", "close"}
    BY DEF Server!Idle
  <1>2. ASSUME NEW c \in Channels, Used(c)'
        PROVE  Used(c)
    <2>1. CASE Server!Known(c)'
      <3>1. CASE \E r \in Calls : task[r].op \in Commits /\ task[r].channel = c
        <4>1. PICK r \in Calls : task[r].op \in Commits /\ task[r].channel = c
          BY <3>1
        <4>2. Server!Busy(r)
          BY <1>1, <4>1 DEF Server!Busy, Commits
        <4>3. QED BY <4>1, <4>2 DEF Used
      <3>2. QED BY <2>1, <3>1 DEF StoreStep, Used
    <2>2. CASE (entry.opened /\ entry.channel = c)'
      BY <2>2 DEF EntryStep, Used
    <2>3. CASE \E r \in Calls : Server!Busy(r)' /\ task'[r].channel = c
      <3>1. PICK r \in Calls : Server!Busy(r)' /\ task'[r].channel = c
        BY <2>3
      <3>2. TaskStep(r)
        OBVIOUS
      <3>3. QED BY <3>1, <3>2 DEF TaskStep, Holds, Used, Server!Busy
    <2>4. CASE \E r \in Calls : Sent(r)' /\ call'[r].channel = c
      BY <2>4 DEF CallStep, Used
    <2>5. QED BY <1>2, <2>1, <2>2, <2>3, <2>4 DEF Used
  <1>3. ASSUME NEW r \in Calls, Submitting(r)'
        PROVE  Submitting(r) /\ call'[r] = call[r] /\ call[r].channel \in Channels
    <2>1. call'[r] = call[r]
      BY <1>3 DEF CallStep
    <2>2. Submitting(r)
      BY <1>3, <2>1 DEF Submitting
    <2>3. QED BY <1>0, <2>1, <2>2, CallFacts
  <1>4. Tracked'
    BY <1>0, <1>2, <1>3 DEF Tracked
  <1>5. Private'
    <2>1. \A r \in Calls, c \in Channels : Submitting(r)' /\ Used(c)' =>
            call'[r].channel # c
      BY <1>0, <1>2, <1>3 DEF Private
    <2>2. \A r \in Calls : \A q \in Calls \ {r} : Submitting(r)' /\ Submitting(q)' =>
            call'[q].channel # call'[r].channel
      BY <1>0, <1>3 DEF Private
    <2>3. QED BY <2>1, <2>2 DEF Private
  <1>6. Found'
    <2>1. ASSUME NEW r \in Calls, NEW c \in Channels, task'[r].channel = c,
                 task'[r].op \in {"topUpWait", "topUp", "voucher", "close"}
          PROVE  Server!Known(c)'
      <3>1. task'[r] # Server!Idle
        BY <1>1, <2>1
      <3>2. Server!Known(c)
        <4>1. CASE task'[r] = task[r]
          BY <1>0, <2>1, <4>1 DEF Found
        <4>2. CASE Sent(r) /\ Holds(task'[r], call[r].channel)
          BY <1>0, <2>1, <4>2 DEF Holds
        <4>3. CASE /\ Server!Known(task[r].channel)
                   /\ task'[r].channel = task[r].channel
          BY <2>1, <4>3
        <4>4. QED BY <3>1, <4>1, <4>2, <4>3 DEF TaskStep
      <3>3. QED BY <3>1, <3>2 DEF StoreStep
    <2>2. QED BY <2>1 DEF Found
  <1>7. Counted'
    <2> SUFFICES ASSUME NEW c \in Channels, entry'.opened, entry'.channel = c
                 PROVE
                   /\ Server!Known(c)' => store'[c].highest <= entry'.cumulative
                   /\ \A r \in Calls : task'[r].op \in Commits /\ task'[r].channel = c
                        => task'[r].amount <= entry'.cumulative
                   /\ \A r \in Calls : Sent(r)' /\ call'[r].channel = c
                        => call'[r].amount <= entry'.cumulative
      BY DEF Counted, Commits
    <2> DEFINE k == entry.cumulative
    <2>1. /\ entry.opened
          /\ entry.channel = c
          /\ k \in Nat /\ entry'.cumulative \in Nat /\ k <= entry'.cumulative
      BY <1>0, EntryFacts, SystemAssumption DEF EntryStep
    <2>2. ASSUME NEW r \in Calls, task[r].op \in Commits, task[r].channel = c
          PROVE  task[r].amount \in Nat /\ task[r].amount <= entry'.cumulative
      <3>1. task[r].amount \in Nat
        BY <1>0, <2>2, TaskFacts, SystemAssumption
        DEF Commits, Server!OpenCommitting, Server!VoucherCommitting,
            Server!CloseCommitting, Server!Amounts
      <3>2. task[r].amount <= k
        BY <1>0, <2>1, <2>2 DEF Counted, Commits
      <3>3. QED BY <2>1, <3>1, <3>2
    <2>3. ASSUME NEW r \in Calls, Sent(r), call[r].channel = c
          PROVE  call[r].amount \in Nat /\ call[r].amount <= entry'.cumulative
      <3>1. call[r].amount \in Nat
        BY <1>0, <2>3, CallFacts, SystemAssumption
      <3>2. call[r].amount <= k
        BY <1>0, <2>1, <2>3 DEF Counted
      <3>3. QED BY <2>1, <3>1, <3>2
    <2>4. Server!Known(c)' => store'[c].highest <= entry'.cumulative
      <3>1. CASE Server!Known(c) /\ store'[c].highest = store[c].highest
        <4>1. store[c].highest \in Nat
          BY <1>0, <2>1, <3>1, StoreFacts, SystemAssumption
        <4>2. store[c].highest <= k
          BY <1>0, <2>1, <3>1 DEF Counted
        <4>3. QED BY <2>1, <3>1, <4>1, <4>2
      <3>2. QED BY <2>2, <3>1 DEF StoreStep
    <2>5. ASSUME NEW r \in Calls, task'[r].op \in Commits, task'[r].channel = c
          PROVE  task'[r].amount <= entry'.cumulative
      <3>1. task'[r] # Server!Idle /\ task'[r].op # "topUp"
        BY <1>1, <2>5 DEF Commits
      <3>2. QED BY <2>2, <2>3, <2>5, <3>1 DEF TaskStep, Holds
    <2>6. ASSUME NEW r \in Calls, Sent(r)', call'[r].channel = c
          PROVE  call'[r].amount <= entry'.cumulative
      BY <2>3, <2>6 DEF CallStep
    <2>7. QED BY <2>1, <2>4, <2>5, <2>6
  <1>8. QED BY <1>4, <1>5, <1>6, <1>7 DEF IInv

-----------------------------------------------------------------------------
(* How a call moves on *)

CallState == Waiting \cup Opening \cup Request \cup {Failed}

LEMMA SentMoves ==
  ASSUME TypeOK, NEW r \in Calls, Sent(r),
         NEW phase \in {"handling", "content", "ok", "refused"}, Goto(r, phase)
  PROVE  call' \in [Calls -> CallState] /\ \A q \in Calls : CallStep(q)
  <1> DEFINE moved == [call[r] EXCEPT !.phase = phase]
  <1>1. call[r] \in Request /\ call \in [Calls -> CallState]
    BY CallFacts DEF TypeOK, CallState
  <1>2. /\ moved \in Request
        /\ moved.phase = phase
        /\ moved.channel = call[r].channel /\ moved.amount = call[r].amount
    BY <1>1 DEF Request
  <1>3. call' = [call EXCEPT ![r] = moved]
    BY DEF Goto
  <1> HIDE DEF moved
  <1>4. call' \in [Calls -> CallState]
    BY <1>1, <1>2, <1>3 DEF CallState
  <1>5. \A q \in Calls : call'[q] = IF q = r THEN moved ELSE call[q]
    BY <1>1, <1>3
  <1>6. ASSUME NEW q \in Calls
        PROVE  CallStep(q)
    BY <1>2, <1>5 DEF CallStep, Sent, Submitting
  <1>7. QED BY <1>4, <1>6

LEMMA CallFails ==
  ASSUME TypeOK, NEW r \in Calls, call' = [call EXCEPT ![r] = Failed]
  PROVE  call' \in [Calls -> CallState] /\ \A q \in Calls : CallStep(q)
  <1>1. call \in [Calls -> CallState] /\ Failed \in CallState
    BY DEF TypeOK, CallState
  <1>2. ~Failed.phase \in {"sent", "handling", "submitted"}
    BY DEF Failed
  <1>3. \A q \in Calls : call'[q] = IF q = r THEN Failed ELSE call[q]
    BY <1>1
  <1>4. ASSUME NEW q \in Calls
        PROVE  CallStep(q)
    BY <1>2, <1>3 DEF CallStep, Sent, Submitting
  <1>5. QED BY <1>1, <1>4

(* A call sends what was counted. *)
LEMMA CallSends ==
  ASSUME TypeOK, NEW r \in Calls, entry.opened,
         NEW op \in Commits, NEW a \in 0..MaxAmount, a <= entry'.cumulative,
         Send(r, op, entry.channel, a)
  PROVE  call' \in [Calls -> CallState] /\ \A q \in Calls : CallStep(q)
  <1> DEFINE sent == [phase |-> "sent", op |-> op, channel |-> entry.channel, amount |-> a]
  <1>1. call \in [Calls -> CallState] /\ entry.channel \in Channels
    BY EntryFacts DEF TypeOK, CallState
  <1>2. sent \in Request /\ sent.channel = entry.channel /\ sent.amount = a
        /\ sent.phase = "sent"
    BY <1>1 DEF Request, Commits, Server!Amounts
  <1>3. call' = [call EXCEPT ![r] = sent]
    BY DEF Send
  <1> HIDE DEF sent
  <1>4. call' \in [Calls -> CallState]
    BY <1>1, <1>2, <1>3 DEF CallState
  <1>5. \A q \in Calls : call'[q] = IF q = r THEN sent ELSE call[q]
    BY <1>1, <1>3
  <1>6. ASSUME NEW q \in Calls
        PROVE  CallStep(q)
    BY <1>2, <1>5 DEF CallStep, Sent, Submitting
  <1>7. QED BY <1>4, <1>6

-----------------------------------------------------------------------------
(* Each action preserves the invariant *)

LEMMA ProviderPreserves ==
  ASSUME IInv, NEW r \in Calls, PayVoucher(r) \/ PayOpen(r) \/ Close(r)
  PROVE  IInv'
  <1>0. TypeOK
    BY DEF IInv
  <1>1. UNCHANGED <<store, task>> /\ UNCHANGED submitted
    BY DEF PayVoucher, PayOpen, Close, server
  <1>2. /\ \A c \in Channels : StoreStep(c)
        /\ \A q \in Calls : TaskStep(q)
    BY <1>1 DEF StoreStep, TaskStep, Server!Known
  <1>3. EntryStep /\ TypeOK' /\ \A q \in Calls : CallStep(q)
    <2>1. CASE PayVoucher(r)
      <3>1. entry \in ChannelEntry /\ entry.cumulative \in Nat /\ entry.opened
        BY <1>0, <2>1, EntryFacts, SystemAssumption DEF PayVoucher
      <3>2. /\ NextAmount(entry) \in 0..MaxAmount
            /\ NextAmount(entry) = entry.cumulative + Price
        BY <2>1, <3>1, SystemAssumption DEF PayVoucher, Fits, NextAmount
      <3>3. entry' \in ChannelEntry /\ entry'.cumulative = NextAmount(entry)
            /\ entry'.opened /\ entry'.channel = entry.channel
        BY <2>1, <3>1, <3>2 DEF PayVoucher, ChannelEntry, Server!Amounts
      <3>4. EntryStep
        BY <3>1, <3>2, <3>3, SystemAssumption DEF EntryStep
      <3>5. call' \in [Calls -> CallState] /\ \A q \in Calls : CallStep(q)
        BY <1>0, <2>1, <3>1, <3>2, <3>3, CallSends DEF PayVoucher, Commits
      <3>6. QED BY <1>0, <2>1, <3>3, <3>4, <3>5
            DEF PayVoucher, TypeOK, CallState, Server!TypeOK, server
    <2>2. CASE PayOpen(r)
      <3> DEFINE moved == [call[r] EXCEPT !.phase = "opening"]
      <3>1. call[r] \in Waiting /\ call \in [Calls -> CallState]
        BY <1>0, <2>2, CallFacts DEF PayOpen, TypeOK, CallState
      <3>2. moved \in Waiting /\ moved.phase = "opening"
        BY <3>1 DEF Waiting
      <3>3. call' = [call EXCEPT ![r] = moved]
        BY <2>2 DEF PayOpen, Goto
      <3> HIDE DEF moved
      <3>4. call' \in [Calls -> CallState]
            /\ \A q \in Calls : call'[q] = IF q = r THEN moved ELSE call[q]
        BY <3>1, <3>2, <3>3 DEF CallState
      <3>5. \A q \in Calls : CallStep(q)
        BY <3>2, <3>4 DEF CallStep, Sent, Submitting
      <3>6. QED BY <1>0, <2>2, <3>4, <3>5
            DEF PayOpen, TypeOK, CallState, Server!TypeOK, server, EntryStep
    <2>3. CASE Close(r)
      <3>1. entry.cumulative \in 0..MaxAmount /\ entry.opened /\ UNCHANGED entry
            /\ entry.cumulative <= entry'.cumulative
        BY <1>0, <2>3, EntryFacts, SystemAssumption DEF Close
      <3>2. call' \in [Calls -> CallState] /\ \A q \in Calls : CallStep(q)
        BY <1>0, <2>3, <3>1, CallSends DEF Close, Commits
      <3>3. QED BY <1>0, <2>3, <3>1, <3>2
            DEF Close, TypeOK, CallState, Server!TypeOK, server, EntryStep
    <2>4. QED BY <2>1, <2>2, <2>3
  <1>4. QED BY <1>1, <1>2, <1>3, Preserved

(* A settlement begins or ends: another set of amounts is under way.       *)
LEMMA SettleShape ==
  ASSUME TypeOK, NEW c \in Channels, SettleStart(c) \/ SettleFails(c)
  PROVE  \E s \in Settlement :
           /\ settlement' = [settlement EXCEPT ![c] = s]
           /\ s.paid = settlement[c].paid
           /\ \/ /\ SettleStart(c) /\ Server!Known(c) /\ ~store[c].finalized
                 /\ s.closing = settlement[c].closing \cup {store[c].highest}
              \/ /\ settlement[c].closing # {}
                 /\ s.closing \subseteq settlement[c].closing
  <1>0. settlement[c] \in Settlement
    BY DEF TypeOK
  <1>1. CASE SettleStart(c)
    <2> DEFINE s == [settlement[c] EXCEPT !.closing = @ \cup {store[c].highest}]
    <2>1. store[c].highest \in 0..MaxAmount
      BY <1>1, StoreFacts DEF SettleStart, Server!Accepting
    <2>2. /\ s \in Settlement /\ s.paid = settlement[c].paid
          /\ s.closing = settlement[c].closing \cup {store[c].highest}
      BY <1>0, <2>1 DEF Settlement, Server!Amounts
    <2>3. settlement' = [settlement EXCEPT ![c] = s]
      BY <1>1 DEF SettleStart, SettleAmount
    <2>4. Server!Known(c) /\ ~store[c].finalized
      BY <1>1 DEF SettleStart, Server!Accepting
    <2> HIDE DEF s
    <2>5. QED BY <1>1, <2>2, <2>3, <2>4
  <1>2. CASE SettleFails(c)
    <2>1. PICK a \in settlement[c].closing :
            settlement' = [settlement EXCEPT ![c].closing = @ \ {a}]
      BY <1>2 DEF SettleFails
    <2> DEFINE s == [settlement[c] EXCEPT !.closing = @ \ {a}]
    <2>2. /\ s \in Settlement /\ s.paid = settlement[c].paid
          /\ s.closing \subseteq settlement[c].closing
      BY <1>0 DEF Settlement
    <2>3. settlement' = [settlement EXCEPT ![c] = s]
      BY <2>1
    <2> HIDE DEF s
    <2>4. QED BY <2>1, <2>2, <2>3
  <1>3. QED BY <1>1, <1>2

(* Requests that no handler takes up, and settlements that change neither  *)
(* the chain nor the store.                                                *)
LEMMA AsidePreserves ==
  ASSUME IInv,
         \/ \E r \in Calls : TakeOld(r) \/ Refuse(r)
         \/ \E c \in Channels : SettleStart(c) \/ SettleFails(c)
  PROVE  IInv'
  <1>0. TypeOK
    BY DEF IInv
  <1>1. UNCHANGED <<chain, store, task, entry, submitted>>
    BY DEF TakeOld, Refuse, SettleStart, SettleFails, server
  <1>2. /\ \A c \in Channels : StoreStep(c)
        /\ \A q \in Calls : TaskStep(q)
        /\ EntryStep
        /\ Server!TypeOK' /\ entry' \in ChannelEntry \cup {NoEntry}
        /\ submitted' \subseteq Channels
    BY <1>0, <1>1
    DEF StoreStep, TaskStep, EntryStep, Server!Known, TypeOK, Server!TypeOK
  <1>3. CASE \E r \in Calls : TakeOld(r) \/ Refuse(r)
    <2>1. PICK r \in Calls : TakeOld(r) \/ Refuse(r)
      BY <1>3
    <2>2. Sent(r) /\ UNCHANGED settlement
      BY <2>1 DEF TakeOld, Refuse, Sent
    <2>3. Goto(r, "content") \/ Goto(r, "refused")
      BY <2>1 DEF TakeOld, Refuse
    <2>4. call' \in [Calls -> CallState] /\ \A q \in Calls : CallStep(q)
      BY <1>0, <2>2, <2>3, SentMoves
    <2>5. TypeOK'
      BY <1>0, <1>2, <2>2, <2>4 DEF TypeOK, CallState
    <2>6. QED BY <1>1, <1>2, <2>4, <2>5, Preserved
  <1>4. CASE \E c \in Channels : SettleStart(c) \/ SettleFails(c)
    <2>1. PICK c \in Channels : SettleStart(c) \/ SettleFails(c)
      BY <1>4
    <2>2. UNCHANGED call
      BY <2>1 DEF SettleStart, SettleFails
    <2>3. settlement' \in [Channels -> Settlement]
      <3>1. PICK s \in Settlement : settlement' = [settlement EXCEPT ![c] = s]
        BY <1>0, <2>1, SettleShape
      <3>2. QED BY <1>0, <3>1 DEF TypeOK
    <2>4. TypeOK'
      BY <1>0, <1>2, <2>2, <2>3 DEF TypeOK
    <2>5. \A q \in Calls : CallStep(q)
      BY <2>2 DEF CallStep, Sent, Submitting
    <2>6. QED BY <1>1, <1>2, <2>4, <2>5, Preserved
  <1>5. QED BY <1>3, <1>4

LEMMA FailPreserves ==
  ASSUME IInv, NEW r \in Calls, Fail(r)
  PROVE  IInv'
  <1>0. TypeOK
    BY DEF IInv
  <1>1. UNCHANGED <<chain, store, entry, submitted, settlement>>
        /\ task' = [task EXCEPT ![r] = Server!Idle]
        /\ call' = [call EXCEPT ![r] = Failed]
    BY DEF Fail
  <1>2. call' \in [Calls -> CallState] /\ \A q \in Calls : CallStep(q)
    BY <1>0, <1>1, CallFails
  <1>3. /\ task' \in [Calls -> Server!TaskState]
        /\ \A q \in Calls : task'[q] = task[q] \/ task'[q] = Server!Idle
    BY <1>0, <1>1 DEF TypeOK, Server!TypeOK, Server!TaskState
  <1>4. /\ \A c \in Channels : StoreStep(c)
        /\ \A q \in Calls : TaskStep(q)
        /\ EntryStep
    BY <1>1, <1>3 DEF StoreStep, TaskStep, EntryStep, Server!Known
  <1>5. TypeOK'
    BY <1>0, <1>1, <1>2, <1>3 DEF TypeOK, Server!TypeOK, CallState
  <1>6. QED BY <1>1, <1>2, <1>4, <1>5, Preserved

LEMMA TakePreserves ==
  ASSUME IInv, NEW r \in Calls, Take(r)
  PROVE  IInv'
  <1>0. TypeOK
    BY DEF IInv
  <1>1. /\ Sent(r) /\ call[r].channel \in Channels
        /\ Server!Accept(r, call[r].channel)
        /\ task'[r].amount = call[r].amount
        /\ Goto(r, "handling")
        /\ UNCHANGED <<entry, submitted, settlement>>
    BY <1>0, CallFacts DEF Take, Sent
  <1>2. UNCHANGED <<chain, store>>
    BY <1>0, <1>1, AcceptShape
  <1>3. PICK p \in Server!TaskState :
          Holds(p, call[r].channel) /\ task' = [task EXCEPT ![r] = p]
    BY <1>0, <1>1, AcceptShape
  <1>4. call' \in [Calls -> CallState] /\ \A q \in Calls : CallStep(q)
    BY <1>0, <1>1, SentMoves
  <1>5. /\ task' \in [Calls -> Server!TaskState]
        /\ \A q \in Calls : task'[q] = IF q = r THEN p ELSE task[q]
    BY <1>0, <1>3 DEF TypeOK, Server!TypeOK
  <1>6. \A q \in Calls : TaskStep(q)
    BY <1>1, <1>3, <1>5 DEF TaskStep
  <1>7. /\ \A c \in Channels : StoreStep(c)
        /\ EntryStep
    BY <1>1, <1>2 DEF StoreStep, EntryStep, Server!Known
  <1>8. TypeOK'
    BY <1>0, <1>1, <1>2, <1>4, <1>5 DEF TypeOK, Server!TypeOK, CallState
  <1>9. QED BY <1>1, <1>4, <1>6, <1>7, <1>8, Preserved

LEMMA AnswerPreserves ==
  ASSUME IInv, NEW r \in Calls, Answer(r) \/ AnswerLost(r)
  PROVE  IInv'
  <1>0. TypeOK /\ Found
    BY DEF IInv
  <1>1. Sent(r) /\ Server!Proceed(r) /\ UNCHANGED <<entry, submitted, settlement>>
    BY DEF Answer, AnswerLost, Sent
  <1>2. call' \in [Calls -> CallState] /\ \A q \in Calls : CallStep(q)
    <2>1. Goto(r, "content") \/ Goto(r, "ok") \/ call' = [call EXCEPT ![r] = Failed]
      BY DEF Answer, AnswerLost
    <2>2. QED BY <1>0, <1>1, <2>1, SentMoves, CallFails
  <1> DEFINE d == task[r].channel
  <1>3. /\ Server!Busy(r) /\ UNCHANGED chain
        /\ \/ UNCHANGED store
           \/ \E e \in Server!ChannelState :
                Wrote(r, e) /\ store' = [store EXCEPT ![d] = e]
        /\ \/ task' = [task EXCEPT ![r] = Server!Idle]
           \/ /\ UNCHANGED store
              /\ Server!Known(d)
              /\ \E p \in Server!TopUpCommitting :
                   p.channel = d /\ task' = [task EXCEPT ![r] = p]
    BY <1>0, <1>1, ProceedShape
  <1>4. d \in Channels
    BY <1>0, <1>3, BusyFacts
  <1>5. /\ task' \in [Calls -> Server!TaskState]
        /\ \A q \in Calls : TaskStep(q)
    <2>1. CASE task' = [task EXCEPT ![r] = Server!Idle]
      <3>1. /\ task' \in [Calls -> Server!TaskState]
            /\ \A q \in Calls : task'[q] = task[q] \/ task'[q] = Server!Idle
        BY <1>0, <2>1 DEF TypeOK, Server!TypeOK, Server!TaskState
      <3>2. QED BY <3>1 DEF TaskStep
    <2>2. CASE /\ Server!Known(d)
               /\ \E p \in Server!TopUpCommitting :
                    p.channel = d /\ task' = [task EXCEPT ![r] = p]
      <3>1. PICK p \in Server!TopUpCommitting :
              p.channel = d /\ task' = [task EXCEPT ![r] = p]
        BY <2>2
      <3>2. p \in Server!TaskState /\ p.op = "topUp"
        BY DEF Server!TaskState, Server!TopUpCommitting
      <3>3. /\ task' \in [Calls -> Server!TaskState]
            /\ \A q \in Calls : task'[q] = IF q = r THEN p ELSE task[q]
        BY <1>0, <3>1, <3>2 DEF TypeOK, Server!TypeOK
      <3>4. QED BY <1>3, <2>2, <3>1, <3>2, <3>3 DEF TaskStep
    <2>3. QED BY <1>3, <2>1, <2>2
  <1>6. /\ store' \in [Channels -> Server!ChannelState \cup {Server!NoChannel}]
        /\ \A c \in Channels : StoreStep(c)
    <2>0. store \in [Channels -> Server!ChannelState \cup {Server!NoChannel}]
      BY <1>0 DEF TypeOK, Server!TypeOK
    <2>1. CASE UNCHANGED store
      BY <2>0, <2>1 DEF StoreStep, Server!Known
    <2>2. CASE \E e \in Server!ChannelState :
                 Wrote(r, e) /\ store' = [store EXCEPT ![d] = e]
      <3>1. PICK e \in Server!ChannelState :
              Wrote(r, e) /\ store' = [store EXCEPT ![d] = e]
        BY <2>2
      <3>2. e # Server!NoChannel
        BY DEF Server!ChannelState, Server!NoChannel
      <3>3. /\ store' \in [Channels -> Server!ChannelState \cup {Server!NoChannel}]
            /\ \A c \in Channels : store'[c] = IF c = d THEN e ELSE store[c]
        BY <1>4, <2>0, <3>1
      <3>4. ASSUME NEW c \in Channels
            PROVE  StoreStep(c)
        <4>1. CASE c = d
          BY <3>1, <3>2, <3>3, <4>1 DEF StoreStep, Server!Known, Wrote, Commits
        <4>2. CASE c # d
          BY <3>3, <4>2 DEF StoreStep, Server!Known
        <4>3. QED BY <4>1, <4>2
      <3>5. QED BY <3>3, <3>4
    <2>3. QED BY <1>3, <2>1, <2>2
  <1>7. EntryStep
    BY <1>1 DEF EntryStep
  <1>8. TypeOK'
    BY <1>0, <1>1, <1>2, <1>3, <1>5, <1>6 DEF TypeOK, Server!TypeOK, CallState
  <1>9. QED BY <1>1, <1>2, <1>5, <1>6, <1>7, <1>8, Preserved

LEMMA LandsPreserves ==
  ASSUME IInv, NEW c \in Channels, OpenLands(c) \/ SettleLands(c)
  PROVE  IInv'
  <1>0. TypeOK
    BY DEF IInv
  <1>1. UNCHANGED <<store, task, entry, call, submitted>>
    BY DEF OpenLands, SettleLands, Server!ChainOpen, Server!ChainClose
  <1>2. chain \in [Channels -> Server!OnChainChannel]
    BY <1>0 DEF TypeOK, Server!TypeOK
  <1>3. chain' \in [Channels -> Server!OnChainChannel]
        /\ settlement' \in [Channels -> Settlement]
    <2>1. CASE OpenLands(c)
      <3>1. PICK a \in Server!Amounts : chain' = [chain EXCEPT ![c].deposit = a]
        BY <2>1 DEF OpenLands, Server!ChainOpen
      <3>2. [chain[c] EXCEPT !.deposit = a] \in Server!OnChainChannel
        BY <1>2 DEF Server!OnChainChannel
      <3>3. QED BY <1>0, <1>2, <2>1, <3>1, <3>2 DEF OpenLands, TypeOK
    <2>2. CASE SettleLands(c)
      <3>3. settlement[c] \in Settlement
        BY <1>0 DEF TypeOK
      <3>6. PICK a \in settlement[c].closing :
              settlement' = [settlement EXCEPT ![c] = [closing |-> {}, paid |-> a]]
        BY <2>2 DEF SettleLands
      <3> DEFINE closed == [chain[c] EXCEPT !.finalized = TRUE]
                 done == [closing |-> {}, paid |-> a]
      <3>1. closed \in Server!OnChainChannel
        BY <1>2 DEF Server!OnChainChannel
      <3>2. chain' = [chain EXCEPT ![c] = closed]
            /\ settlement' = [settlement EXCEPT ![c] = done]
        BY <2>2, <3>6 DEF SettleLands, Server!ChainClose
      <3>4. done \in Settlement
        BY <3>3, <3>6 DEF Settlement
      <3> HIDE DEF closed, done
      <3>5. QED BY <1>0, <1>2, <3>1, <3>2, <3>4 DEF TypeOK
    <2>3. QED BY <2>1, <2>2
  <1>4. TypeOK'
    BY <1>0, <1>1, <1>3 DEF TypeOK, Server!TypeOK
  <1>5. /\ \A d \in Channels : StoreStep(d)
        /\ \A q \in Calls : TaskStep(q) /\ CallStep(q)
        /\ EntryStep
    BY <1>1 DEF StoreStep, TaskStep, CallStep, EntryStep, Server!Known, Sent, Submitting
  <1>6. QED BY <1>1, <1>4, <1>5, Preserved

LEMMA RestartPreserves ==
  ASSUME IInv, ServerRestart
  PROVE  IInv'
  <1>0. TypeOK
    BY DEF IInv
  <1>1. /\ store' = [c \in Channels |-> Server!NoChannel]
        /\ task' = [r \in Calls |-> Server!Idle]
        /\ call' = [r \in Calls |->
             IF call[r].phase = "handling" THEN Failed ELSE call[r]]
        /\ UNCHANGED <<chain, entry, submitted, settlement>>
    BY DEF ServerRestart, Server!Restart
  <1>2. TypeOK'
    BY <1>0, <1>1 DEF TypeOK, Server!TypeOK, Server!TaskState
  <1>3. /\ \A c \in Channels : StoreStep(c)
        /\ \A q \in Calls : TaskStep(q)
        /\ EntryStep
    BY <1>1 DEF StoreStep, TaskStep, EntryStep, Server!Known
  <1>4. ~Failed.phase \in {"sent", "handling", "submitted"}
    BY DEF Failed
  <1>5. \A q \in Calls : CallStep(q)
    BY <1>1, <1>4 DEF CallStep, Sent, Submitting
  <1>6. QED BY <1>1, <1>2, <1>3, <1>5, Preserved

(* A new channel is known to nobody yet. *)
LEMMA SubmitPreserves ==
  ASSUME IInv, NEW r \in Calls, SubmitOpen(r)
  PROVE  IInv'
  <1>0. TypeOK /\ Tracked /\ Private /\ Found /\ Counted
    BY DEF IInv
  <1>1. PICK c \in Channels \ submitted :
          /\ submitted' = submitted \cup {c}
          /\ call' = [call EXCEPT ![r] = [phase |-> "submitted", channel |-> c]]
    BY DEF SubmitOpen
  <1>2. UNCHANGED <<chain, store, task, entry, settlement>>
    BY DEF SubmitOpen, server
  <1> DEFINE opening == [phase |-> "submitted", channel |-> c]
  <1>3. opening \in Opening /\ opening.phase = "submitted" /\ opening.channel = c
    BY DEF Opening
  <1>4. call \in [Calls -> CallState] /\ call' = [call EXCEPT ![r] = opening]
    BY <1>0, <1>1 DEF TypeOK, CallState
  <1> HIDE DEF opening
  <1>5. call' \in [Calls -> CallState]
        /\ \A q \in Calls : call'[q] = IF q = r THEN opening ELSE call[q]
    BY <1>3, <1>4 DEF CallState
  <1>6. TypeOK'
    BY <1>0, <1>1, <1>2, <1>5 DEF TypeOK, CallState, Server!TypeOK
  <1>7. \A q \in Calls : Sent(q)' => Sent(q) /\ call'[q] = call[q]
    BY <1>3, <1>5 DEF Sent
  <1>8. \A q \in Calls : Submitting(q)' =>
          \/ q = r /\ call'[q].channel = c
          \/ q # r /\ Submitting(q) /\ call'[q] = call[q] /\ call[q].channel \in submitted
    BY <1>0, <1>3, <1>5 DEF Submitting, Tracked
  <1>9. \A d \in Channels : Used(d)' => Used(d)
    BY <1>2, <1>7 DEF Used, Server!Known, Server!Busy
  <1>10. Tracked'
    BY <1>0, <1>1, <1>8, <1>9 DEF Tracked
  <1>11. Private'
    <2>1. ASSUME NEW q \in Calls, NEW d \in Channels, Submitting(q)', Used(d)'
          PROVE  call'[q].channel # d
      <3>1. Used(d) /\ d \in submitted
        BY <1>0, <1>9, <2>1 DEF Tracked
      <3>2. QED BY <1>0, <1>1, <1>8, <2>1, <3>1 DEF Private
    <2>2. ASSUME NEW q \in Calls, NEW u \in Calls \ {q}, Submitting(q)', Submitting(u)'
          PROVE  call'[u].channel # call'[q].channel
      BY <1>0, <1>1, <1>8, <2>2 DEF Private
    <2>3. QED BY <2>1, <2>2 DEF Private
  <1>12. Found' /\ Counted'
    BY <1>0, <1>2, <1>7 DEF Found, Counted, Server!Known
  <1>13. QED BY <1>6, <1>10, <1>11, <1>12 DEF IInv

(* The entry starts at the first voucher of a channel that nobody else     *)
(* knows.                                                                  *)
LEMMA InsertPreserves ==
  ASSUME IInv, NEW r \in Calls, OpenInsert(r)
  PROVE  IInv'
  <1>0. TypeOK /\ Tracked /\ Private /\ Found /\ Counted
    BY DEF IInv
  <1>c. PICK c \in Channels : c = call[r].channel /\ Submitting(r)
    BY <1>0, CallFacts DEF OpenInsert, Submitting
  <1>1. /\ Submitting(r) /\ c = call[r].channel /\ c \in submitted
        /\ entry' = OpenedEntry(c)
        /\ Send(r, "open", c, Price)
        /\ UNCHANGED <<chain, store, task, submitted, settlement>>
    BY <1>0, <1>c DEF OpenInsert, Tracked, server
  <1>2. Price \in 0..MaxAmount /\ Price \in Nat
    BY SystemAssumption
  <1> DEFINE sent == [phase |-> "sent", op |-> "open", channel |-> c, amount |-> Price]
  <1>3. sent \in Request /\ sent.channel = c /\ sent.amount = Price /\ sent.phase = "sent"
    BY <1>1, <1>2 DEF Request, Server!Amounts
  <1>4. call \in [Calls -> CallState] /\ call' = [call EXCEPT ![r] = sent]
    BY <1>0, <1>1 DEF TypeOK, CallState, Send
  <1> HIDE DEF sent
  <1>5. call' \in [Calls -> CallState]
        /\ \A q \in Calls : call'[q] = IF q = r THEN sent ELSE call[q]
    BY <1>3, <1>4 DEF CallState
  <1>6. entry'.channel = c /\ entry'.cumulative = Price
    BY <1>1 DEF OpenedEntry
  <1>7. entry' \in ChannelEntry
    BY <1>1, <1>2 DEF OpenedEntry, ChannelEntry, Server!Amounts
  <1>8. TypeOK'
    BY <1>0, <1>1, <1>5, <1>7 DEF TypeOK, CallState, Server!TypeOK
  <1>9. \A q \in Calls : Sent(q)' =>
          \/ q = r /\ call'[q].channel = c /\ call'[q].amount = Price
          \/ Sent(q) /\ call'[q] = call[q]
    BY <1>3, <1>5 DEF Sent
  <1>10. \A q \in Calls : Submitting(q)' => q # r /\ Submitting(q) /\ call'[q] = call[q]
    BY <1>3, <1>5 DEF Submitting
  <1>11. \A d \in Channels : Used(d)' => Used(d) \/ d = c
    BY <1>1, <1>6, <1>9 DEF Used, Server!Known, Server!Busy
  <1>12. ~Used(c)
    BY <1>0, <1>1 DEF Private
  <1>13. Tracked'
    BY <1>0, <1>1, <1>10, <1>11 DEF Tracked
  <1>14. Private'
    <2>1. ASSUME NEW q \in Calls, NEW d \in Channels, Submitting(q)', Used(d)'
          PROVE  call'[q].channel # d
      BY <1>0, <1>1, <1>10, <1>11, <2>1 DEF Private
    <2>2. ASSUME NEW q \in Calls, NEW u \in Calls \ {q}, Submitting(q)', Submitting(u)'
          PROVE  call'[u].channel # call'[q].channel
      BY <1>0, <1>10, <2>2 DEF Private
    <2>3. QED BY <2>1, <2>2 DEF Private
  <1>15. Found'
    BY <1>0, <1>1 DEF Found, Server!Known
  <1>16. Counted'
    <2>1. ~Server!Known(c)'
      BY <1>1, <1>12 DEF Used, Server!Known
    <2>2. ASSUME NEW q \in Calls, task'[q].op \in Commits, task'[q].channel = c
          PROVE  FALSE
      <3>1. Server!Busy(q)
        BY <1>1, <2>2 DEF Server!Busy, Server!Idle, Commits
      <3>2. QED BY <1>1, <1>12, <2>2, <3>1 DEF Used
    <2>3. ASSUME NEW q \in Calls, Sent(q)', call'[q].channel = c
          PROVE  call'[q].amount <= Price
      BY <1>2, <1>9, <1>12, <2>3 DEF Used
    <2>4. QED BY <1>6, <2>1, <2>2, <2>3 DEF Counted, Commits
  <1>17. QED BY <1>8, <1>13, <1>14, <1>15, <1>16 DEF IInv

LEMMA StepPreserves ==
  ASSUME IInv, [Next]_vars
  PROVE  IInv'
  <1>1. ASSUME NEW r \in Calls, Provider(r)
        PROVE  IInv'
    BY <1>1, ProviderPreserves, SubmitPreserves, InsertPreserves DEF Provider
  <1>2. ASSUME NEW r \in Calls, Handler(r)
        PROVE  IInv'
    BY <1>2, TakePreserves, AsidePreserves, AnswerPreserves DEF Handler
  <1>3. ASSUME NEW r \in Calls, Loss(r)
        PROVE  IInv'
    BY <1>3, FailPreserves, AnswerPreserves DEF Loss
  <1>4. ASSUME NEW c \in Channels, OpenLands(c) \/ Settle(c)
        PROVE  IInv'
    BY <1>4, LandsPreserves, AsidePreserves DEF Settle
  <1>5. CASE UNCHANGED vars
    BY <1>5 DEF vars, IInv, TypeOK, Server!TypeOK, Tracked, Private, Found, Counted,
       Used, Sent, Submitting, Server!Known, Server!Busy
  <1>6. QED BY <1>1, <1>2, <1>3, <1>4, <1>5, RestartPreserves DEF Next

LEMMA InitEstablishes ==
  ASSUME Init
  PROVE  IInv
  <1>1. ~NoEntry.opened
    BY DEF NoEntry
  <1>2. ~entry.opened
    BY <1>1 DEF Init
  <1>3. /\ \A r \in Calls : ~Sent(r) /\ ~Submitting(r) /\ ~Server!Busy(r)
        /\ \A c \in Channels : ~Server!Known(c)
    BY DEF Init, Server!Init, Sent, Submitting, Server!Busy, Server!Known
  <1>4. \A r \in Calls : task[r] = Server!Idle
    BY DEF Init, Server!Init
  <1>9. NoSettlement \in Settlement
    BY SystemAssumption DEF NoSettlement, Settlement, Server!Amounts
  <1>5. TypeOK
    BY <1>9, SystemAssumption
    DEF Init, Server!Init, TypeOK, Server!TypeOK, Waiting, Server!OnChainChannel,
        Server!Amounts, Server!TaskState
  <1>6. Tracked /\ Private /\ Counted
    BY <1>2, <1>3 DEF Tracked, Private, Counted, Used
  <1>7. Found
    BY <1>4 DEF Found, Server!Idle
  <1>8. QED BY <1>5, <1>6, <1>7 DEF IInv

-----------------------------------------------------------------------------
(* The theorems *)

(* The parts of the state have their types, and no total of the provider    *)
(* or the server leaves the width of an amount, whatever is lost.          *)
THEOREM TypeCorrect == Spec => []TypeOK
  <1>1. IInv => TypeOK
    BY DEF IInv
  <1>2. QED BY <1>1, InitEstablishes, StepPreserves, PTL DEF Spec

(* The server never holds more of the payer's money than the provider has  *)
(* counted for the channel, for any number of calls and channels, whatever *)
(* is lost, repeated or restarted.                                         *)
THEOREM NeverMoreThanCounted == Spec => []HighestIsCounted
  <1>1. IInv => HighestIsCounted
    BY EntryFacts DEF IInv, Counted, HighestIsCounted
  <1>2. QED BY <1>1, InitEstablishes, StepPreserves, PTL DEF Spec

-----------------------------------------------------------------------------
(* Opens that are made alone *)

(* While a channel is being opened there is no entry, so none is replaced; *)
(* each submitted channel has one or is about to have one.                 *)
OpeningNow(r) == call[r].phase \in {"opening", "submitted"}

TrackInv ==
    /\ OpensAlone
    /\ \A r \in Calls : OpeningNow(r) => ~entry.opened
    /\ \A c \in submitted :
         \/ entry.opened /\ entry.channel = c
         \/ \E r \in Calls : Submitting(r) /\ call[r].channel = c
    /\ \A c \in Channels : chain[c].deposit > 0 => c \in submitted

LEMMA TrackInit ==
  ASSUME Init
  PROVE  TrackInv
  <1>1. \A r \in Calls : call[r].phase = "idle"
    BY DEF Init
  <1>2. /\ submitted = {}
        /\ \A c \in Channels : chain[c].deposit = 0
    BY DEF Init, Server!Init
  <1>3. QED BY <1>1, <1>2 DEF TrackInv, OpensAlone, OpeningNow

(* A step that moves no call into or out of an opening. *)
LEMMA TrackKept ==
  ASSUME TrackInv, OpensAlone', UNCHANGED submitted,
         \/ UNCHANGED entry
         \/ entry.opened /\ entry'.opened /\ entry'.channel = entry.channel,
         \A c \in Channels : chain'[c].deposit > 0 => chain[c].deposit > 0 \/ c \in submitted,
         \A r \in Calls : OpeningNow(r) => call'[r] = call[r],
         \A r \in Calls : OpeningNow(r)' => OpeningNow(r) \/ ~entry.opened
  PROVE  TrackInv'
  BY DEF TrackInv, OpeningNow, Submitting

LEMMA TrackStep ==
  ASSUME TypeOK, Found, TrackInv, Reliable, OpensAlone'
  PROVE  TrackInv'
  <1>0. call \in [Calls -> CallState]
    BY DEF TypeOK, CallState
  <1>1. ASSUME NEW r \in Calls, SubmitOpen(r)
        PROVE  TrackInv'
    <2>1. PICK c \in Channels \ submitted :
            /\ submitted' = submitted \cup {c}
            /\ call' = [call EXCEPT ![r] = [phase |-> "submitted", channel |-> c]]
      BY <1>1 DEF SubmitOpen
    <2>2. UNCHANGED <<chain, entry>> /\ call[r].phase = "opening"
      BY <1>1 DEF SubmitOpen, server
    <2>3. \A q \in Calls \ {r} : ~OpeningNow(q)
      BY <2>2 DEF TrackInv, OpensAlone, Alone, Active, OpeningNow
    <2>4. ~entry.opened
      BY <2>2 DEF TrackInv, OpeningNow
    <2>5. submitted = {}
      BY <2>2, <2>3, <2>4 DEF TrackInv, Submitting, OpeningNow
    <2>6. Submitting(r)' /\ call'[r].channel = c
      BY <1>0, <2>1 DEF Submitting
    <2>7. QED BY <2>1, <2>2, <2>4, <2>5, <2>6 DEF TrackInv
  <1>2. ASSUME NEW r \in Calls, OpenInsert(r)
        PROVE  TrackInv'
    <2>1. PICK c \in Channels : c = call[r].channel /\ Submitting(r)
      BY <1>2, CallFacts DEF OpenInsert, Submitting
    <2>2. /\ entry' = OpenedEntry(c)
          /\ Send(r, "open", c, Price)
          /\ UNCHANGED <<chain, submitted>>
      BY <1>2, <2>1 DEF OpenInsert, server
    <2>3. \A q \in Calls \ {r} : ~OpeningNow(q)
      BY <2>1 DEF TrackInv, OpensAlone, Alone, Active, OpeningNow, Submitting
    <2>4. ~entry.opened
      BY <2>1 DEF TrackInv, OpeningNow, Submitting
    <2>5. \A d \in submitted : d = c
      BY <2>1, <2>3, <2>4 DEF TrackInv, OpeningNow, Submitting
    <2>6. entry'.opened /\ entry'.channel = c
      BY <2>2 DEF OpenedEntry
    <2>7. \A q \in Calls : ~OpeningNow(q)'
      BY <1>0, <2>2, <2>3 DEF Send, OpeningNow
    <2>8. QED BY <2>2, <2>5, <2>6, <2>7 DEF TrackInv
  <1>3. ASSUME NEW r \in Calls, PayVoucher(r)
        PROVE  TrackInv'
    <2>1. /\ UNCHANGED <<chain, submitted>>
          /\ entry' = [entry EXCEPT !.cumulative = NextAmount(entry)]
          /\ entry.opened /\ call[r].phase = "idle"
          /\ Send(r, "voucher", entry.channel, NextAmount(entry))
      BY <1>3 DEF PayVoucher, server
    <2>2. entry'.opened /\ entry'.channel = entry.channel
      BY <2>1, EntryFacts DEF ChannelEntry
    <2>3. /\ \A q \in Calls : OpeningNow(q) => call'[q] = call[q]
          /\ \A q \in Calls : OpeningNow(q)' => OpeningNow(q)
      BY <1>0, <2>1 DEF Send, OpeningNow
    <2>4. QED BY <2>1, <2>2, <2>3, TrackKept
  <1>4. ASSUME NEW r \in Calls, PayOpen(r)
        PROVE  TrackInv'
    <2>1. /\ UNCHANGED <<chain, submitted, entry>> /\ ~entry.opened
          /\ call[r].phase = "idle"
          /\ call' = [call EXCEPT ![r].phase = "opening"]
      BY <1>4 DEF PayOpen, server, Goto
    <2>2. \A q \in Calls : OpeningNow(q) => call'[q] = call[q]
      BY <1>0, <2>1 DEF OpeningNow
    <2>3. QED BY <2>1, <2>2, TrackKept
  <1>5. ASSUME NEW r \in Calls, Close(r)
        PROVE  TrackInv'
    <2>1. /\ UNCHANGED <<chain, submitted, entry>>
          /\ call[r].phase = "idle"
          /\ Send(r, "close", entry.channel, entry.cumulative)
      BY <1>5 DEF Close, server
    <2>2. /\ \A q \in Calls : OpeningNow(q) => call'[q] = call[q]
          /\ \A q \in Calls : OpeningNow(q)' => OpeningNow(q)
      BY <1>0, <2>1 DEF Send, OpeningNow
    <2>3. QED BY <2>1, <2>2, TrackKept
  <1>6. ASSUME NEW r \in Calls, Handler(r)
        PROVE  TrackInv'
    <2>1. Sent(r)
      BY <1>6 DEF Handler, Take, TakeOld, Refuse, Answer, Sent
    <2>2. UNCHANGED <<submitted, entry>>
      BY <1>6 DEF Handler, Take, TakeOld, Refuse, Answer
    <2>3. PICK phase \in {"handling", "content", "ok", "refused"} : Goto(r, phase)
      BY <1>6 DEF Handler, Take, TakeOld, Refuse, Answer
    <2>4. UNCHANGED chain
      BY <1>6, <2>1, CallFacts, AcceptShape, ProceedShape
      DEF Handler, Take, TakeOld, Refuse, Answer, server
    <2>5. /\ \A q \in Calls : OpeningNow(q) => call'[q] = call[q]
          /\ \A q \in Calls : OpeningNow(q)' => OpeningNow(q)
      <3> DEFINE moved == [call[r] EXCEPT !.phase = phase]
      <3>1. call[r] \in Request
        BY <2>1, CallFacts
      <3>2. moved.phase = phase
        BY <3>1 DEF Request
      <3>3. call' = [call EXCEPT ![r] = moved]
        BY <2>3 DEF Goto
      <3> HIDE DEF moved
      <3>4. \A q \in Calls : call'[q] = IF q = r THEN moved ELSE call[q]
        BY <1>0, <3>3
      <3>5. QED BY <2>1, <3>2, <3>4 DEF OpeningNow, Sent
    <2>6. QED BY <2>2, <2>4, <2>5, TrackKept
  <1>7. ASSUME NEW c \in Channels, OpenLands(c) \/ Settle(c)
        PROVE  TrackInv'
    <2>1. UNCHANGED <<submitted, entry, call>>
      BY <1>7 DEF OpenLands, Settle, SettleStart, SettleLands, SettleFails
    <2>2. \A d \in Channels : chain'[d].deposit > 0 =>
            chain[d].deposit > 0 \/ d \in submitted
      <3>1. chain \in [Channels -> Server!OnChainChannel]
        BY DEF TypeOK, Server!TypeOK
      <3>2. CASE OpenLands(c)
        <4>1. c \in submitted
          BY <3>2 DEF OpenLands
        <4>2. \A d \in Channels \ {c} : chain'[d] = chain[d]
          BY <3>1, <3>2 DEF OpenLands, Server!ChainOpen
        <4>3. QED BY <4>1, <4>2
      <3>3. CASE SettleLands(c)
        <4> DEFINE closed == [chain[c] EXCEPT !.finalized = TRUE]
        <4>1. closed.deposit = chain[c].deposit
          BY <3>1 DEF Server!OnChainChannel
        <4>2. chain' = [chain EXCEPT ![c] = closed]
          BY <3>3 DEF SettleLands, Server!ChainClose
        <4> HIDE DEF closed
        <4>3. QED BY <3>1, <4>1, <4>2
      <3>4. CASE SettleStart(c) \/ SettleFails(c)
        BY <3>4 DEF SettleStart, SettleFails, server
      <3>5. QED BY <1>7, <3>2, <3>3, <3>4 DEF Settle
    <2>3. \A q \in Calls : OpeningNow(q)' => OpeningNow(q)
      BY <2>1 DEF OpeningNow
    <2>4. QED BY <2>1, <2>2, <2>3, TrackKept
  <1>8. QED BY <1>1, <1>2, <1>3, <1>4, <1>5, <1>6, <1>7 DEF Reliable, Provider

(* Where nothing is lost and opens are made alone, each deposit stays      *)
(* within reach of close, for any number of calls and channels.            *)
THEOREM DepositsAreTracked == DeployedSpec => []OpenedIsTracked
  <1> DEFINE P == {"reliable", "opens alone"} \subseteq premises
             DInv == IInv /\ (P => TrackInv)
  <1>1. DeployedInit => DInv
    BY InitEstablishes, TrackInit DEF DeployedInit
  <1>2. DInv /\ [DeployedNext]_DeployedVars => DInv'
    <2> SUFFICES ASSUME DInv, [DeployedNext]_DeployedVars
                 PROVE  DInv'
      OBVIOUS
    <2>1. IInv'
      BY StepPreserves DEF DeployedNext, DeployedVars, vars
    <2>2. P' => P
      BY DEF DeployedNext, DeployedVars
    <2>3. ASSUME P, TrackInv
          PROVE  TrackInv'
      <3>1. CASE DeployedNext
        <4>1. Reliable /\ OpensAlone'
          BY <2>3, <3>1 DEF DeployedNext, Observed
        <4>2. QED BY <2>3, <4>1, TrackStep DEF IInv
      <3>2. CASE UNCHANGED DeployedVars
        BY <2>3, <3>2 DEF DeployedVars, vars, TrackInv, OpensAlone, Alone, Active,
           OpeningNow, Submitting
      <3>3. QED BY <3>1, <3>2
    <2>4. QED BY <2>1, <2>2, <2>3
  <1>3. DInv => OpenedIsTracked
    BY DEF TrackInv, OpenedIsTracked, FundedIsTracked, Submitting, Channel
  <1>4. QED BY <1>1, <1>2, <1>3, PTL DEF DeployedSpec

-----------------------------------------------------------------------------
(***************************************************************************)
(* Whatever a session serves was paid for: on a store that survives, and   *)
(* with closes made alone, the requests that were answered on a channel    *)
(* are covered by its highest voucher, for any number of calls, channels   *)
(* and amounts, though vouchers overtake each other and are lost.          *)
(***************************************************************************)

(* The inductive invariant *)

Requested(r) ==
    call[r].phase \in {"sent", "handling", "content", "ok", "refused"}

Paying(r) == Requested(r) /\ call[r].op # "close"

Served(r) == call[r].phase \in {"content", "ok"} /\ call[r].op # "close"

(* Totals are multiples of the price. *)
Multiples == {Price * k : k \in Nat \ {0}}

(* A handler is at work for a request exactly, with what that sent.        *)
Linked == \A r \in Calls :
    /\ Server!Busy(r) <=> call[r].phase = "handling"
    /\ Server!Busy(r) => /\ task[r].op = call[r].op
                         /\ task[r].channel = call[r].channel
                         /\ task[r].amount = call[r].amount

(* The requests that pay on one channel have totals of their own, each     *)
(* counted by the provider, whatever became of them.                       *)
Requests ==
    /\ entry.opened => entry.cumulative \in Multiples
    /\ \A r \in Calls : Requested(r) =>
         /\ call[r].channel \in submitted
         /\ entry.opened /\ entry.channel = call[r].channel
              => call[r].amount <= entry.cumulative
    /\ \A r, q \in Calls : Submitting(r) /\ Requested(q)
         => call[r].channel # call[q].channel
    /\ \A r \in Calls : Paying(r) =>
         /\ call[r].amount \in Multiples
         /\ call[r].op = "open" => call[r].amount = Price
    /\ \A r, q \in Calls : Paying(r) /\ Paying(q) /\ r # q
         /\ call[r].channel = call[q].channel => call[r].amount # call[q].amount

(* An open is handled once: before, the store does not know its channel.    *)
Unopened == \A r \in Calls, c \in Channels :
    Sent(r) /\ call[r].op = "open" /\ call[r].channel = c => ~Server!Known(c)

(* A close covers all that was counted, and nothing is counted beside it.  *)
CloseCovers == \A r \in Calls : Closing(r) =>
    /\ entry.opened
    /\ call[r].channel = entry.channel
    /\ call[r].amount = entry.cumulative

ServedCovered == \A r \in Calls, c \in Channels :
    Served(r) /\ call[r].channel = c =>
        Server!Known(c) /\ call[r].amount <= store[c].highest

PaidInv == ClosesAlone /\ CloseCovers /\ ServedCovered

-----------------------------------------------------------------------------
(* What types say *)

LEMMA RequestFacts ==
  ASSUME TypeOK, NEW r \in Calls, Requested(r)
  PROVE  /\ call[r] \in Request
         /\ call[r].channel \in Channels
         /\ call[r].amount \in Nat
         /\ call[r].op \in Commits
  <1>1. call[r] \in Request
    BY DEF TypeOK, Requested, Waiting, Opening, Failed
  <1>2. QED BY <1>1, SystemAssumption DEF Request, Server!Amounts, Commits

LEMMA GotoShape ==
  ASSUME TypeOK, NEW r \in Calls, Sent(r),
         NEW phase \in {"handling", "content", "ok", "refused"}, Goto(r, phase)
  PROVE  /\ call'[r].phase = phase
         /\ call'[r].op = call[r].op
         /\ call'[r].channel = call[r].channel
         /\ call'[r].amount = call[r].amount
         /\ \A q \in Calls \ {r} : call'[q] = call[q]
  <1> DEFINE moved == [call[r] EXCEPT !.phase = phase]
  <1>1. call[r] \in Request /\ call \in [Calls -> CallState]
    BY CallFacts DEF TypeOK, CallState
  <1>2. /\ moved.phase = phase /\ moved.op = call[r].op
        /\ moved.channel = call[r].channel /\ moved.amount = call[r].amount
    BY <1>1 DEF Request
  <1>3. call' = [call EXCEPT ![r] = moved]
    BY DEF Goto
  <1> HIDE DEF moved
  <1>4. \A q \in Calls : call'[q] = IF q = r THEN moved ELSE call[q]
    BY <1>1, <1>3
  <1>5. QED BY <1>2, <1>4

(* A voucher never lowers the highest one; an open or a close puts its own *)
(* total in its place.                                                     *)
LEMMA CommitShape ==
  ASSUME TypeOK, Found, NEW r \in Calls, Server!Proceed(r), task[r].op \in Commits,
         NEW c \in Channels, task[r].channel = c
  PROVE  /\ task' = [task EXCEPT ![r] = Server!Idle]
         /\ \A d \in Channels \ {c} : store'[d] = store[d]
         /\ Server!Known(c)'
         /\ store'[c].highest \in Nat
         /\ task[r].op \in {"open", "close"} => store'[c].highest = task[r].amount
         /\ task[r].op # "open" => Server!Known(c)
         /\ task[r].op = "voucher" =>
              /\ task[r].amount <= store'[c].highest
              /\ store[c].highest <= store'[c].highest
  <1>0. store \in [Channels -> Server!ChannelState \cup {Server!NoChannel}]
    BY DEF TypeOK, Server!TypeOK
  <1>1. \A e \in Server!ChannelState : e # Server!NoChannel /\ e.highest \in Nat
    BY SystemAssumption DEF Server!ChannelState, Server!NoChannel, Server!Amounts
  <1>2. ASSUME NEW e \in Server!ChannelState, store' = [store EXCEPT ![c] = e]
        PROVE  /\ \A d \in Channels \ {c} : store'[d] = store[d]
               /\ Server!Known(c)' /\ store'[c] = e /\ store'[c].highest \in Nat
    BY <1>0, <1>1, <1>2 DEF Server!Known
  <1>3. task[r].op \in {"voucher", "close"} =>
          Server!Known(c) /\ store[c] \in Server!ChannelState
    BY StoreFacts DEF Found
  <1>4. CASE Server!OpenCommit(r)
    <2> DEFINE e == [signer |-> task[r].key, deposit |-> task[r].deposit,
                     highest |-> task[r].amount, signature |-> task[r].signature,
                     spent |-> 0, finalized |-> FALSE]
    <2>1. task[r] \in Server!OpenCommitting
      BY <1>4, TaskFacts DEF Server!OpenCommit
    <2>2. e \in Server!ChannelState
      BY <2>1, SystemAssumption
      DEF Server!OpenCommitting, Server!ChannelState, Server!Amounts
    <2>3. e.highest = task[r].amount
      OBVIOUS
    <2>4. store' = [store EXCEPT ![c] = e] /\ task' = [task EXCEPT ![r] = Server!Idle]
          /\ task[r].op = "open"
      BY <1>4 DEF Server!OpenCommit, Server!UpdateChannel, Server!Finish
    <2> HIDE DEF e
    <2>5. QED BY <1>2, <2>2, <2>3, <2>4
  <1>5. CASE Server!VoucherCommit(r)
    <2> DEFINE e == Server!Raised(store[c], task[r].amount, task[r].signature)
    <2>1. task[r] \in Server!VoucherCommitting /\ Server!Known(c)
          /\ store[c] \in Server!ChannelState /\ task[r].op = "voucher"
      BY <1>3, <1>5, TaskFacts DEF Server!VoucherCommit
    <2>2. task[r].amount \in Nat /\ store[c].highest \in Nat
      BY <2>1, SystemAssumption
      DEF Server!VoucherCommitting, Server!ChannelState, Server!Amounts
    <2>3. e \in Server!ChannelState
      BY <2>1 DEF Server!ChannelState, Server!VoucherCommitting, Server!Raised
    <2>4. e.highest = IF task[r].amount > store[c].highest
                      THEN task[r].amount ELSE store[c].highest
      BY <2>1 DEF Server!ChannelState, Server!Raised
    <2>5. store' = [store EXCEPT ![c] = e] /\ task' = [task EXCEPT ![r] = Server!Idle]
      BY <1>5 DEF Server!VoucherCommit, Server!UpdateChannel, Server!Finish
    <2> HIDE DEF e
    <2>6. task[r].amount <= e.highest /\ store[c].highest <= e.highest
      BY <2>2, <2>4
    <2>7. store'[c] = e /\ store'[c].highest \in Nat /\ Server!Known(c)'
          /\ \A d \in Channels \ {c} : store'[d] = store[d]
      BY <1>2, <2>3, <2>5
    <2>8. QED BY <2>1, <2>5, <2>6, <2>7
  <1>6. CASE Server!CloseCommit(r)
    <2> DEFINE e == [store[c] EXCEPT !.highest = task[r].amount,
                                     !.signature = task[r].signature,
                                     !.finalized = TRUE]
    <2>1. task[r] \in Server!CloseCommitting /\ Server!Known(c)
          /\ store[c] \in Server!ChannelState /\ task[r].op = "close"
      BY <1>3, <1>6, TaskFacts DEF Server!CloseCommit
    <2>2. e \in Server!ChannelState /\ e.highest = task[r].amount
      BY <2>1 DEF Server!ChannelState, Server!CloseCommitting
    <2>3. store' = [store EXCEPT ![c] = e] /\ task' = [task EXCEPT ![r] = Server!Idle]
      BY <1>6 DEF Server!CloseCommit, Server!UpdateChannel, Server!Finish
    <2> HIDE DEF e
    <2>4. QED BY <1>2, <2>1, <2>2, <2>3
  <1>7. QED BY <1>4, <1>5, <1>6
        DEF Server!Proceed, Server!TopUpCheck, Server!TopUpRefuse, Server!TopUpCommit,
            Commits

-----------------------------------------------------------------------------
(* Steps that bring no request *)

ServedInv == Linked /\ Requests /\ Unopened

(* The premises carry what is served over the step. *)
KeepsPaid == PaidInv /\ Durable /\ ClosesAlone' => PaidInv'

Same(r) ==
    /\ call'[r].op = call[r].op
    /\ call'[r].channel = call[r].channel
    /\ call'[r].amount = call[r].amount

Moved(r) ==
    /\ Requested(r)' => Requested(r) /\ Same(r)
    /\ Sent(r)' => Sent(r)
    /\ Submitting(r)' => Submitting(r) /\ call'[r] = call[r]

LEMMA GotoMoves ==
  ASSUME TypeOK, NEW r \in Calls, Sent(r),
         NEW phase \in {"handling", "content", "ok", "refused"}, Goto(r, phase)
  PROVE  \A q \in Calls : Moved(q)
  BY GotoShape DEF Moved, Same, Requested, Sent, Submitting

LEMMA FailMoves ==
  ASSUME TypeOK, NEW r \in Calls, call' = [call EXCEPT ![r] = Failed]
  PROVE  /\ \A q \in Calls : Moved(q)
         /\ call'[r].phase = "failed"
         /\ \A q \in Calls \ {r} : call'[q] = call[q]
  <1>1. Failed.phase = "failed"
    BY DEF Failed
  <1>2. \A q \in Calls : call'[q] = IF q = r THEN Failed ELSE call[q]
    BY DEF TypeOK
  <1>3. QED BY <1>1, <1>2 DEF Moved, Same, Requested, Sent, Submitting

LEMMA MovesKeep ==
  ASSUME Requests, UNCHANGED <<entry, submitted>>, \A r \in Calls : Moved(r)
  PROVE  Requests' /\ (CloseCovers => CloseCovers')
  <1>1. \A r \in Calls : Requested(r)' => Requested(r) /\ Same(r)
    BY DEF Moved
  <1>2. \A r \in Calls : Paying(r)' => Paying(r) /\ Same(r)
    BY <1>1 DEF Paying, Same
  <1>3. \A r \in Calls : Submitting(r)' => Submitting(r) /\ call'[r] = call[r]
    BY DEF Moved
  <1>4. \A r \in Calls : Closing(r)' => Closing(r) /\ Same(r)
    BY <1>1 DEF Closing, Active, Moved, Sent, Requested, Same
  <1>5. CloseCovers => CloseCovers'
    BY <1>4 DEF CloseCovers, Same
  <1>6. (entry.opened => entry.cumulative \in Multiples)'
    BY DEF Requests, Multiples
  <1>7. \A r \in Calls : Requested(r)' =>
          /\ call'[r].channel \in submitted'
          /\ entry'.opened /\ entry'.channel = call'[r].channel
               => call'[r].amount <= entry'.cumulative
    BY <1>1 DEF Requests, Same
  <1>8. \A r, q \in Calls : Submitting(r)' /\ Requested(q)'
          => call'[r].channel # call'[q].channel
    BY <1>1, <1>3 DEF Requests, Same
  <1>9. \A r \in Calls : Paying(r)' =>
          /\ call'[r].amount \in Multiples'
          /\ call'[r].op = "open" => call'[r].amount = Price
    BY <1>2 DEF Requests, Same, Multiples
  <1>10. \A r, q \in Calls : Paying(r)' /\ Paying(q)' /\ r # q
           /\ call'[r].channel = call'[q].channel => call'[r].amount # call'[q].amount
    BY <1>2 DEF Requests, Same
  <1>11. QED BY <1>5, <1>6, <1>7, <1>8, <1>9, <1>10 DEF Requests

(* The store is left as it is. *)
LEMMA AsideKeeps ==
  ASSUME ServedInv, UNCHANGED <<store, entry, submitted>>, Linked',
         \A r \in Calls : Moved(r),
         \A r \in Calls : Served(r)' => Served(r) \/
             \A c \in Channels : call[r].channel = c =>
                 Server!Known(c) /\ call[r].amount <= store[c].highest
  PROVE  ServedInv' /\ KeepsPaid
  <1>1. Requests' /\ (CloseCovers => CloseCovers')
    BY MovesKeep DEF ServedInv
  <1>2. \A r \in Calls : (Sent(r)' => Sent(r)) /\ (Sent(r)' => Same(r))
    BY DEF Moved, Sent, Requested
  <1>3. Unopened'
    BY <1>2 DEF ServedInv, Unopened, Same, Server!Known
  <1>4. \A r \in Calls : Served(r)' => Same(r)
    BY DEF Moved, Served, Requested
  <1>5. ServedCovered => ServedCovered'
    BY <1>4 DEF ServedCovered, Same, Server!Known
  <1>6. QED BY <1>1, <1>3, <1>5 DEF ServedInv, KeepsPaid, PaidInv

(* No handler is begun or done. *)
LEMMA StillLinked ==
  ASSUME Linked, UNCHANGED task, \A r \in Calls : Moved(r),
         \A r \in Calls : call[r].phase = "handling" <=> call'[r].phase = "handling"
  PROVE  Linked'
  <1>1. \A r \in Calls : call'[r].phase = "handling" => Same(r)
    BY DEF Moved, Requested
  <1>2. QED BY <1>1 DEF Linked, Same, Server!Busy

(* A request is taken up: the handler holds what was sent. *)
LEMMA TakeKeeps ==
  ASSUME IInv, ServedInv, NEW r \in Calls, Take(r)
  PROVE  ServedInv' /\ KeepsPaid
  <1>0. TypeOK /\ Linked
    BY DEF IInv, ServedInv
  <1>1. Sent(r) /\ Goto(r, "handling") /\ UNCHANGED <<entry, submitted>>
        /\ call[r].phase = "sent"
    BY DEF Take, Sent
  <1>2. PICK c \in Channels : c = call[r].channel
    BY <1>0, <1>1, CallFacts
  <1>3. Server!Accept(r, c) /\ task'[r].op = call[r].op /\ task'[r].amount = call[r].amount
    BY <1>2 DEF Take
  <1>4. PICK p \in Server!TaskState : Holds(p, c) /\ task' = [task EXCEPT ![r] = p]
    BY <1>0, <1>3, AcceptShape
  <1>5. UNCHANGED store
    BY <1>0, <1>3, AcceptShape
  <1>6. \A q \in Calls : task'[q] = IF q = r THEN p ELSE task[q]
    BY <1>0, <1>4 DEF TypeOK, Server!TypeOK
  <1>7. p # Server!Idle
    BY <1>4 DEF Holds, Server!Idle
  <1>8. /\ Same(r) /\ call'[r].phase = "handling"
        /\ \A q \in Calls \ {r} : call'[q] = call[q]
    BY <1>0, <1>1, GotoShape DEF Same
  <1>9. Linked'
    <2>1. ASSUME NEW q \in Calls \ {r}
          PROVE  /\ Server!Busy(q)' <=> call'[q].phase = "handling"
                 /\ Server!Busy(q)' => /\ task'[q].op = call'[q].op
                                       /\ task'[q].channel = call'[q].channel
                                       /\ task'[q].amount = call'[q].amount
      BY <1>0, <1>6, <1>8, <2>1 DEF Linked, Server!Busy
    <2>2. /\ Server!Busy(r)' /\ call'[r].phase = "handling"
          /\ task'[r].op = call'[r].op
          /\ task'[r].channel = call'[r].channel
          /\ task'[r].amount = call'[r].amount
      BY <1>2, <1>3, <1>4, <1>6, <1>7, <1>8 DEF Holds, Same, Server!Busy
    <2>3. QED BY <2>1, <2>2 DEF Linked
  <1>10. \A q \in Calls : Moved(q)
    BY <1>0, <1>1, GotoMoves
  <1>11. \A q \in Calls : Served(q)' => Served(q)
    BY <1>8 DEF Served
  <1>12. QED BY <1>1, <1>5, <1>9, <1>10, <1>11, AsideKeeps

(* An old voucher is below the highest one. *)
LEMMA TakeOldKeeps ==
  ASSUME IInv, ServedInv, NEW r \in Calls, TakeOld(r)
  PROVE  ServedInv' /\ KeepsPaid
  <1>0. TypeOK /\ Linked
    BY DEF IInv, ServedInv
  <1>1. /\ Sent(r) /\ Goto(r, "content") /\ call[r].phase = "sent"
        /\ UNCHANGED <<store, task, entry, submitted>>
    BY DEF TakeOld, Sent, server
  <1>2. /\ call'[r].phase = "content"
        /\ \A q \in Calls \ {r} : call'[q] = call[q]
    BY <1>0, <1>1, GotoShape
  <1>3. \A q \in Calls : Moved(q)
    BY <1>0, <1>1, GotoMoves
  <1>4. \A q \in Calls : call[q].phase = "handling" <=> call'[q].phase = "handling"
    BY <1>1, <1>2
  <1>5. Linked'
    BY <1>0, <1>1, <1>3, <1>4, StillLinked
  <1>6. \A c \in Channels : call[r].channel = c =>
          Server!Known(c) /\ call[r].amount <= store[c].highest
    BY DEF TakeOld, OldVoucher, Server!Accepting
  <1>7. \A q \in Calls \ {r} : Served(q)' => Served(q)
    BY <1>2 DEF Served
  <1>8. QED BY <1>1, <1>3, <1>5, <1>6, <1>7, AsideKeeps

LEMMA RefuseKeeps ==
  ASSUME IInv, ServedInv, NEW r \in Calls, Refuse(r)
  PROVE  ServedInv' /\ KeepsPaid
  <1>0. TypeOK /\ Linked
    BY DEF IInv, ServedInv
  <1>1. /\ Sent(r) /\ Goto(r, "refused") /\ call[r].phase = "sent"
        /\ UNCHANGED <<store, task, entry, submitted>>
    BY DEF Refuse, Sent, server
  <1>2. /\ call'[r].phase = "refused"
        /\ \A q \in Calls \ {r} : call'[q] = call[q]
    BY <1>0, <1>1, GotoShape
  <1>3. \A q \in Calls : Moved(q)
    BY <1>0, <1>1, GotoMoves
  <1>4. \A q \in Calls : call[q].phase = "handling" <=> call'[q].phase = "handling"
    BY <1>1, <1>2
  <1>5. Linked'
    BY <1>0, <1>1, <1>3, <1>4, StillLinked
  <1>6. \A q \in Calls : Served(q)' => Served(q)
    BY <1>2 DEF Served
  <1>7. QED BY <1>1, <1>3, <1>5, <1>6, AsideKeeps

LEMMA FailKeeps ==
  ASSUME IInv, ServedInv, NEW r \in Calls, Fail(r)
  PROVE  ServedInv' /\ KeepsPaid
  <1>0. TypeOK /\ Linked
    BY DEF IInv, ServedInv
  <1>1. /\ call' = [call EXCEPT ![r] = Failed]
        /\ task' = [task EXCEPT ![r] = Server!Idle]
        /\ UNCHANGED <<store, entry, submitted>>
    BY DEF Fail
  <1>2. /\ \A q \in Calls : Moved(q)
        /\ call'[r].phase = "failed"
        /\ \A q \in Calls \ {r} : call'[q] = call[q]
    BY <1>0, <1>1, FailMoves
  <1>3. \A q \in Calls : task'[q] = IF q = r THEN Server!Idle ELSE task[q]
    BY <1>0, <1>1 DEF TypeOK, Server!TypeOK
  <1>4. Linked'
    <2>1. \A q \in Calls \ {r} : Server!Busy(q)' <=> Server!Busy(q)
      BY <1>3 DEF Server!Busy
    <2>2. ~Server!Busy(r)'
      BY <1>3 DEF Server!Busy
    <2>3. QED BY <1>0, <1>2, <1>3, <2>1, <2>2 DEF Linked
  <1>5. \A q \in Calls : Served(q)' => Served(q)
    BY <1>2 DEF Served
  <1>6. QED BY <1>1, <1>2, <1>4, <1>5, AsideKeeps

(* Calls, entry, store and handlers are left alone, or one call has begun  *)
(* to open a channel.                                                      *)
LEMMA AloneKeeps ==
  ASSUME IInv, ServedInv, UNCHANGED <<store, task, entry, submitted>>,
         \/ UNCHANGED call
         \/ \E r \in Calls : PayOpen(r)
  PROVE  ServedInv' /\ KeepsPaid
  <1>0. TypeOK /\ Linked
    BY DEF IInv, ServedInv
  <1>1. \A r \in Calls :
          \/ call'[r] = call[r]
          \/ call'[r].phase = "opening" /\ call[r].phase = "idle"
    <2>1. ASSUME NEW r \in Calls, PayOpen(r)
          PROVE  \A q \in Calls :
                   \/ call'[q] = call[q]
                   \/ call'[q].phase = "opening" /\ call[q].phase = "idle"
      <3> DEFINE moved == [call[r] EXCEPT !.phase = "opening"]
      <3>1. call[r].phase = "idle" /\ call' = [call EXCEPT ![r] = moved]
        BY <2>1 DEF PayOpen, Goto
      <3>2. moved.phase = "opening"
        BY <1>0, <3>1, CallFacts DEF Waiting
      <3> HIDE DEF moved
      <3>3. \A q \in Calls : call'[q] = IF q = r THEN moved ELSE call[q]
        BY <1>0, <3>1 DEF TypeOK
      <3>4. QED BY <3>1, <3>2, <3>3
    <2>2. QED BY <2>1
  <1>2. \A r \in Calls : Moved(r)
    BY <1>1 DEF Moved, Same, Requested, Sent, Submitting
  <1>3. \A r \in Calls : call[r].phase = "handling" <=> call'[r].phase = "handling"
    BY <1>1
  <1>4. Linked'
    BY <1>0, <1>2, <1>3, StillLinked
  <1>5. \A r \in Calls : Served(r)' => Served(r)
    BY <1>1 DEF Served
  <1>6. QED BY <1>2, <1>4, <1>5, AsideKeeps

-----------------------------------------------------------------------------
(* A handler ends *)

LEMMA AnswerKeeps ==
  ASSUME IInv, ServedInv, NEW r \in Calls, Answer(r) \/ AnswerLost(r)
  PROVE  ServedInv' /\ KeepsPaid
  <1>0. TypeOK /\ Found /\ Linked /\ Requests /\ Unopened
    BY DEF IInv, ServedInv
  <1>1. /\ call[r].phase = "handling" /\ Sent(r) /\ Requested(r)
        /\ Server!Proceed(r)
        /\ UNCHANGED <<entry, submitted>>
    BY DEF Answer, AnswerLost, Sent, Requested
  <1>2. PICK c \in Channels : c = call[r].channel
    BY <1>0, <1>1, CallFacts
  <1>3. /\ task[r].op = call[r].op /\ task[r].channel = c
        /\ task[r].amount = call[r].amount
        /\ call[r].op \in Commits
    BY <1>0, <1>1, <1>2, RequestFacts DEF Linked
  <1>4. /\ task' = [task EXCEPT ![r] = Server!Idle]
        /\ \A d \in Channels \ {c} : store'[d] = store[d]
        /\ Server!Known(c)'
        /\ store'[c].highest \in Nat
        /\ call[r].op \in {"open", "close"} => store'[c].highest = call[r].amount
        /\ call[r].op # "open" => Server!Known(c)
        /\ call[r].op = "voucher" =>
             /\ call[r].amount <= store'[c].highest
             /\ store[c].highest <= store'[c].highest
    BY <1>0, <1>1, <1>3, CommitShape
  <1>5. /\ \A q \in Calls : Moved(q)
        /\ call'[r].phase \in {"content", "ok", "failed"}
        /\ \A q \in Calls \ {r} : call'[q] = call[q]
    <2>1. CASE Answer(r)
      <3>1. PICK phase \in {"content", "ok"} : Goto(r, phase)
        BY <2>1 DEF Answer
      <3>2. QED BY <1>0, <1>1, <3>1, GotoMoves, GotoShape
    <2>2. CASE AnswerLost(r)
      BY <1>0, <2>2, FailMoves DEF AnswerLost
    <2>3. QED BY <2>1, <2>2
  <1>6. \A q \in Calls : task'[q] = IF q = r THEN Server!Idle ELSE task[q]
    BY <1>0, <1>4 DEF TypeOK, Server!TypeOK
  <1>7. Linked'
    <2>1. \A q \in Calls \ {r} : Server!Busy(q)' <=> Server!Busy(q)
      BY <1>6 DEF Server!Busy
    <2>2. ~Server!Busy(r)'
      BY <1>6 DEF Server!Busy
    <2>3. QED BY <1>0, <1>5, <1>6, <2>1, <2>2 DEF Linked
  <1>8. Requests' /\ (CloseCovers => CloseCovers')
    BY <1>0, <1>1, <1>5, MovesKeep
  <1>9. Unopened'
    <2> SUFFICES ASSUME NEW q \in Calls, NEW d \in Channels,
                        Sent(q)', call'[q].op = "open", call'[q].channel = d
                 PROVE  ~Server!Known(d)'
      BY DEF Unopened
    <2>1. q # r /\ call'[q] = call[q] /\ Sent(q) /\ Requested(q)
      BY <1>5 DEF Sent, Requested
    <2>2. ~Server!Known(d)
      BY <1>0, <2>1 DEF Unopened
    <2>3. d # c
      <3>1. SUFFICES ASSUME d = c
                     PROVE  FALSE
        OBVIOUS
      <3>2. call[r].op = "open"
        BY <1>4, <2>2, <3>1
      <3>3. Paying(r) /\ Paying(q) /\ call[r].channel = call[q].channel
        BY <1>1, <1>2, <2>1, <3>1, <3>2 DEF Paying
      <3>4. call[r].amount = Price /\ call[q].amount = Price
        BY <1>0, <2>1, <3>2, <3>3 DEF Requests
      <3>5. QED BY <1>0, <2>1, <3>3, <3>4 DEF Requests
    <2>4. QED BY <1>4, <2>2, <2>3 DEF Server!Known
  <1>10. ASSUME CloseCovers, ServedCovered
         PROVE  ServedCovered'
    <2> SUFFICES ASSUME NEW q \in Calls, NEW d \in Channels,
                        Served(q)', call'[q].channel = d
                 PROVE  Server!Known(d)' /\ call'[q].amount <= store'[d].highest
      BY DEF ServedCovered
    <2>1. Requested(q) /\ Same(q)
      BY <1>5 DEF Moved, Served, Requested
    <2>2. CASE d # c
      <3>1. q # r
        BY <1>2, <2>1, <2>2 DEF Same
      <3>2. Served(q) /\ call'[q] = call[q]
        BY <1>5, <3>1 DEF Served
      <3>3. Server!Known(d) /\ call[q].amount <= store[d].highest
        BY <1>10, <3>2 DEF ServedCovered
      <3>4. QED BY <1>4, <2>2, <3>2, <3>3 DEF Server!Known
    <2>3. CASE d = c /\ q = r
      <3>1. call[r].op # "close" /\ call'[r].amount = call[r].amount
        BY <2>1, <2>3 DEF Served, Same
      <3>2. call[r].amount \in Nat
        BY <1>0, <1>1, RequestFacts
      <3>3. QED BY <1>3, <1>4, <2>3, <3>1, <3>2 DEF Commits
    <2>4. CASE d = c /\ q # r
      <3>1. Served(q) /\ call'[q] = call[q] /\ call[q].channel = c
        BY <1>5, <2>4 DEF Served
      <3>2. Server!Known(c) /\ call[q].amount <= store[c].highest
        BY <1>10, <3>1 DEF ServedCovered
      <3>3. call[q].amount \in Nat /\ store[c].highest \in Nat
        BY <1>0, <2>1, <3>2, RequestFacts, StoreFacts, SystemAssumption
      <3>4. call[r].op # "open"
        BY <1>0, <1>1, <1>2, <3>2 DEF Unopened
      <3>5. CASE call[r].op = "voucher"
        BY <1>4, <2>4, <3>1, <3>2, <3>3, <3>5
      <3>6. CASE call[r].op = "close"
        <4>1. Closing(r)
          BY <1>1, <3>6 DEF Closing, Active
        <4>2. /\ entry.opened /\ entry.channel = c
              /\ call[r].amount = entry.cumulative
          BY <1>2, <1>10, <4>1 DEF CloseCovers
        <4>3. call[q].amount <= entry.cumulative
          BY <1>0, <2>1, <3>1, <4>2 DEF Requests
        <4>4. QED BY <1>4, <2>4, <3>1, <3>6, <4>2, <4>3
      <3>7. QED BY <1>3, <3>4, <3>5, <3>6 DEF Commits
    <2>5. QED BY <2>2, <2>3, <2>4
  <1>11. QED BY <1>7, <1>8, <1>9, <1>10 DEF ServedInv, KeepsPaid, PaidInv

-----------------------------------------------------------------------------
(* A request is made *)

(* It is counted, and its total is its own; a close takes the whole total. *)
LEMMA SendKeeps ==
  ASSUME IInv, ServedInv, NEW r \in Calls, ~Requested(r),
         NEW op \in Commits, NEW c \in Channels, NEW a \in Nat, Send(r, op, c, a),
         UNCHANGED <<store, task, submitted>>,
         c \in submitted,
         \A q \in Calls \ {r} : Submitting(q) => call[q].channel # c,
         entry'.opened, entry'.channel = c, entry'.cumulative \in Multiples,
         a <= entry'.cumulative,
         \A q \in Calls : Requested(q) /\ call[q].channel = c
             => call[q].amount <= entry'.cumulative,
         op = "open" => a = Price /\ ~Server!Known(c),
         op = "close" => a = entry'.cumulative,
         op # "close" => /\ a \in Multiples
                         /\ \A q \in Calls : Paying(q) /\ call[q].channel = c
                                => call[q].amount # a
  PROVE  ServedInv' /\ KeepsPaid
  <1>0. TypeOK /\ Linked /\ Requests /\ Unopened
    BY DEF IInv, ServedInv
  <1> DEFINE sent == [phase |-> "sent", op |-> op, channel |-> c, amount |-> a]
  <1>1. sent.phase = "sent" /\ sent.op = op /\ sent.channel = c /\ sent.amount = a
    OBVIOUS
  <1>2. call' = [call EXCEPT ![r] = sent]
    BY DEF Send
  <1> HIDE DEF sent
  <1>3. \A q \in Calls : call'[q] = IF q = r THEN sent ELSE call[q]
    BY <1>0, <1>2 DEF TypeOK
  <1>4. /\ call'[r].phase = "sent" /\ call'[r].op = op
        /\ call'[r].channel = c /\ call'[r].amount = a
        /\ \A q \in Calls \ {r} : call'[q] = call[q]
    BY <1>1, <1>3
  <1>5. \A q \in Calls : Requested(q)' =>
          \/ q = r
          \/ Requested(q) /\ call'[q] = call[q]
    BY <1>4 DEF Requested
  <1>6. \A q \in Calls : Submitting(q)' => q # r /\ Submitting(q) /\ call'[q] = call[q]
    BY <1>4 DEF Submitting
  <1>7. \A q \in Calls : Paying(q)' =>
          \/ q = r /\ op # "close"
          \/ q # r /\ Paying(q) /\ call'[q] = call[q]
    BY <1>4 DEF Paying, Requested
  <1>8. Linked'
    <2>1. ~Server!Busy(r)
      BY <1>0 DEF Linked, Requested
    <2>2. \A q \in Calls : Server!Busy(q)' <=> Server!Busy(q)
      BY DEF Server!Busy
    <2>3. QED BY <1>0, <1>4, <2>1, <2>2 DEF Linked
  <1>9. Requests'
    <2>1. (entry.opened => entry.cumulative \in Multiples)'
      BY DEF Multiples
    <2>2. \A q \in Calls : Requested(q)' =>
            /\ call'[q].channel \in submitted'
            /\ entry'.opened /\ entry'.channel = call'[q].channel
                 => call'[q].amount <= entry'.cumulative
      BY <1>0, <1>4, <1>5 DEF Requests
    <2>3. \A q, u \in Calls : Submitting(q)' /\ Requested(u)'
            => call'[q].channel # call'[u].channel
      BY <1>0, <1>4, <1>5, <1>6 DEF Requests
    <2>4. \A q \in Calls : Paying(q)' =>
            /\ call'[q].amount \in Multiples'
            /\ call'[q].op = "open" => call'[q].amount = Price
      BY <1>0, <1>4, <1>7 DEF Requests, Multiples
    <2>5. \A q, u \in Calls : Paying(q)' /\ Paying(u)' /\ q # u
            /\ call'[q].channel = call'[u].channel => call'[q].amount # call'[u].amount
      BY <1>0, <1>4, <1>7 DEF Requests
    <2>6. QED BY <2>1, <2>2, <2>3, <2>4, <2>5 DEF Requests
  <1>10. Unopened'
    BY <1>0, <1>4 DEF Unopened, Sent, Server!Known
  <1>11. ASSUME ClosesAlone'
         PROVE  CloseCovers'
    <2>1. \A q \in Calls : Closing(q)' => q = r
      BY <1>4, <1>11 DEF ClosesAlone, Alone, Active, Closing
    <2>2. QED BY <1>4, <2>1 DEF CloseCovers, Closing
  <1>12. ServedCovered => ServedCovered'
    BY <1>4 DEF ServedCovered, Served, Server!Known
  <1>13. QED BY <1>8, <1>9, <1>10, <1>11, <1>12 DEF ServedInv, KeepsPaid, PaidInv

(* The total of a voucher exceeds all that were counted before. *)
LEMMA VoucherKeeps ==
  ASSUME IInv, ServedInv, NEW r \in Calls, PayVoucher(r)
  PROVE  ServedInv' /\ KeepsPaid
  <1>0. TypeOK /\ Tracked /\ Private /\ Requests
    BY DEF IInv, ServedInv
  <1>1. /\ call[r].phase = "idle" /\ entry.opened
        /\ entry' = [entry EXCEPT !.cumulative = NextAmount(entry)]
        /\ Send(r, "voucher", entry.channel, NextAmount(entry))
        /\ UNCHANGED <<store, task, submitted>>
    BY DEF PayVoucher, server
  <1>2. /\ entry \in ChannelEntry /\ entry.channel \in Channels
        /\ entry.cumulative \in Nat /\ Price \in Nat \ {0}
    BY <1>0, <1>1, EntryFacts, SystemAssumption
  <1>3. PICK c \in Channels, k \in Nat, a \in Nat :
          /\ c = entry.channel /\ k = entry.cumulative /\ a = NextAmount(entry)
          /\ a = k + Price
    BY <1>2 DEF NextAmount
  <1>4. entry'.opened /\ entry'.channel = c /\ entry'.cumulative = a
    BY <1>1, <1>2, <1>3 DEF ChannelEntry
  <1>5. a \in Multiples
    <2>1. PICK n \in Nat \ {0} : k = Price * n
      BY <1>0, <1>1, <1>3 DEF Requests, Multiples
    <2>2. Price * (n + 1) = Price * n + Price /\ n + 1 \in Nat \ {0}
      BY <1>2
    <2>3. QED BY <1>3, <2>1, <2>2 DEF Multiples
  <1>6. Used(c) /\ c \in submitted
    BY <1>0, <1>1, <1>3 DEF Used, Tracked
  <1>7. \A q \in Calls : Submitting(q) => call[q].channel # c
    BY <1>0, <1>6 DEF Private
  <1>8. \A q \in Calls : Requested(q) /\ call[q].channel = c =>
          call[q].amount <= a /\ call[q].amount # a
    <2> SUFFICES ASSUME NEW q \in Calls, Requested(q), call[q].channel = c
                 PROVE  call[q].amount <= a /\ call[q].amount # a
      OBVIOUS
    <2>1. call[q].amount \in Nat
      BY <1>0, RequestFacts
    <2>2. call[q].amount <= k
      BY <1>0, <1>1, <1>3 DEF Requests
    <2>3. QED BY <1>2, <1>3, <2>1, <2>2
  <1>9. ~Requested(r)
    BY <1>1 DEF Requested
  <1>10. Send(r, "voucher", c, a)
    BY <1>1, <1>3
  <1>11. QED BY <1>1, <1>4, <1>5, <1>6, <1>7, <1>8, <1>9, <1>10, SendKeeps
         DEF Commits, Paying

LEMMA CloseKeeps ==
  ASSUME IInv, ServedInv, NEW r \in Calls, Close(r)
  PROVE  ServedInv' /\ KeepsPaid
  <1>0. TypeOK /\ Tracked /\ Private /\ Requests
    BY DEF IInv, ServedInv
  <1>1. /\ call[r].phase = "idle" /\ entry.opened
        /\ Send(r, "close", entry.channel, entry.cumulative)
        /\ UNCHANGED <<store, task, entry, submitted>>
    BY DEF Close, server
  <1>2. entry.channel \in Channels /\ entry.cumulative \in Nat
    BY <1>0, <1>1, EntryFacts, SystemAssumption
  <1>3. PICK c \in Channels, a \in Nat : c = entry.channel /\ a = entry.cumulative
    BY <1>2
  <1>4. entry'.opened /\ entry'.channel = c /\ entry'.cumulative = a
    BY <1>1, <1>3
  <1>5. a \in Multiples
    BY <1>0, <1>1, <1>3 DEF Requests
  <1>6. Used(c) /\ c \in submitted
    BY <1>0, <1>1, <1>3 DEF Used, Tracked
  <1>7. \A q \in Calls : Submitting(q) => call[q].channel # c
    BY <1>0, <1>6 DEF Private
  <1>8. \A q \in Calls : Requested(q) /\ call[q].channel = c => call[q].amount <= a
    BY <1>0, <1>1, <1>3 DEF Requests
  <1>9. ~Requested(r) /\ Send(r, "close", c, a)
    BY <1>1, <1>3 DEF Requested
  <1>10. QED BY <1>1, <1>3, <1>4, <1>5, <1>6, <1>7, <1>8, <1>9, SendKeeps DEF Commits

(* Nobody has paid on a channel that was just opened. *)
LEMMA InsertKeeps ==
  ASSUME IInv, ServedInv, NEW r \in Calls, OpenInsert(r)
  PROVE  ServedInv' /\ KeepsPaid
  <1>0. TypeOK /\ Tracked /\ Private /\ Requests
    BY DEF IInv, ServedInv
  <1>1. PICK c \in Channels : c = call[r].channel /\ Submitting(r)
    BY <1>0, CallFacts DEF OpenInsert, Submitting
  <1>2. /\ entry' = OpenedEntry(c) /\ Send(r, "open", c, Price)
        /\ UNCHANGED <<store, task, submitted>>
    BY <1>1 DEF OpenInsert, server
  <1>3. entry'.opened /\ entry'.channel = c /\ entry'.cumulative = Price
    BY <1>2 DEF OpenedEntry
  <1>4. c \in submitted /\ ~Used(c) /\ ~Requested(r)
    BY <1>0, <1>1 DEF Tracked, Private, Requested, Submitting
  <1>5. \A q \in Calls \ {r} : Submitting(q) => call[q].channel # c
    BY <1>0, <1>1 DEF Private
  <1>6. \A q \in Calls : Requested(q) => call[q].channel # c
    BY <1>0, <1>1 DEF Requests
  <1>7. Price \in Nat /\ Price \in Multiples /\ Price <= Price
    <2>1. Price \in Nat /\ Price = Price * 1 /\ Price <= Price
      BY SystemAssumption
    <2>2. QED BY <2>1 DEF Multiples
  <1>8. ~Server!Known(c)
    BY <1>4 DEF Used
  <1>9. QED BY <1>2, <1>3, <1>4, <1>5, <1>6, <1>7, <1>8, SendKeeps DEF Commits, Paying

(* The channel of an open was never used. *)
LEMMA SubmitKeeps ==
  ASSUME IInv, ServedInv, NEW r \in Calls, SubmitOpen(r)
  PROVE  ServedInv' /\ KeepsPaid
  <1>0. TypeOK /\ Linked /\ Requests /\ Unopened
    BY DEF IInv, ServedInv
  <1>1. PICK c \in Channels \ submitted :
          /\ submitted' = submitted \cup {c}
          /\ call' = [call EXCEPT ![r] = [phase |-> "submitted", channel |-> c]]
    BY DEF SubmitOpen
  <1>2. UNCHANGED <<store, task, entry>> /\ call[r].phase = "opening"
    BY DEF SubmitOpen, server
  <1>3. /\ call'[r].phase = "submitted" /\ call'[r].channel = c
        /\ \A q \in Calls \ {r} : call'[q] = call[q]
    BY <1>0, <1>1 DEF TypeOK
  <1>4. \A q \in Calls : Requested(q)' => Requested(q) /\ call'[q] = call[q]
    BY <1>3 DEF Requested
  <1>5. \A q \in Calls : Submitting(q)' =>
          \/ q = r /\ call'[q].channel = c
          \/ Submitting(q) /\ call'[q] = call[q]
    BY <1>3 DEF Submitting
  <1>6. Linked'
    <2>1. \A q \in Calls : Server!Busy(q)' <=> Server!Busy(q)
      BY <1>2 DEF Server!Busy
    <2>2. QED BY <1>0, <1>2, <1>3, <2>1 DEF Linked
  <1>7. Requests'
    <2>1. (entry.opened => entry.cumulative \in Multiples)'
      BY <1>0, <1>2 DEF Requests, Multiples
    <2>2. \A q \in Calls : Requested(q)' =>
            /\ call'[q].channel \in submitted'
            /\ entry'.opened /\ entry'.channel = call'[q].channel
                 => call'[q].amount <= entry'.cumulative
      BY <1>0, <1>1, <1>2, <1>4 DEF Requests
    <2>3. \A q, u \in Calls : Submitting(q)' /\ Requested(u)'
            => call'[q].channel # call'[u].channel
      BY <1>0, <1>1, <1>4, <1>5 DEF Requests
    <2>4. \A q \in Calls : Paying(q)' =>
            /\ call'[q].amount \in Multiples'
            /\ call'[q].op = "open" => call'[q].amount = Price
      BY <1>0, <1>4 DEF Requests, Multiples, Paying
    <2>5. \A q, u \in Calls : Paying(q)' /\ Paying(u)' /\ q # u
            /\ call'[q].channel = call'[u].channel => call'[q].amount # call'[u].amount
      BY <1>0, <1>4 DEF Requests, Paying
    <2>6. QED BY <2>1, <2>2, <2>3, <2>4, <2>5 DEF Requests
  <1>8. Unopened'
    BY <1>0, <1>2, <1>3 DEF Unopened, Sent, Server!Known
  <1>9. PaidInv /\ ClosesAlone' => PaidInv'
    BY <1>2, <1>3 DEF PaidInv, CloseCovers, ServedCovered, Served, Closing, Active,
       Server!Known
  <1>10. QED BY <1>6, <1>7, <1>8, <1>9 DEF ServedInv, KeepsPaid

(* The server restarts: its handlers are gone, and the store with them,    *)
(* unless it survives.                                                     *)
LEMMA RestartKeeps ==
  ASSUME IInv, ServedInv, ServerRestart
  PROVE  ServedInv' /\ KeepsPaid
  <1>0. TypeOK /\ Linked /\ Requests
    BY DEF IInv, ServedInv
  <1>1. /\ \A q \in Calls : task'[q] = Server!Idle
        /\ \A c \in Channels : ~Server!Known(c)'
        /\ UNCHANGED <<entry, submitted>>
    BY DEF ServerRestart, Server!Restart, Server!Known
  <1>2. \A q \in Calls :
          call'[q] = IF call[q].phase = "handling" THEN Failed ELSE call[q]
    BY DEF ServerRestart
  <1>3. Failed.phase = "failed"
    BY DEF Failed
  <1>4. \A q \in Calls : Moved(q) /\ call'[q].phase # "handling"
    BY <1>2, <1>3 DEF Moved, Same, Requested, Sent, Submitting
  <1>5. Linked'
    BY <1>1, <1>4 DEF Linked, Server!Busy
  <1>6. Requests' /\ (CloseCovers => CloseCovers')
    BY <1>0, <1>1, <1>4, MovesKeep
  <1>7. Unopened'
    BY <1>1 DEF Unopened
  <1>8. ASSUME ServedCovered, Durable
        PROVE  ServedCovered'
    <2>1. \A c \in Channels : ~Server!Known(c)
      BY <1>1, <1>8 DEF Durable
    <2>2. \A q \in Calls : Served(q)' => Served(q) /\ Same(q)
      BY <1>2, <1>3 DEF Served, Same
    <2>3. QED BY <1>8, <2>1, <2>2 DEF ServedCovered, Same
  <1>9. QED BY <1>5, <1>6, <1>7, <1>8 DEF ServedInv, KeepsPaid, PaidInv

LEMMA ServedStep ==
  ASSUME IInv, ServedInv, [Next]_vars
  PROVE  ServedInv' /\ KeepsPaid
  <1>1. ASSUME NEW r \in Calls, Provider(r)
        PROVE  ServedInv' /\ KeepsPaid
    <2>1. CASE PayOpen(r)
      BY <2>1, AloneKeeps DEF PayOpen, server
    <2>2. QED BY <1>1, <2>1, VoucherKeeps, SubmitKeeps, InsertKeeps, CloseKeeps
          DEF Provider
  <1>2. ASSUME NEW r \in Calls, Handler(r) \/ Loss(r)
        PROVE  ServedInv' /\ KeepsPaid
    BY <1>2, TakeKeeps, TakeOldKeeps, RefuseKeeps, AnswerKeeps, FailKeeps
    DEF Handler, Loss
  <1>3. ASSUME NEW c \in Channels, OpenLands(c) \/ Settle(c)
        PROVE  ServedInv' /\ KeepsPaid
    <2>1. UNCHANGED <<store, task, entry, submitted, call>>
      BY <1>3 DEF OpenLands, Server!ChainOpen, Settle, SettleStart, SettleLands,
         SettleFails, Server!ChainClose, server
    <2>2. QED BY <2>1, AloneKeeps
  <1>4. CASE UNCHANGED vars
    BY <1>4, AloneKeeps DEF vars
  <1>5. QED BY <1>1, <1>2, <1>3, <1>4, RestartKeeps DEF Next

LEMMA ServedInit ==
  ASSUME Init
  PROVE  ServedInv /\ PaidInv
  <1>1. ~NoEntry.opened
    BY DEF NoEntry
  <1>2. /\ ~entry.opened
        /\ \A r \in Calls : call[r].phase = "idle" /\ ~Server!Busy(r)
    BY <1>1 DEF Init, Server!Init, Server!Busy
  <1>3. QED BY <1>2 DEF ServedInv, Linked, Requests, Unopened, PaidInv, ClosesAlone,
        CloseCovers, ServedCovered, Served, Closing, Active, Sent, Paying, Requested,
        Submitting

-----------------------------------------------------------------------------
(* Distinct multiples of a number, none above a bound, are few enough to   *)
(* have it once for each of them.                                          *)

LEMMA ProductGrows ==
  ASSUME NEW p \in Nat, NEW n \in Nat, NEW k \in Nat, n <= k
  PROVE  p * n <= p * k
  <1>1. PICK d \in Nat : k = n + d
    <2>1. k - n \in Nat /\ k = n + (k - n)
      OBVIOUS
    <2>2. QED BY <2>1
  <1>2. p * k = p * n + p * d /\ p * d \in Nat /\ p * n \in Nat
    BY <1>1
  <1>3. QED BY <1>2

LEMMA MultiplesAreFew ==
  ASSUME NEW S, NEW f \in [S -> Nat \ {0}], NEW p \in Nat \ {0}, NEW h \in Nat,
         \A s, t \in S : s # t => f[s] # f[t],
         \A s \in S : p * f[s] <= h
  PROVE  IsFiniteSet(S) /\ Cardinality(S) \in Nat /\ p * Cardinality(S) <= h
  <1>1. \A s \in S : f[s] \in 1..h
    <2> SUFFICES ASSUME NEW s \in S
                 PROVE  f[s] \in 1..h
      OBVIOUS
    <2>1. PICK k \in Nat \ {0} : k = f[s]
      OBVIOUS
    <2>2. k * 1 <= k * p
      BY ProductGrows
    <2>3. k <= p * k /\ p * k <= h
      BY <2>1, <2>2
    <2>4. QED BY <2>1, <2>3
  <1>2. f \in Injection(S, 1..h)
    BY <1>1 DEF Injection, IsInjective
  <1>3. IsFiniteSet(1..h)
    BY FS_Interval
  <1>4. IsFiniteSet(S) /\ Cardinality(S) \in Nat
    BY <1>2, <1>3, FS_Injection, FS_CardinalityType
  <1>5. PICK n \in Nat : n = Cardinality(S)
    BY <1>4
  <1>6. ASSUME ~(p * n <= h)
        PROVE  FALSE
    <2>1. \A s \in S : f[s] < n
      <3> SUFFICES ASSUME NEW s \in S, n <= f[s]
                   PROVE  FALSE
        OBVIOUS
      <3>1. PICK k \in Nat \ {0} : k = f[s]
        OBVIOUS
      <3>2. p * n <= p * k
        BY <3>1, ProductGrows
      <3>3. p * n \in Nat /\ p * k \in Nat /\ p * k <= h
        BY <3>1
      <3>4. QED BY <1>6, <3>2, <3>3
    <2>2. n # 0
      <3>1. p * 0 <= h
        OBVIOUS
      <3>2. QED BY <1>6, <3>1
    <2>3. f \in Injection(S, 1..(n - 1))
      BY <2>1, <2>2 DEF Injection, IsInjective
    <2>4. IsFiniteSet(1..(n - 1)) /\ Cardinality(1..(n - 1)) = n - 1
      BY <2>2, FS_Interval
    <2>5. n <= n - 1
      BY <1>5, <2>3, <2>4, FS_Injection
    <2>6. QED BY <2>5
  <1>7. QED BY <1>4, <1>5, <1>6

LEMMA ServedArePaid ==
  ASSUME TypeOK, Requests, ServedCovered, NEW c \in Channels,
         Cardinality(Answered(c)) > 0
  PROVE  /\ Server!Known(c)
         /\ Price * Cardinality(Answered(c)) <= store[c].highest
  <1> DEFINE S == Answered(c)
  <1>1. \A r \in S : /\ r \in Calls /\ Served(r) /\ Paying(r)
                     /\ call[r].channel = c
    BY DEF Answered, Channel, Served, Paying, Requested
  <1>2. S # {}
    BY FS_EmptySet
  <1>3. Server!Known(c)
    BY <1>1, <1>2 DEF ServedCovered
  <1>4. PICK h \in Nat : h = store[c].highest
    BY <1>3, StoreFacts, SystemAssumption
  <1> DEFINE f == [r \in S |-> CHOOSE k \in Nat \ {0} : call[r].amount = Price * k]
  <1>5. \A r \in S : f[r] \in Nat \ {0} /\ call[r].amount = Price * f[r]
    <2> SUFFICES ASSUME NEW r \in S
                 PROVE  f[r] \in Nat \ {0} /\ call[r].amount = Price * f[r]
      OBVIOUS
    <2>1. \E k \in Nat \ {0} : call[r].amount = Price * k
      BY <1>1 DEF Requests, Multiples
    <2>2. QED BY <2>1
  <1>6. f \in [S -> Nat \ {0}]
    BY <1>5
  <1> HIDE DEF f, S
  <1>7. \A r, q \in S : r # q => f[r] # f[q]
    BY <1>1, <1>5 DEF Requests
  <1>8. \A r \in S : Price * f[r] <= h
    BY <1>1, <1>4, <1>5 DEF ServedCovered
  <1>9. Price \in Nat \ {0}
    BY SystemAssumption
  <1>10. Price * Cardinality(S) <= h
    BY <1>6, <1>7, <1>8, <1>9, MultiplesAreFew
  <1>11. QED BY <1>3, <1>4, <1>10 DEF S

-----------------------------------------------------------------------------
(* Where the store survives and closes are made alone, each request that   *)
(* was answered on a channel is covered by its own share of the highest    *)
(* voucher, for any number of calls, channels and amounts.                 *)
THEOREM EveryServedRequestIsPaid == DeployedSpec => []ServedIsPaid
  <1> DEFINE P == {"durable", "closes alone"} \subseteq premises
             DInv == IInv /\ ServedInv /\ (P => PaidInv)
  <1>1. DeployedInit => DInv
    BY InitEstablishes, ServedInit DEF DeployedInit
  <1>2. DInv /\ [DeployedNext]_DeployedVars => DInv'
    <2> SUFFICES ASSUME DInv, [DeployedNext]_DeployedVars
                 PROVE  DInv'
      OBVIOUS
    <2>1. [Next]_vars
      BY DEF DeployedNext, DeployedVars
    <2>2. IInv' /\ ServedInv' /\ KeepsPaid
      BY <2>1, StepPreserves, ServedStep
    <2>3. P' => P
      BY DEF DeployedNext, DeployedVars
    <2>4. ASSUME P, PaidInv
          PROVE  PaidInv'
      <3>1. CASE DeployedNext
        BY <2>2, <2>4, <3>1 DEF DeployedNext, Observed, KeepsPaid
      <3>2. CASE UNCHANGED DeployedVars
        <4>1. Durable /\ ClosesAlone'
          BY <2>4, <3>2 DEF DeployedVars, vars, PaidInv, Durable, ClosesAlone, Closing,
             Active, Alone, Server!Known
        <4>2. QED BY <2>2, <2>4, <4>1 DEF KeepsPaid
      <3>3. QED BY <3>1, <3>2
    <2>5. QED BY <2>2, <2>3, <2>4
  <1>3. DInv => ServedIsPaid
    BY ServedArePaid DEF IInv, ServedInv, PaidInv, ServedIsPaid
  <1>4. QED BY <1>1, <1>2, <1>3, PTL DEF DeployedSpec

-----------------------------------------------------------------------------
(***************************************************************************)
(* What the chain can pay: within the deposit every total is covered by    *)
(* what the chain holds, also the one a close overwrites it with; and what *)
(* is settled when the calls are done is the highest voucher.              *)
(***************************************************************************)

(* Totals stay within the deposit, and the deposit is on chain.            *)
BudgetInv ==
    /\ InBudget
    /\ \A c \in Channels : chain[c].deposit \in {0, Deposit}
    /\ \A c \in Channels : Server!Known(c) =>
         chain[c].deposit = Deposit /\ store[c].highest <= Deposit
    /\ \A r \in Calls : task[r].op = "open" => chain[task[r].channel].deposit = Deposit
    /\ \A r \in Calls : Sent(r) => call[r].amount <= Deposit

(* No call is under way beside a settlement, so the total stays settled.   *)
SettleInv ==
    /\ SettlesLast
    /\ \A c \in Channels : Server!Known(c) =>
         /\ \A a \in settlement[c].closing : a = store[c].highest
         /\ settlement[c].paid > 0 => settlement[c].paid = store[c].highest

(***************************************************************************)
(* In step: one call at a time, each answered before the next one.         *)
(***************************************************************************)

(* Before the entry there is none, and what is sent is what the entry      *)
(* counts: an open of a channel with its deposit, or more than the store   *)
(* has, or for a close the same.                                           *)
Ready(c) ==
    Server!Known(c) /\ ~store[c].finalized /\ store[c].deposit = Deposit

Underway == \A r \in Calls : Sent(r) =>
    /\ entry.opened
    /\ call[r].channel = entry.channel
    /\ call[r].amount = entry.cumulative
    /\ call[r].op = "open" =>
         chain[entry.channel].deposit = Deposit /\ entry.cumulative = Price
    /\ call[r].op = "voucher" =>
         Ready(entry.channel) /\ store[entry.channel].highest < entry.cumulative
    /\ call[r].op = "close" =>
         Ready(entry.channel) /\ store[entry.channel].highest = entry.cumulative

(* Otherwise both sides have the same total.                               *)
Agreed ==
    (\A r \in Calls : ~Sent(r)) /\ entry.opened =>
        /\ Server!Known(entry.channel)
        /\ store[entry.channel].deposit = Deposit
        /\ store[entry.channel].highest = entry.cumulative

LifeInv ==
    /\ OneAtATime /\ ClosesLast /\ NothingRefused
    /\ \A r \in Calls : OpeningNow(r) => ~entry.opened
    /\ \A r \in Calls : task[r].op = "open" => task[r].deposit = Deposit
    /\ \A c \in Channels : settlement[c] # NoSettlement \/ chain[c].finalized =>
         Server!Known(c)
    /\ \A c \in Channels : Server!Known(c) /\ store[c].finalized =>
         \E r \in Calls : Closed(r)
    /\ Underway
    /\ Agreed

-----------------------------------------------------------------------------
(* What the steps change, to the amount *)

LEMMA SendShape ==
  ASSUME TypeOK, NEW r \in Calls, NEW op, NEW c, NEW a, Send(r, op, c, a)
  PROVE  /\ call'[r].phase = "sent" /\ call'[r].op = op
         /\ call'[r].channel = c /\ call'[r].amount = a
         /\ \A q \in Calls \ {r} : call'[q] = call[q]
  BY DEF Send, TypeOK

LEMMA OpeningShape ==
  ASSUME TypeOK, NEW r \in Calls, PayOpen(r) \/ SubmitOpen(r)
  PROVE  OpeningNow(r)' /\ \A q \in Calls \ {r} : call'[q] = call[q]
  <1> DEFINE moved == [call[r] EXCEPT !.phase = "opening"]
  <1>1. CASE PayOpen(r)
    <2>1. call[r] \in Waiting /\ call \in [Calls -> CallState]
      BY <1>1, CallFacts DEF PayOpen, TypeOK, CallState
    <2>2. moved.phase = "opening"
      BY <2>1 DEF Waiting
    <2>3. call' = [call EXCEPT ![r] = moved]
      BY <1>1 DEF PayOpen, Goto
    <2> HIDE DEF moved
    <2>4. QED BY <2>1, <2>2, <2>3 DEF OpeningNow
  <1>2. CASE SubmitOpen(r)
    BY <1>2 DEF SubmitOpen, OpeningNow, TypeOK
  <1>3. QED BY <1>1, <1>2

(* What a handler takes up is what was sent, and an open the deposit.      *)
LEMMA TakeShape ==
  ASSUME TypeOK, NEW r \in Calls, Take(r)
  PROVE  /\ Sent(r) /\ UNCHANGED <<chain, store, entry, submitted, settlement>>
         /\ Goto(r, "handling")
         /\ \A q \in Calls \ {r} : task'[q] = task[q]
         /\ task'[r].op = call[r].op
         /\ task'[r].op = "open" =>
              /\ task'[r].channel = call[r].channel
              /\ task'[r].deposit = chain[call[r].channel].deposit
              /\ chain[call[r].channel].deposit # 0
  <1> DEFINE c == call[r].channel
  <1>1. /\ Sent(r) /\ Server!Accept(r, c) /\ task'[r].op = call[r].op
        /\ Goto(r, "handling") /\ UNCHANGED <<entry, submitted, settlement>>
        /\ c \in Channels
    BY CallFacts DEF Take, Sent
  <1>2. UNCHANGED <<chain, store>>
    BY <1>1, AcceptShape
  <1>3. PICK p \in Server!TaskState : task' = [task EXCEPT ![r] = p]
    BY <1>1, AcceptShape
  <1>4. task'[r] = p /\ \A q \in Calls \ {r} : task'[q] = task[q]
    BY <1>3 DEF TypeOK, Server!TypeOK
  <1>5. ASSUME task'[r].op = "open"
        PROVE  /\ task'[r].channel = c /\ task'[r].deposit = chain[c].deposit
               /\ chain[c].deposit # 0
    <2>1. task \in [Calls -> Server!TaskState]
      BY DEF TypeOK, Server!TypeOK
    <2>2. ~Server!TopUpRead(r, c) /\ ~Server!VoucherRead(r, c) /\ ~Server!CloseRead(r, c)
      BY <1>5, <2>1 DEF Server!TopUpRead, Server!VoucherRead, Server!CloseRead
    <2>3. Server!OpenRead(r, c)
      BY <1>1, <2>2 DEF Server!Accept
    <2>4. QED BY <2>1, <2>3 DEF Server!OpenRead
  <1>6. QED BY <1>1, <1>2, <1>4, <1>5

(* What a handler leaves in the entry of its channel, beside the total.    *)
LEMMA CommitRest ==
  ASSUME TypeOK, Found, NEW r \in Calls, Server!Proceed(r), task[r].op \in Commits,
         NEW c \in Channels, task[r].channel = c
  PROVE  /\ UNCHANGED chain
         /\ task[r].op = "open" =>
              store'[c].deposit = task[r].deposit /\ ~store'[c].finalized
         /\ task[r].op = "voucher" =>
              /\ store'[c].deposit = store[c].deposit
              /\ store'[c].finalized = store[c].finalized
              /\ store'[c].highest = IF task[r].amount > store[c].highest
                                     THEN task[r].amount ELSE store[c].highest
         /\ task[r].op = "close" =>
              store'[c].deposit = store[c].deposit /\ store'[c].finalized
  <1>0. store \in [Channels -> Server!ChannelState \cup {Server!NoChannel}]
    BY DEF TypeOK, Server!TypeOK
  <1>1. task[r].op \in {"voucher", "close"} => store[c] \in Server!ChannelState
    BY StoreFacts DEF Found
  <1>2. CASE Server!OpenCommit(r)
    BY <1>0, <1>2 DEF Server!OpenCommit, Server!UpdateChannel
  <1>3. CASE Server!VoucherCommit(r)
    <2> DEFINE e == Server!Raised(store[c], task[r].amount, task[r].signature)
    <2>1. task[r].op = "voucher" /\ store[c] \in Server!ChannelState
      BY <1>1, <1>3 DEF Server!VoucherCommit
    <2>2. /\ e.deposit = store[c].deposit /\ e.finalized = store[c].finalized
          /\ e.highest = IF task[r].amount > store[c].highest
                         THEN task[r].amount ELSE store[c].highest
      BY <2>1 DEF Server!ChannelState, Server!Raised
    <2>3. store' = [store EXCEPT ![c] = e] /\ UNCHANGED chain
      BY <1>3 DEF Server!VoucherCommit, Server!UpdateChannel
    <2> HIDE DEF e
    <2>4. store'[c] = e
      BY <1>0, <2>3
    <2>5. QED BY <2>1, <2>2, <2>3, <2>4
  <1>4. CASE Server!CloseCommit(r)
    <2> DEFINE e == [store[c] EXCEPT !.highest = task[r].amount,
                                     !.signature = task[r].signature,
                                     !.finalized = TRUE]
    <2>1. task[r].op = "close" /\ store[c] \in Server!ChannelState
      BY <1>1, <1>4 DEF Server!CloseCommit
    <2>2. e.deposit = store[c].deposit /\ e.finalized
      BY <2>1 DEF Server!ChannelState
    <2>3. store' = [store EXCEPT ![c] = e] /\ UNCHANGED chain
      BY <1>4 DEF Server!CloseCommit, Server!UpdateChannel
    <2> HIDE DEF e
    <2>4. store'[c] = e
      BY <1>0, <2>3
    <2>5. QED BY <2>1, <2>2, <2>3, <2>4
  <1>5. QED BY <1>2, <1>3, <1>4
        DEF Server!Proceed, Server!TopUpCheck, Server!TopUpRefuse, Server!TopUpCommit,
            Commits

(* A handler that answers, or whose answer is lost, has committed what it  *)
(* was sent.                                                               *)
LEMMA AnswerShape ==
  ASSUME TypeOK, Found, Linked, NEW r \in Calls, Answer(r) \/ AnswerLost(r)
  PROVE  /\ Sent(r) /\ call[r].phase = "handling" /\ call[r].channel \in Channels
         /\ Server!Proceed(r)
         /\ task[r].op \in Commits
         /\ task[r].op = call[r].op
         /\ task[r].channel = call[r].channel /\ task[r].amount = call[r].amount
         /\ UNCHANGED <<entry, submitted, settlement>>
         /\ Goto(r, "content") \/ Goto(r, "ok") \/ call' = [call EXCEPT ![r] = Failed]
  <1>1. /\ Sent(r) /\ call[r].phase = "handling" /\ Server!Proceed(r)
        /\ UNCHANGED <<entry, submitted, settlement>>
        /\ Goto(r, "content") \/ Goto(r, "ok") \/ call' = [call EXCEPT ![r] = Failed]
    BY DEF Answer, AnswerLost, Sent
  <1>2. call[r].op \in Commits /\ call[r].channel \in Channels
    BY <1>1, CallFacts DEF Commits
  <1>3. /\ task[r].op = call[r].op
        /\ task[r].channel = call[r].channel /\ task[r].amount = call[r].amount
    BY <1>1 DEF Linked
  <1>4. QED BY <1>1, <1>2, <1>3

(* The chain gains a deposit or closes a channel.                          *)
LEMMA LandShape ==
  ASSUME TypeOK, NEW c \in Channels, OpenLands(c) \/ SettleLands(c)
  PROVE  /\ \A d \in Channels \ {c} : chain'[d] = chain[d]
         /\ OpenLands(c) =>
              /\ chain[c].deposit = 0 /\ chain'[c].deposit = Deposit
              /\ chain'[c].finalized = chain[c].finalized /\ UNCHANGED settlement
         /\ SettleLands(c) =>
              /\ chain'[c].deposit = chain[c].deposit
              /\ settlement'[c].closing = {}
              /\ settlement'[c].paid \in settlement[c].closing
              /\ \A d \in Channels \ {c} : settlement'[d] = settlement[d]
         /\ UNCHANGED <<store, task, entry, call, submitted>>
  <1>0. /\ chain \in [Channels -> Server!OnChainChannel]
        /\ settlement \in [Channels -> Settlement]
    BY DEF TypeOK, Server!TypeOK
  <1>1. CASE OpenLands(c)
    <2>1. PICK a \in Server!Amounts : chain' = [chain EXCEPT ![c].deposit = a]
      BY <1>1 DEF OpenLands, Server!ChainOpen
    <2> DEFINE opened == [chain[c] EXCEPT !.deposit = a]
    <2>2. opened.finalized = chain[c].finalized
      BY <1>0 DEF Server!OnChainChannel
    <2>3. chain' = [chain EXCEPT ![c] = opened]
      BY <2>1
    <2> HIDE DEF opened
    <2>4. QED BY <1>0, <1>1, <2>2, <2>3
          DEF OpenLands, Server!ChainOpen, SettleLands, Server!ChainClose
  <1>2. CASE SettleLands(c)
    <2>2. PICK a \in settlement[c].closing :
            settlement' = [settlement EXCEPT ![c] = [closing |-> {}, paid |-> a]]
      BY <1>2 DEF SettleLands
    <2> DEFINE closed == [chain[c] EXCEPT !.finalized = TRUE]
               done == [closing |-> {}, paid |-> a]
    <2>1. closed.deposit = chain[c].deposit
      BY <1>0, <1>2 DEF Server!OnChainChannel, SettleLands
    <2>3. done.closing = {} /\ done.paid = a
      OBVIOUS
    <2>4. /\ chain' = [chain EXCEPT ![c] = closed]
          /\ settlement' = [settlement EXCEPT ![c] = done]
          /\ UNCHANGED <<store, task, entry, call, submitted>>
      BY <1>2, <2>2 DEF SettleLands, Server!ChainClose
    <2>5. ~OpenLands(c)
      BY <1>2 DEF OpenLands, SettleLands, Server!ChainOpen, Server!ChainClose
    <2> HIDE DEF closed, done
    <2>6. QED BY <1>0, <2>1, <2>3, <2>4, <2>5
  <1>3. QED BY <1>1, <1>2

-----------------------------------------------------------------------------
(* Within the deposit *)

(* A step that brings no request and leaves the store.                     *)
LEMMA BudgetKept ==
  ASSUME BudgetInv, InBudget', UNCHANGED <<store, task>>,
         \A c \in Channels : chain'[c].deposit = chain[c].deposit,
         \A r \in Calls : Sent(r)' =>
           \/ Sent(r) /\ call'[r].amount = call[r].amount
           \/ call'[r].amount <= Deposit,
         TypeOK
  PROVE  BudgetInv'
  <1>1. \A r \in Calls : Sent(r)' => call'[r].amount <= Deposit
    BY DEF BudgetInv
  <1>2. \A r \in Calls : task[r].op = "open" => task[r].channel \in Channels
    BY TaskFacts DEF Server!OpenCommitting
  <1>3. QED BY <1>1, <1>2 DEF BudgetInv, Server!Known

LEMMA BudgetProvider ==
  ASSUME IInv, BudgetInv, InBudget', NEW r \in Calls, Provider(r)
  PROVE  BudgetInv'
  <1>0. TypeOK
    BY DEF IInv
  <1>1. UNCHANGED <<chain, store, task>>
    BY DEF Provider, PayVoucher, PayOpen, SubmitOpen, OpenInsert, Close, server
  <1>2. Deposit \in Nat /\ Price <= Deposit
    BY SystemAssumption
  <1>3. CASE PayVoucher(r)
    <2>1. entry \in ChannelEntry /\ entry.opened
      BY <1>0, <1>3, EntryFacts DEF PayVoucher
    <2>2. entry'.cumulative = NextAmount(entry) /\ entry'.opened
      BY <1>3, <2>1 DEF PayVoucher, ChannelEntry
    <2>3. NextAmount(entry) <= Deposit
      BY <2>2 DEF InBudget
    <2>4. /\ call'[r].amount = NextAmount(entry)
          /\ \A q \in Calls \ {r} : call'[q] = call[q]
      BY <1>0, <1>3, SendShape DEF PayVoucher
    <2>5. \A q \in Calls : Sent(q)' => (Sent(q) /\ call'[q].amount = call[q].amount)
                                       \/ call'[q].amount <= Deposit
      BY <2>3, <2>4 DEF Sent
    <2>6. QED BY <1>0, <1>1, <2>5, BudgetKept
  <1>4. CASE OpenInsert(r)
    <2>1. /\ call'[r].amount = Price
          /\ \A q \in Calls \ {r} : call'[q] = call[q]
      BY <1>0, <1>4, SendShape DEF OpenInsert
    <2>2. \A q \in Calls : Sent(q)' => (Sent(q) /\ call'[q].amount = call[q].amount)
                                       \/ call'[q].amount <= Deposit
      BY <1>2, <2>1 DEF Sent
    <2>3. QED BY <1>0, <1>1, <2>2, BudgetKept
  <1>5. CASE Close(r)
    <2>1. /\ call'[r].amount = entry.cumulative
          /\ \A q \in Calls \ {r} : call'[q] = call[q]
      BY <1>0, <1>5, SendShape DEF Close
    <2>2. entry.cumulative <= Deposit
      BY <1>5 DEF Close, BudgetInv, InBudget
    <2>3. \A q \in Calls : Sent(q)' => (Sent(q) /\ call'[q].amount = call[q].amount)
                                       \/ call'[q].amount <= Deposit
      BY <2>1, <2>2 DEF Sent
    <2>4. QED BY <1>0, <1>1, <2>3, BudgetKept
  <1>6. CASE PayOpen(r) \/ SubmitOpen(r)
    <2>1. ~Sent(r)' /\ \A q \in Calls \ {r} : call'[q] = call[q]
      BY <1>0, <1>6, OpeningShape DEF Sent, OpeningNow
    <2>2. \A q \in Calls : Sent(q)' => Sent(q) /\ call'[q].amount = call[q].amount
      BY <2>1 DEF Sent
    <2>3. QED BY <1>0, <1>1, <2>2, BudgetKept
  <1>7. QED BY <1>3, <1>4, <1>5, <1>6 DEF Provider

LEMMA BudgetServer ==
  ASSUME IInv, ServedInv, BudgetInv, InBudget', NEW r \in Calls, Handler(r) \/ Loss(r)
  PROVE  BudgetInv'
  <1>0. TypeOK /\ Found /\ Linked
    BY DEF IInv, ServedInv
  <1>1. ASSUME NEW phase \in {"handling", "content", "ok", "refused"},
               Sent(r), Goto(r, phase)
        PROVE  \A q \in Calls : Sent(q)' => Sent(q) /\ call'[q].amount = call[q].amount
    BY <1>0, <1>1, GotoShape DEF Sent
  <1>2. ASSUME call' = [call EXCEPT ![r] = Failed]
        PROVE  \A q \in Calls : Sent(q)' => Sent(q) /\ call'[q].amount = call[q].amount
    BY <1>0, <1>2, FailMoves DEF Sent
  <1>3. CASE TakeOld(r) \/ Refuse(r)
    <2>1. /\ UNCHANGED <<chain, store, task>> /\ Sent(r)
          /\ Goto(r, "content") \/ Goto(r, "refused")
      BY <1>3 DEF TakeOld, Refuse, server, Sent
    <2>2. QED BY <1>0, <1>1, <2>1, BudgetKept
  <1>4. CASE Take(r)
    <2>1. /\ UNCHANGED <<chain, store>> /\ Sent(r) /\ Goto(r, "handling")
          /\ \A q \in Calls \ {r} : task'[q] = task[q]
          /\ task'[r].op = "open" =>
               /\ task'[r].channel = call[r].channel
               /\ chain[call[r].channel].deposit # 0
      BY <1>0, <1>4, TakeShape
    <2>2. \A q \in Calls : Sent(q)' => Sent(q) /\ call'[q].amount = call[q].amount
      BY <1>1, <2>1
    <2>3. call[r].channel \in Channels
      BY <1>0, <2>1, CallFacts
    <2>4. QED BY <2>1, <2>2, <2>3 DEF BudgetInv, Server!Known
  <1>5. CASE Fail(r)
    <2>1. /\ UNCHANGED <<chain, store>>
          /\ call' = [call EXCEPT ![r] = Failed]
          /\ task' = [task EXCEPT ![r] = Server!Idle]
      BY <1>5 DEF Fail
    <2>2. \A q \in Calls : task'[q] = task[q] \/ task'[q].op # "open"
      BY <1>0, <2>1 DEF TypeOK, Server!TypeOK, Server!Idle
    <2>3. \A q \in Calls : Sent(q)' => Sent(q) /\ call'[q].amount = call[q].amount
      BY <1>2, <2>1
    <2>4. QED BY <2>1, <2>2, <2>3 DEF BudgetInv, Server!Known
  <1>6. CASE Answer(r) \/ AnswerLost(r)
    <2> DEFINE c == call[r].channel
    <2>1. /\ Sent(r) /\ c \in Channels /\ Server!Proceed(r) /\ task[r].op \in Commits
          /\ task[r].op = call[r].op
          /\ task[r].channel = c /\ task[r].amount = call[r].amount
          /\ Goto(r, "content") \/ Goto(r, "ok") \/ call' = [call EXCEPT ![r] = Failed]
      BY <1>0, <1>6, AnswerShape
    <2> HIDE DEF c
    <2>2. /\ UNCHANGED chain
          /\ task' = [task EXCEPT ![r] = Server!Idle]
          /\ \A d \in Channels \ {c} : store'[d] = store[d]
          /\ task[r].op \in {"open", "close"} => store'[c].highest = task[r].amount
          /\ task[r].op # "open" => Server!Known(c)
          /\ task[r].op = "voucher" => store'[c].highest \in {task[r].amount, store[c].highest}
      BY <1>0, <2>1, CommitShape, CommitRest
    <2>3. task[r].amount <= Deposit
      BY <2>1 DEF BudgetInv
    <2>4. store'[c].highest <= Deposit /\ chain[c].deposit = Deposit
      BY <2>1, <2>2, <2>3 DEF BudgetInv, Commits
    <2>5. \A q \in Calls : task'[q] = task[q] \/ task'[q].op # "open"
      BY <1>0, <2>2 DEF TypeOK, Server!TypeOK, Server!Idle
    <2>6. \A q \in Calls : Sent(q)' => Sent(q) /\ call'[q].amount = call[q].amount
      BY <1>1, <1>2, <2>1
    <2>7. ASSUME NEW d \in Channels, Server!Known(d)'
          PROVE  chain[d].deposit = Deposit /\ store'[d].highest <= Deposit
      BY <2>2, <2>4, <2>7 DEF BudgetInv, Server!Known
    <2>8. QED BY <2>2, <2>5, <2>6, <2>7 DEF BudgetInv
  <1>7. QED BY <1>3, <1>4, <1>5, <1>6 DEF Handler, Loss

LEMMA BudgetStep ==
  ASSUME IInv, ServedInv, BudgetInv, InBudget', [Next]_vars
  PROVE  BudgetInv'
  <1>0. TypeOK
    BY DEF IInv
  <1>1. ASSUME NEW c \in Channels, OpenLands(c) \/ SettleLands(c)
        PROVE  BudgetInv'
    <2>1. /\ \A d \in Channels \ {c} : chain'[d] = chain[d]
          /\ \/ chain[c].deposit = 0 /\ chain'[c].deposit = Deposit
             \/ chain'[c].deposit = chain[c].deposit
          /\ UNCHANGED <<store, task, entry, call, submitted>>
      BY <1>0, <1>1, LandShape
    <2>2. \A q \in Calls : task[q].op = "open" => task[q].channel \in Channels
      BY <1>0, TaskFacts DEF Server!OpenCommitting
    <2>3. Deposit # 0
      BY SystemAssumption
    <2>4. QED BY <2>1, <2>2, <2>3 DEF BudgetInv, Server!Known, Sent
  <1>2. ASSUME NEW c \in Channels, SettleStart(c) \/ SettleFails(c)
        PROVE  BudgetInv'
    <2>1. UNCHANGED <<chain, store, task, entry, call, submitted>>
      BY <1>2 DEF SettleStart, SettleFails, server
    <2>2. QED BY <1>0, <2>1, BudgetKept DEF Sent
  <1>3. CASE ServerRestart
    <2>1. /\ \A q \in Calls : task'[q] = Server!Idle
          /\ \A c \in Channels : ~Server!Known(c)'
          /\ UNCHANGED <<chain, entry>>
          /\ \A q \in Calls : call'[q] \in {Failed, call[q]}
      BY <1>3 DEF ServerRestart, Server!Restart, Server!Known
    <2>2. \A q \in Calls : Sent(q)' => Sent(q) /\ call'[q] = call[q]
      BY <2>1 DEF Sent, Failed
    <2>3. Server!Idle.op # "open"
      BY DEF Server!Idle
    <2>4. QED BY <2>1, <2>2, <2>3 DEF BudgetInv
  <1>4. CASE UNCHANGED vars
    <2>1. UNCHANGED <<chain, store, task, entry, call>>
      BY <1>4 DEF vars
    <2>2. QED BY <1>0, <2>1, BudgetKept DEF Sent
  <1>5. QED BY <1>1, <1>2, <1>3, <1>4, BudgetProvider, BudgetServer DEF Next, Settle

LEMMA BudgetInit ==
  ASSUME Init
  PROVE  BudgetInv
  <1>1. /\ \A r \in Calls : call[r].phase = "idle" /\ task[r] = Server!Idle
        /\ \A c \in Channels : ~Server!Known(c) /\ chain[c].deposit = 0
        /\ ~entry.opened
    BY DEF Init, Server!Init, Server!Known, NoEntry
  <1>2. Server!Idle.op # "open"
    BY DEF Server!Idle
  <1>3. QED BY <1>1, <1>2 DEF BudgetInv, InBudget, Sent

-----------------------------------------------------------------------------
(***************************************************************************)
(* What may be settled: the highest voucher of a channel that still takes  *)
(* vouchers is within its deposit, and every settlement that is under way  *)
(* has been counted by the provider before it was submitted.               *)
(***************************************************************************)

FundInv ==
    /\ \A c \in Channels : chain[c].deposit \in {0, Deposit}
    /\ \A c \in Channels : Server!Known(c) =>
         /\ chain[c].deposit = Deposit /\ store[c].deposit = Deposit
         /\ store[c].finalized \/ store[c].highest <= Deposit
    /\ \A r \in Calls : task[r].op = "open" =>
         chain[task[r].channel].deposit = Deposit /\ task[r].deposit = Deposit
    /\ \A r \in Calls : task[r].op \in {"open", "voucher"} => task[r].amount <= Deposit

DebtInv ==
    /\ SettledIsCounted
    /\ \A c \in Channels : settlement[c] # NoSettlement => c \in submitted
    /\ \A r \in Calls : Submitting(r) => settlement[call[r].channel] = NoSettlement

(* A handler takes up what is within the deposit it has read. *)
LEMMA TakeWithin ==
  ASSUME TypeOK, NEW r \in Calls, Take(r)
  PROVE  /\ task'[r].op = "open" => task'[r].amount <= chain[call[r].channel].deposit
         /\ task'[r].op = "voucher" => /\ Server!Known(call[r].channel)
                                       /\ task'[r].amount <= store[call[r].channel].deposit
  <1> DEFINE c == call[r].channel
  <1>0. task \in [Calls -> Server!TaskState]
    BY DEF TypeOK, Server!TypeOK
  <1>1. Server!Accept(r, c)
    BY DEF Take
  <1>2. CASE Server!OpenRead(r, c)
    BY <1>0, <1>2 DEF Server!OpenRead, Server!WithinDeposit
  <1>3. CASE Server!TopUpRead(r, c)
    BY <1>0, <1>3 DEF Server!TopUpRead
  <1>4. CASE Server!VoucherRead(r, c)
    BY <1>0, <1>4 DEF Server!VoucherRead, Server!WithinDeposit, Server!Accepting
  <1>5. CASE Server!CloseRead(r, c)
    BY <1>0, <1>5 DEF Server!CloseRead
  <1>6. QED BY <1>1, <1>2, <1>3, <1>4, <1>5 DEF Server!Accept

LEMMA FundStep ==
  ASSUME IInv, ServedInv, FundInv, [Next]_vars
  PROVE  FundInv'
  <1>0. TypeOK /\ Found /\ Linked
    BY DEF IInv, ServedInv
  <1>1. CASE UNCHANGED <<chain, store, task>>
    BY <1>1 DEF FundInv, Server!Known
  <1>2. ASSUME NEW c \in Channels, OpenLands(c) \/ SettleLands(c)
        PROVE  FundInv'
    <2>1. /\ \A d \in Channels \ {c} : chain'[d] = chain[d]
          /\ \/ chain[c].deposit = 0 /\ chain'[c].deposit = Deposit
             \/ chain'[c].deposit = chain[c].deposit
          /\ UNCHANGED <<store, task>>
      BY <1>0, <1>2, LandShape
    <2>2. \A q \in Calls : task[q].op = "open" => task[q].channel \in Channels
      BY <1>0, TaskFacts DEF Server!OpenCommitting
    <2>3. Deposit # 0
      BY SystemAssumption
    <2>4. QED BY <2>1, <2>2, <2>3 DEF FundInv, Server!Known
  <1>3. ASSUME NEW r \in Calls, Take(r)
        PROVE  FundInv'
    <2>1. /\ UNCHANGED <<chain, store>>
          /\ call[r].channel \in Channels
          /\ \A q \in Calls \ {r} : task'[q] = task[q]
          /\ task'[r].op = "open" =>
               /\ task'[r].channel = call[r].channel
               /\ task'[r].deposit = chain[call[r].channel].deposit
               /\ chain[call[r].channel].deposit # 0
      BY <1>0, <1>3, TakeShape, CallFacts
    <2>2. /\ task'[r].op = "open" => task'[r].amount <= chain[call[r].channel].deposit
          /\ task'[r].op = "voucher" => /\ Server!Known(call[r].channel)
                                        /\ task'[r].amount <= store[call[r].channel].deposit
      BY <1>0, <1>3, TakeWithin
    <2>3. task'[r].op = "open" =>
            /\ chain'[task'[r].channel].deposit = Deposit
            /\ task'[r].deposit = Deposit
      BY <2>1 DEF FundInv
    <2>4. task'[r].op \in {"open", "voucher"} => task'[r].amount <= Deposit
      BY <2>1, <2>2, <2>3 DEF FundInv
    <2>5. QED BY <2>1, <2>3, <2>4 DEF FundInv, Server!Known
  <1>4. ASSUME NEW r \in Calls, Fail(r)
        PROVE  FundInv'
    <2>1. UNCHANGED <<chain, store>> /\ task' = [task EXCEPT ![r] = Server!Idle]
      BY <1>4 DEF Fail
    <2>2. \A q \in Calls : task'[q] = task[q] \/ task'[q].op = "idle"
      BY <1>0, <2>1 DEF TypeOK, Server!TypeOK, Server!Idle
    <2>3. QED BY <2>1, <2>2 DEF FundInv, Server!Known
  <1>5. ASSUME NEW r \in Calls, Answer(r) \/ AnswerLost(r)
        PROVE  FundInv'
    <2>1. PICK c \in Channels :
            /\ c = task[r].channel
            /\ Server!Proceed(r) /\ task[r].op \in Commits
      BY <1>0, <1>5, AnswerShape
    <2>2. /\ UNCHANGED chain
          /\ task' = [task EXCEPT ![r] = Server!Idle]
          /\ \A d \in Channels \ {c} : store'[d] = store[d]
          /\ task[r].op = "open" => /\ store'[c].highest = task[r].amount
                                    /\ store'[c].deposit = task[r].deposit
          /\ task[r].op # "open" => /\ Server!Known(c)
                                    /\ store'[c].deposit = store[c].deposit
          /\ task[r].op = "voucher" =>
               /\ store'[c].finalized = store[c].finalized
               /\ store'[c].highest \in {task[r].amount, store[c].highest}
          /\ task[r].op = "close" => store'[c].finalized
      BY <1>0, <2>1, CommitShape, CommitRest DEF Commits
    <2>3. /\ chain[c].deposit = Deposit /\ store'[c].deposit = Deposit
          /\ store'[c].finalized \/ store'[c].highest <= Deposit
      BY <2>1, <2>2 DEF FundInv, Commits
    <2>4. ASSUME NEW d \in Channels, Server!Known(d)'
          PROVE  /\ chain'[d].deposit = Deposit /\ store'[d].deposit = Deposit
                 /\ store'[d].finalized \/ store'[d].highest <= Deposit
      BY <2>2, <2>3, <2>4 DEF FundInv, Server!Known
    <2>5. \A q \in Calls : task'[q] = task[q] \/ task'[q].op = "idle"
      BY <1>0, <2>2 DEF TypeOK, Server!TypeOK, Server!Idle
    <2>6. QED BY <2>2, <2>4, <2>5 DEF FundInv
  <1>6. CASE ServerRestart
    <2>1. /\ \A q \in Calls : task'[q].op = "idle"
          /\ \A c \in Channels : ~Server!Known(c)'
          /\ UNCHANGED chain
      BY <1>6 DEF ServerRestart, Server!Restart, Server!Known, Server!Idle
    <2>2. QED BY <2>1 DEF FundInv
  <1>7. ASSUME NEW r \in Calls, Provider(r) \/ TakeOld(r) \/ Refuse(r)
        PROVE  UNCHANGED <<chain, store, task>>
    BY <1>7 DEF Provider, PayVoucher, PayOpen, SubmitOpen, OpenInsert, Close, TakeOld,
                Refuse, server
  <1>8. ASSUME NEW c \in Channels, SettleStart(c) \/ SettleFails(c)
        PROVE  UNCHANGED <<chain, store, task>>
    BY <1>8 DEF SettleStart, SettleFails, server
  <1>9. UNCHANGED vars => UNCHANGED <<chain, store, task>>
    BY DEF vars
  <1>10. QED BY <1>1, <1>2, <1>3, <1>4, <1>5, <1>6, <1>7, <1>8, <1>9
         DEF Next, Settle, Handler, Loss

(* The amounts under way and paid. *)
Owed(c) == settlement[c].closing \cup {settlement[c].paid}

LEMMA OwedAre ==
  ASSUME TypeOK, NEW c \in Channels
  PROVE  /\ \A a \in Owed(c) : a \in Nat
         /\ settlement[c] = NoSettlement => Owed(c) = {0}
         /\ settlement[c].closing # {} => settlement[c] # NoSettlement
  <1>1. settlement[c] \in Settlement /\ MaxAmount \in Nat
    BY SystemAssumption DEF TypeOK
  <1>2. /\ \A a \in settlement[c].closing : a \in Nat
        /\ settlement[c].paid \in Nat
    BY <1>1 DEF Settlement, Server!Amounts
  <1>3. QED BY <1>2 DEF Owed, NoSettlement

(* Chain, entry and what waits for its open change for the better only.    *)
LEMMA DebtKept ==
  ASSUME TypeOK, TypeOK', DebtInv, UNCHANGED <<settlement, submitted>>,
         \A c \in Channels : chain[c].deposit <= chain'[c].deposit,
         entry'.opened => \/ settlement[entry'.channel] = NoSettlement
                          \/ /\ entry.opened /\ entry'.channel = entry.channel
                             /\ entry.cumulative <= entry'.cumulative,
         \A r \in Calls : Submitting(r)' => Submitting(r) /\ call'[r] = call[r]
  PROVE  DebtInv'
  <1>1. \A c \in Channels : \A a \in Owed(c) :
          a <= chain[c].deposit /\ (entry.opened /\ entry.channel = c => a <= entry.cumulative)
    BY DEF DebtInv, SettledIsCounted, Owed
  <1>2. /\ \A c \in Channels : chain[c].deposit \in Nat /\ chain'[c].deposit \in Nat
        /\ entry.opened => entry.cumulative \in Nat
        /\ entry'.opened => entry'.cumulative \in Nat /\ entry'.channel \in Channels
    <2>1. MaxAmount \in Nat
      BY SystemAssumption
    <2>2. /\ \A c \in Channels : chain[c].deposit \in 0..MaxAmount /\ chain'[c].deposit \in 0..MaxAmount
          /\ entry \in ChannelEntry \cup {NoEntry} /\ entry' \in ChannelEntry \cup {NoEntry}
      BY DEF TypeOK, Server!TypeOK, Server!OnChainChannel, Server!Amounts
    <2>3. ~NoEntry.opened
      BY DEF NoEntry
    <2>4. \A c \in Channels : chain[c].deposit \in Nat /\ chain'[c].deposit \in Nat
      BY <2>1, <2>2
    <2>5. ASSUME entry.opened PROVE entry.cumulative \in Nat
      <3>1. entry \in ChannelEntry
        BY <2>2, <2>3, <2>5
      <3>2. QED BY <2>1, <3>1 DEF ChannelEntry, Server!Amounts
    <2>6. ASSUME entry'.opened
          PROVE  entry'.cumulative \in Nat /\ entry'.channel \in Channels
      <3>1. entry' \in ChannelEntry
        BY <2>2, <2>3, <2>6
      <3>2. QED BY <2>1, <3>1 DEF ChannelEntry, Server!Amounts
    <2>7. QED BY <2>4, <2>5, <2>6
  <1>3. ASSUME NEW c \in Channels, NEW a \in Owed(c)
        PROVE  a <= chain'[c].deposit /\ (entry'.opened /\ entry'.channel = c => a <= entry'.cumulative)
    <2>1. a \in Nat /\ (settlement[c] = NoSettlement => a = 0)
      BY <1>3, OwedAre
    <2>2. a <= chain'[c].deposit
      BY <1>1, <1>2, <1>3, <2>1
    <2>3. ASSUME entry'.opened, entry'.channel = c PROVE a <= entry'.cumulative
      BY <1>1, <1>2, <1>3, <2>1, <2>3
    <2>4. QED BY <2>2, <2>3
  <1>4. SettledIsCounted'
    BY <1>3 DEF SettledIsCounted, Owed
  <1>5. QED BY <1>4 DEF DebtInv

LEMMA DebtSettles ==
  ASSUME IInv, TypeOK', FundInv, DebtInv, NEW c \in Channels, Settle(c)
  PROVE  DebtInv'
  <1>0. TypeOK /\ Tracked /\ Private /\ Counted
    BY DEF IInv
  <1>1. PICK s \in Settlement :
          /\ settlement' = [settlement EXCEPT ![c] = s]
          /\ settlement[c] # NoSettlement \/ Server!Known(c)
          /\ \A a \in s.closing \cup {s.paid} :
               \/ a \in Owed(c)
               \/ a = 0
               \/ (Server!Known(c) /\ ~store[c].finalized /\ a = store[c].highest)
    <2>1. CASE SettleStart(c) \/ SettleFails(c)
      BY <1>0, <2>1, SettleShape, OwedAre DEF Owed
    <2>2. CASE SettleLands(c)
      <3>1. PICK a \in settlement[c].closing :
              settlement' = [settlement EXCEPT ![c] = [closing |-> {}, paid |-> a]]
        BY <2>2 DEF SettleLands
      <3> DEFINE s == [closing |-> {}, paid |-> a]
      <3>2. settlement[c] \in Settlement
        BY <1>0 DEF TypeOK
      <3>3. s \in Settlement /\ s.closing = {} /\ s.paid = a
        BY <3>1, <3>2 DEF Settlement
      <3>4. settlement[c] # NoSettlement
        BY <1>0, <3>1, OwedAre
      <3> HIDE DEF s
      <3>5. \A b \in s.closing \cup {s.paid} : b \in Owed(c)
        BY <3>1, <3>3 DEF Owed
      <3>6. settlement' = [settlement EXCEPT ![c] = s]
        BY <3>1 DEF s
      <3>7. QED BY <3>3, <3>4, <3>5, <3>6
    <2>3. QED BY <2>1, <2>2 DEF Settle
  <1>2. /\ UNCHANGED <<entry, call, submitted>>
        /\ \A d \in Channels : chain'[d].deposit = chain[d].deposit
    <2>1. CASE SettleLands(c)
      BY <1>0, <2>1, LandShape
    <2>2. CASE SettleStart(c) \/ SettleFails(c)
      BY <2>2 DEF SettleStart, SettleFails, server
    <2>3. QED BY <2>1, <2>2 DEF Settle
  <1>3. settlement'[c] = s /\ \A d \in Channels \ {c} : settlement'[d] = settlement[d]
    BY <1>0, <1>1 DEF TypeOK
  <1>4. c \in submitted /\ \A r \in Calls : Submitting(r) => call[r].channel # c
    BY <1>0, <1>1 DEF DebtInv, Tracked, Private, Used
  <1>5. \A a \in s.closing \cup {s.paid} :
          a <= chain[c].deposit /\ (entry.opened /\ entry.channel = c => a <= entry.cumulative)
    <2> SUFFICES ASSUME NEW a \in s.closing \cup {s.paid}
                 PROVE  a <= chain[c].deposit /\ (entry.opened /\ entry.channel = c => a <= entry.cumulative)
      OBVIOUS
    <2>1. CASE a \in Owed(c)
      BY <2>1 DEF DebtInv, SettledIsCounted, Owed
    <2>2. CASE a = 0
      <3>1. chain[c].deposit \in 0..MaxAmount
        BY <1>0 DEF TypeOK, Server!TypeOK, Server!OnChainChannel, Server!Amounts
      <3>2. entry.opened => entry.cumulative \in 0..MaxAmount
        BY <1>0, EntryFacts
      <3>3. QED BY <2>2, <3>1, <3>2, SystemAssumption
    <2>3. CASE Server!Known(c) /\ ~store[c].finalized /\ a = store[c].highest
      BY <1>0, <2>3 DEF FundInv, Counted
    <2>4. QED BY <1>1, <2>1, <2>2, <2>3
  <1>6. SettledIsCounted'
    BY <1>2, <1>3, <1>5 DEF DebtInv, SettledIsCounted
  <1>7. \A d \in Channels : settlement'[d] # NoSettlement => d \in submitted'
    BY <1>2, <1>3, <1>4 DEF DebtInv
  <1>8. \A r \in Calls : Submitting(r)' => settlement'[call'[r].channel] = NoSettlement
    BY <1>0, <1>2, <1>3, <1>4, CallFacts DEF DebtInv, Submitting
  <1>9. QED BY <1>6, <1>7, <1>8 DEF DebtInv

LEMMA DebtStep ==
  ASSUME IInv, IInv', ServedInv, FundInv, DebtInv, [Next]_vars
  PROVE  DebtInv'
  <1>0. TypeOK /\ TypeOK' /\ Found /\ Linked
    BY DEF IInv, ServedInv
  <1>1. \A c \in Channels : chain[c].deposit \in Nat
    BY <1>0, SystemAssumption DEF TypeOK, Server!TypeOK, Server!OnChainChannel, Server!Amounts
  <1>2. entry.opened => entry.cumulative \in Nat
    BY <1>0, EntryFacts, SystemAssumption
  <1>3. ASSUME UNCHANGED <<chain, entry, settlement, submitted>>,
               \A r \in Calls : Submitting(r)' => Submitting(r) /\ call'[r] = call[r]
        PROVE  DebtInv'
    BY <1>0, <1>1, <1>2, <1>3, DebtKept
  <1>4. ASSUME NEW r \in Calls, PayVoucher(r) \/ Close(r)
        PROVE  DebtInv'
    <2>1. /\ call'[r].phase = "sent" /\ \A q \in Calls \ {r} : call'[q] = call[q]
          /\ UNCHANGED <<chain, settlement, submitted>>
      BY <1>0, <1>4, SendShape DEF PayVoucher, Close, server
    <2>2. \A q \in Calls : Submitting(q)' => Submitting(q) /\ call'[q] = call[q]
      BY <2>1 DEF Submitting
    <2>3. CASE Close(r)
      BY <1>3, <2>1, <2>2, <2>3 DEF Close
    <2>4. CASE PayVoucher(r)
      <3>1. entry \in ChannelEntry /\ entry.opened
        BY <1>0, <2>4, EntryFacts DEF PayVoucher
      <3>2. /\ entry'.opened /\ entry'.channel = entry.channel
            /\ entry'.cumulative = entry.cumulative + Price
        BY <2>4, <3>1 DEF PayVoucher, ChannelEntry, NextAmount
      <3>3. entry.cumulative <= entry'.cumulative
        BY <1>2, <3>1, <3>2, SystemAssumption
      <3>4. QED BY <1>0, <1>1, <2>1, <2>2, <3>1, <3>2, <3>3, DebtKept
    <2>5. QED BY <1>4, <2>3, <2>4
  <1>5. ASSUME NEW r \in Calls, OpenInsert(r)
        PROVE  DebtInv'
    <2>1. /\ Submitting(r)
          /\ entry'.channel = call[r].channel
          /\ UNCHANGED <<chain, settlement, submitted>>
      BY <1>5 DEF OpenInsert, OpenedEntry, Submitting, server
    <2>2. call'[r].phase = "sent" /\ \A q \in Calls \ {r} : call'[q] = call[q]
      BY <1>0, <1>5, SendShape DEF OpenInsert
    <2>3. \A q \in Calls : Submitting(q)' => Submitting(q) /\ call'[q] = call[q]
      BY <2>2 DEF Submitting
    <2>4. settlement[entry'.channel] = NoSettlement
      BY <2>1 DEF DebtInv
    <2>5. QED BY <1>0, <1>1, <2>1, <2>3, <2>4, DebtKept
  <1>6. ASSUME NEW r \in Calls, PayOpen(r)
        PROVE  DebtInv'
    <2>1. OpeningNow(r)' /\ \A q \in Calls \ {r} : call'[q] = call[q]
      BY <1>0, <1>6, OpeningShape
    <2>2. call'[r].phase = "opening"
      BY <1>0, <1>6, CallFacts DEF PayOpen, Goto, TypeOK, Waiting
    <2>3. \A q \in Calls : Submitting(q)' => Submitting(q) /\ call'[q] = call[q]
      BY <2>1, <2>2 DEF Submitting
    <2>4. QED BY <1>3, <1>6, <2>3 DEF PayOpen, server
  <1>7. ASSUME NEW r \in Calls, SubmitOpen(r)
        PROVE  DebtInv'
    <2>1. PICK c \in Channels \ submitted :
            /\ submitted' = submitted \cup {c}
            /\ call' = [call EXCEPT ![r] = [phase |-> "submitted", channel |-> c]]
      BY <1>7 DEF SubmitOpen
    <2>2. UNCHANGED <<chain, entry, settlement>>
      BY <1>7 DEF SubmitOpen, server
    <2>3. settlement[c] = NoSettlement
      BY <2>1 DEF DebtInv
    <2>4. /\ call'[r].channel = c
          /\ \A q \in Calls \ {r} : call'[q] = call[q]
      BY <1>0, <2>1 DEF TypeOK
    <2>5. \A q \in Calls : Submitting(q)' => settlement'[call'[q].channel] = NoSettlement
      BY <2>2, <2>3, <2>4 DEF DebtInv, Submitting
    <2>6. SettledIsCounted'
      BY <2>2 DEF DebtInv, SettledIsCounted
    <2>7. QED BY <2>1, <2>2, <2>5, <2>6 DEF DebtInv
  <1>8. ASSUME NEW r \in Calls, Handler(r) \/ Loss(r)
        PROVE  DebtInv'
    <2>1. /\ UNCHANGED <<chain, entry, settlement, submitted>>
          /\ \/ /\ Sent(r)
                /\ \E phase \in {"handling", "content", "ok", "refused"} : Goto(r, phase)
             \/ call' = [call EXCEPT ![r] = Failed]
      <3>1. CASE Take(r)
        BY <1>0, <3>1, TakeShape
      <3>2. CASE TakeOld(r) \/ Refuse(r)
        BY <3>2 DEF TakeOld, Refuse, server, Sent
      <3>3. CASE Fail(r)
        BY <3>3 DEF Fail
      <3>4. CASE Answer(r) \/ AnswerLost(r)
        <4>1. PICK c \in Channels :
                c = task[r].channel /\ Server!Proceed(r) /\ task[r].op \in Commits
          BY <1>0, <3>4, AnswerShape
        <4>2. UNCHANGED chain
          BY <1>0, <4>1, CommitRest
        <4>3. QED BY <1>0, <3>4, <4>2, AnswerShape
      <3>5. QED BY <1>8, <3>1, <3>2, <3>3, <3>4 DEF Handler, Loss
    <2>2. \A q \in Calls \ {r} : call'[q] = call[q]
      BY <1>0, <2>1, GotoShape, FailMoves
    <2>3. ~Submitting(r)'
      <3>1. CASE call' = [call EXCEPT ![r] = Failed]
        BY <1>0, <3>1 DEF TypeOK, Submitting, Failed
      <3>2. CASE Sent(r) /\ \E phase \in {"handling", "content", "ok", "refused"} : Goto(r, phase)
        BY <1>0, <3>2, GotoShape DEF Submitting
      <3>3. QED BY <2>1, <3>1, <3>2
    <2>4. \A q \in Calls : Submitting(q)' => Submitting(q) /\ call'[q] = call[q]
      BY <2>2, <2>3 DEF Submitting
    <2>5. QED BY <1>3, <2>1, <2>4
  <1>9. ASSUME NEW c \in Channels, OpenLands(c)
        PROVE  DebtInv'
    <2>1. /\ UNCHANGED <<entry, call, submitted, settlement>>
          /\ \A d \in Channels \ {c} : chain'[d] = chain[d]
          /\ chain[c].deposit = 0 /\ chain'[c].deposit = Deposit
      BY <1>0, <1>9, LandShape
    <2>2. \A d \in Channels : chain[d].deposit <= chain'[d].deposit
      BY <1>1, <2>1, SystemAssumption
    <2>3. \A q \in Calls : Submitting(q)' => Submitting(q) /\ call'[q] = call[q]
      BY <2>1 DEF Submitting
    <2>4. QED BY <1>0, <1>2, <2>1, <2>2, <2>3, DebtKept
  <1>10. CASE ServerRestart
    <2>1. /\ UNCHANGED <<chain, entry, submitted, settlement>>
          /\ \A q \in Calls : call'[q] \in {Failed, call[q]}
      BY <1>10 DEF ServerRestart, Server!Restart
    <2>2. \A q \in Calls : Submitting(q)' => Submitting(q) /\ call'[q] = call[q]
      BY <2>1 DEF Submitting, Failed
    <2>3. QED BY <1>3, <2>1, <2>2
  <1>11. CASE UNCHANGED vars
    BY <1>3, <1>11 DEF vars, Submitting
  <1>12. ASSUME NEW c \in Channels, Settle(c)
         PROVE  DebtInv'
    BY <1>0, <1>12, DebtSettles
  <1>13. QED BY <1>4, <1>5, <1>6, <1>7, <1>8, <1>9, <1>10, <1>11, <1>12 DEF Next, Provider

LEMMA DebtInit ==
  ASSUME Init
  PROVE  FundInv /\ DebtInv
  <1>1. /\ \A r \in Calls : call[r].phase = "idle" /\ task[r].op = "idle"
        /\ \A c \in Channels : /\ ~Server!Known(c) /\ chain[c].deposit = 0
                               /\ settlement[c] = NoSettlement
        /\ ~entry.opened
    BY DEF Init, Server!Init, Server!Known, Server!Idle, NoEntry
  <1>2. FundInv
    BY <1>1 DEF FundInv
  <1>3. \A c \in Channels : \A a \in settlement[c].closing \cup {settlement[c].paid} : a = 0
    BY <1>1 DEF NoSettlement
  <1>4. SettledIsCounted
    BY <1>1, <1>3 DEF SettledIsCounted
  <1>5. QED BY <1>1, <1>2, <1>4 DEF DebtInv, Submitting

-----------------------------------------------------------------------------
(* Settled when the calls are done *)

LEMMA SettleStep ==
  ASSUME IInv, ServedInv, SettleInv, SettlesLast', [Next]_vars
  PROVE  SettleInv'
  <1>0. TypeOK /\ Found /\ Linked
    BY DEF IInv, ServedInv
  <1>1. CASE UNCHANGED <<store, settlement>>
    BY <1>1 DEF SettleInv, Server!Known
  <1>2. ASSUME NEW r \in Calls, Answer(r) \/ AnswerLost(r)
        PROVE  SettleInv'
    <2>1. call[r].phase = "handling" /\ UNCHANGED settlement
      BY <1>2 DEF Answer, AnswerLost
    <2>2. \A c \in Channels : settlement[c] = NoSettlement
      BY <2>1 DEF SettleInv, SettlesLast, Active
    <2>3. \A c \in Channels : settlement'[c].closing = {} /\ settlement'[c].paid = 0
      BY <2>1, <2>2 DEF NoSettlement
    <2>4. QED BY <2>3 DEF SettleInv
  <1>3. ASSUME NEW c \in Channels, SettleStart(c) \/ SettleFails(c)
        PROVE  SettleInv'
    <2>1. PICK s \in Settlement :
            /\ settlement' = [settlement EXCEPT ![c] = s]
            /\ s.paid = settlement[c].paid
            /\ s.closing \subseteq settlement[c].closing \cup {store[c].highest}
      BY <1>0, <1>3, SettleShape
    <2>2. /\ UNCHANGED store
          /\ settlement'[c] = s
          /\ \A d \in Channels \ {c} : settlement'[d] = settlement[d]
      BY <1>0, <1>3, <2>1 DEF SettleStart, SettleFails, server, TypeOK
    <2>3. QED BY <2>1, <2>2 DEF SettleInv, Server!Known
  <1>4. ASSUME NEW c \in Channels, SettleLands(c)
        PROVE  SettleInv'
    <2>1. /\ UNCHANGED store
          /\ \A d \in Channels \ {c} : settlement'[d] = settlement[d]
          /\ settlement'[c].closing = {}
          /\ settlement'[c].paid \in settlement[c].closing
      BY <1>0, <1>4, LandShape
    <2>2. QED BY <2>1 DEF SettleInv, Server!Known
  <1>5. CASE ServerRestart
    <2>1. \A c \in Channels : ~Server!Known(c)'
      BY <1>5 DEF ServerRestart, Server!Restart, Server!Known
    <2>2. QED BY <2>1 DEF SettleInv
  <1>6. ASSUME NEW r \in Calls, Provider(r) \/ Take(r) \/ TakeOld(r) \/ Refuse(r) \/ Fail(r)
        PROVE  UNCHANGED <<store, settlement>>
    BY <1>0, <1>6, TakeShape
    DEF Provider, PayVoucher, PayOpen, SubmitOpen, OpenInsert, Close, TakeOld, Refuse,
        Fail, server
  <1>7. ASSUME NEW c \in Channels, OpenLands(c)
        PROVE  UNCHANGED <<store, settlement>>
    BY <1>0, <1>7, LandShape
  <1>8. UNCHANGED vars => UNCHANGED <<store, settlement>>
    BY DEF vars
  <1>9. QED BY <1>1, <1>2, <1>3, <1>4, <1>5, <1>6, <1>7, <1>8 DEF Next, Settle, Handler, Loss

-----------------------------------------------------------------------------
(* In step *)

(* Calls that make way for one another. *)
LEMMA OthersRest ==
  ASSUME OneAtATime, NEW r \in Calls, Active(r), NEW q \in Calls, q # r
  PROVE  ~Active(q) /\ ~Sent(q) /\ ~OpeningNow(q)
  BY DEF OneAtATime, Alone, Active, Sent, OpeningNow

(* What the store and the chain say to each other is left as it is.        *)
LEMMA StillKnown ==
  ASSUME LifeInv, UNCHANGED <<chain, store, settlement>>, NEW r \in Calls, ~Closed(r),
         \A q \in Calls \ {r} : call'[q] = call[q]
  PROVE  /\ \A c \in Channels : (settlement[c] # NoSettlement \/ chain[c].finalized)' =>
              Server!Known(c)'
         /\ \A c \in Channels : Server!Known(c)' /\ store'[c].finalized =>
              \E q \in Calls : Closed(q)'
  BY DEF LifeInv, Server!Known, Closed

LEMMA LifeOpens ==
  ASSUME IInv, LifeInv, OneAtATime', ClosesLast', NEW r \in Calls, PayOpen(r) \/ SubmitOpen(r)
  PROVE  LifeInv'
  <1>0. TypeOK
    BY DEF IInv
  <1>1. /\ UNCHANGED <<chain, store, task, entry, settlement>>
        /\ call[r].phase \in {"idle", "opening"}
        /\ PayOpen(r) => ~entry.opened
        /\ SubmitOpen(r) => OpeningNow(r)
    BY DEF PayOpen, SubmitOpen, server, OpeningNow
  <1>2. ~entry.opened
    BY <1>1 DEF LifeInv
  <1>3. OpeningNow(r)' /\ \A q \in Calls \ {r} : call'[q] = call[q]
    BY <1>0, OpeningShape
  <1>4. /\ Active(r)' /\ ~Sent(r)' /\ call'[r].phase # "refused"
        /\ ~Closed(r)
    BY <1>1, <1>3 DEF Active, Sent, OpeningNow, Closed
  <1>5. \A q \in Calls \ {r} : ~Sent(q)' /\ ~OpeningNow(q)'
    BY <1>4 DEF OneAtATime, Alone, Active, Sent, OpeningNow
  <1>6. Underway' /\ Agreed'
    BY <1>1, <1>2, <1>4, <1>5 DEF Underway, Agreed
  <1>7. NothingRefused'
    BY <1>3, <1>4 DEF LifeInv, NothingRefused
  <1>8. /\ \A c \in Channels : (settlement[c] # NoSettlement \/ chain[c].finalized)' =>
             Server!Known(c)'
        /\ \A c \in Channels : Server!Known(c)' /\ store'[c].finalized =>
             \E q \in Calls : Closed(q)'
    BY <1>1, <1>3, <1>4, StillKnown
  <1>9. QED BY <1>1, <1>2, <1>6, <1>7, <1>8 DEF LifeInv

(* A call sends, with nothing else under way. *)
LEMMA LifeSends ==
  ASSUME IInv, BudgetInv, LifeInv, OneAtATime', ClosesLast', Landing, NEW r \in Calls,
         PayVoucher(r) \/ OpenInsert(r) \/ Close(r)
  PROVE  LifeInv'
  <1>0. TypeOK
    BY DEF IInv
  <1>1. /\ UNCHANGED <<chain, store, task, settlement>>
        /\ call[r].phase \in {"idle", "submitted"}
    BY DEF PayVoucher, OpenInsert, Close, server
  <1>2. /\ call'[r].phase = "sent"
        /\ \A q \in Calls \ {r} : call'[q] = call[q]
    BY <1>0, SendShape DEF PayVoucher, OpenInsert, Close
  <1>3. /\ Active(r)' /\ Sent(r)' /\ ~OpeningNow(r)' /\ ~Closed(r) /\ ~Sent(r)
    BY <1>1, <1>2 DEF Active, Sent, OpeningNow, Closed
  <1>4. \A q \in Calls \ {r} : ~Sent(q)' /\ ~OpeningNow(q)' /\ ~Sent(q) /\ ~Closed(q)
    <2>1. \A q \in Calls \ {r} : ~Active(q)' /\ ~Closed(q)'
      BY <1>3 DEF OneAtATime, ClosesLast, Alone
    <2>2. QED BY <1>2, <2>1 DEF Active, Sent, OpeningNow, Closed
  <1>5. NothingRefused'
    BY <1>2 DEF LifeInv, NothingRefused
  <1>6. /\ \A c \in Channels : (settlement[c] # NoSettlement \/ chain[c].finalized)' =>
             Server!Known(c)'
        /\ \A c \in Channels : Server!Known(c)' /\ store'[c].finalized =>
             \E q \in Calls : Closed(q)'
    BY <1>1, <1>2, <1>3, StillKnown
  <1>7. \A c \in Channels : Server!Known(c) => ~store[c].finalized
    BY <1>3, <1>4 DEF LifeInv
  <1>8. entry.opened => /\ entry.channel \in Channels
                        /\ Ready(entry.channel)
                        /\ store[entry.channel].highest = entry.cumulative
                        /\ entry.cumulative \in Nat
    BY <1>0, <1>3, <1>4, <1>7, EntryFacts, SystemAssumption DEF LifeInv, Agreed, Ready
  <1>9. /\ entry'.opened
        /\ call'[r].channel = entry'.channel
        /\ call'[r].amount = entry'.cumulative
        /\ call'[r].op = "open" =>
             chain[entry'.channel].deposit = Deposit /\ entry'.cumulative = Price
        /\ call'[r].op = "voucher" =>
             Ready(entry'.channel) /\ store[entry'.channel].highest < entry'.cumulative
        /\ call'[r].op = "close" =>
             Ready(entry'.channel) /\ store[entry'.channel].highest = entry'.cumulative
    <2>1. CASE PayVoucher(r)
      <3>1. entry \in ChannelEntry /\ entry.opened
        BY <1>0, <2>1, EntryFacts DEF PayVoucher
      <3>2. /\ entry'.cumulative = entry.cumulative + Price
            /\ entry'.opened /\ entry'.channel = entry.channel
        BY <2>1, <3>1 DEF PayVoucher, ChannelEntry, NextAmount
      <3>3. /\ call'[r].op = "voucher" /\ call'[r].channel = entry.channel
            /\ call'[r].amount = entry.cumulative + Price
        BY <1>0, <2>1, SendShape DEF PayVoucher, NextAmount
      <3>4. entry.cumulative < entry.cumulative + Price
        BY <1>8, <3>1, SystemAssumption
      <3>5. QED BY <1>8, <3>1, <3>2, <3>3, <3>4
    <2>2. CASE Close(r)
      <3>1. /\ call'[r].op = "close" /\ call'[r].channel = entry.channel
            /\ call'[r].amount = entry.cumulative /\ entry.opened /\ entry' = entry
        BY <1>0, <2>2, SendShape DEF Close
      <3>2. QED BY <1>8, <3>1
    <2>3. CASE OpenInsert(r)
      <3> DEFINE c == call[r].channel
      <3>1. /\ call'[r].op = "open" /\ call'[r].channel = c /\ call'[r].amount = Price
            /\ call[r].phase = "submitted"
        BY <1>0, <2>3, SendShape DEF OpenInsert
      <3>2. entry'.opened /\ entry'.channel = c /\ entry'.cumulative = Price
        BY <2>3 DEF OpenInsert, OpenedEntry
      <3>3. c \in Channels /\ chain[c].deposit > 0
        BY <1>0, <1>2, <3>1, CallFacts DEF Landing, Submitting
      <3>4. chain[c].deposit = Deposit
        BY <3>3 DEF BudgetInv
      <3>5. QED BY <3>1, <3>2, <3>4
    <2>4. QED BY <2>1, <2>2, <2>3
  <1>10. Underway'
    BY <1>1, <1>4, <1>9 DEF Underway, Ready, Server!Known
  <1>11. Agreed'
    BY <1>3 DEF Agreed
  <1>12. \A q \in Calls : ~OpeningNow(q)'
    BY <1>3, <1>4
  <1>13. QED BY <1>1, <1>5, <1>6, <1>10, <1>11, <1>12 DEF LifeInv

LEMMA LifeTakes ==
  ASSUME IInv, BudgetInv, LifeInv, OneAtATime', ClosesLast', NEW r \in Calls, Take(r)
  PROVE  LifeInv'
  <1>0. TypeOK
    BY DEF IInv
  <1>1. /\ Sent(r) /\ UNCHANGED <<chain, store, entry, submitted, settlement>>
        /\ Goto(r, "handling")
        /\ \A q \in Calls \ {r} : task'[q] = task[q]
        /\ task'[r].op = "open" =>
             /\ task'[r].deposit = chain[call[r].channel].deposit
             /\ chain[call[r].channel].deposit # 0
        /\ call[r].channel \in Channels
    BY <1>0, TakeShape, CallFacts
  <1>2. /\ call'[r].phase = "handling" /\ Same(r)
        /\ \A q \in Calls \ {r} : call'[q] = call[q]
    BY <1>0, <1>1, GotoShape DEF Same
  <1>3. Sent(r)' /\ ~OpeningNow(r)' /\ ~Closed(r)
    BY <1>1, <1>2 DEF Sent, OpeningNow, Closed
  <1>4. \A q \in Calls : task'[q].op = "open" => task'[q].deposit = Deposit
    BY <1>1 DEF LifeInv, BudgetInv
  <1>5. Underway'
    BY <1>1, <1>2 DEF LifeInv, Underway, Same, Sent, Ready, Server!Known
  <1>6. Agreed'
    BY <1>3 DEF Agreed
  <1>7. /\ \A c \in Channels : (settlement[c] # NoSettlement \/ chain[c].finalized)' =>
             Server!Known(c)'
        /\ \A c \in Channels : Server!Known(c)' /\ store'[c].finalized =>
             \E q \in Calls : Closed(q)'
    BY <1>1, <1>2, <1>3, StillKnown
  <1>8. NothingRefused' /\ \A q \in Calls : OpeningNow(q)' => ~entry'.opened
    BY <1>1, <1>2, <1>3 DEF LifeInv, NothingRefused, OpeningNow
  <1>9. QED BY <1>4, <1>5, <1>6, <1>7, <1>8 DEF LifeInv

(* Nothing is refused or answered without being counted. *)
LEMMA NoneAside ==
  ASSUME IInv, ServedInv, BudgetInv, LifeInv, NEW r \in Calls
  PROVE  ~TakeOld(r) /\ ~Refuse(r)
  <1> SUFFICES ASSUME TakeOld(r) \/ Refuse(r)
               PROVE  FALSE
    OBVIOUS
  <1> DEFINE c == call[r].channel
             a == call[r].amount
  <1>0. TypeOK
    BY DEF IInv
  <1>1. Sent(r) /\ c \in Channels /\ a \in Nat /\ call[r].op \in {"open", "voucher", "close"}
    BY <1>0, CallFacts, SystemAssumption DEF TakeOld, Refuse, Sent
  <1>2. /\ c = entry.channel /\ a = entry.cumulative
        /\ call[r].op = "open" => chain[c].deposit = Deposit /\ a = Price
        /\ call[r].op = "voucher" => Ready(c) /\ store[c].highest < a
        /\ call[r].op = "close" => Ready(c) /\ store[c].highest = a
    BY <1>1 DEF LifeInv, Underway
  <1>3. a <= Deposit
    BY <1>1 DEF BudgetInv
  <1>4. call[r].op = "open" => ~Server!Known(c)
    BY <1>1 DEF ServedInv, Unopened
  <1>5. CASE TakeOld(r)
    <2>1. call[r].op = "voucher" /\ a <= store[c].highest /\ store[c].highest \in Nat
      BY <1>0, <1>1, <1>2, <1>5, StoreFacts, SystemAssumption
      DEF TakeOld, OldVoucher, Ready
    <2>2. QED BY <1>1, <1>2, <2>1
  <1>6. CASE Refuse(r)
    <2>1. ~Acceptable(r)
      BY <1>6 DEF Refuse
    <2>2. CASE call[r].op = "open"
      <3>1. ~chain[c].finalized
        BY <1>1, <1>4, <2>2 DEF LifeInv
      <3>2. QED BY <1>2, <1>3, <2>1, <2>2, <3>1 DEF Acceptable, Server!WithinDeposit
    <2>3. CASE call[r].op = "voucher"
      BY <1>2, <1>3, <2>1, <2>3
      DEF Acceptable, Server!WithinDeposit, Server!Accepting, Ready
    <2>4. CASE call[r].op = "close"
      BY <1>1, <1>2, <2>1, <2>4
      DEF Acceptable, Server!CoversHighest, Server!Accepting, Ready
    <2>5. QED BY <1>1, <2>2, <2>3, <2>4
  <1>7. QED BY <1>5, <1>6

(* The handler writes what was sent: the two sides agree again. *)
LEMMA LifeAnswers ==
  ASSUME IInv, ServedInv, LifeInv, OneAtATime', ClosesLast', NEW r \in Calls, Answer(r)
  PROVE  LifeInv'
  <1>0. TypeOK /\ Found /\ Linked
    BY DEF IInv, ServedInv
  <1>c. PICK c \in Channels, a \in Nat : c = call[r].channel /\ a = call[r].amount
    BY <1>0, AnswerShape, CallFacts, SystemAssumption
  <1>1. /\ Sent(r) /\ call[r].phase = "handling" /\ c \in Channels
        /\ Server!Proceed(r) /\ task[r].op \in Commits
        /\ task[r].op = call[r].op
        /\ task[r].channel = c /\ task[r].amount = a
        /\ UNCHANGED <<entry, submitted, settlement>>
    BY <1>0, <1>c, AnswerShape
  <1>2. PICK phase \in {"content", "ok"} :
          Goto(r, phase) /\ (call[r].op # "voucher" => phase = "ok")
    BY DEF Answer
  <1>3. /\ call'[r].phase = phase /\ Same(r)
        /\ \A q \in Calls \ {r} : call'[q] = call[q]
    BY <1>0, <1>1, <1>2, GotoShape DEF Same
  <1>4. /\ c = entry.channel /\ a = entry.cumulative /\ entry.opened
        /\ call[r].op = "voucher" => Ready(c) /\ store[c].highest < a
        /\ call[r].op = "close" => Ready(c) /\ store[c].highest = a
    BY <1>1, <1>c DEF LifeInv, Underway
  <1>5. /\ UNCHANGED chain
        /\ task' = [task EXCEPT ![r] = Server!Idle]
        /\ \A d \in Channels \ {c} : store'[d] = store[d]
        /\ Server!Known(c)'
        /\ task[r].op \in {"open", "close"} => store'[c].highest = task[r].amount
        /\ task[r].op = "open" =>
             store'[c].deposit = task[r].deposit /\ ~store'[c].finalized
        /\ task[r].op = "voucher" =>
             /\ store'[c].deposit = store[c].deposit
             /\ store'[c].finalized = store[c].finalized
             /\ store'[c].highest = IF task[r].amount > store[c].highest
                                    THEN task[r].amount ELSE store[c].highest
        /\ task[r].op = "close" => store'[c].deposit = store[c].deposit
    BY <1>0, <1>1, CommitShape, CommitRest
  <1>6. call[r].op = "voucher" => store[c].highest \in Nat
    BY <1>0, <1>4, StoreFacts, SystemAssumption DEF Ready
  <1>7. /\ store'[c].highest = a /\ store'[c].deposit = Deposit
        /\ store'[c].finalized => call[r].op = "close"
    BY <1>1, <1>4, <1>5, <1>6 DEF Commits, LifeInv, Ready
  <1>8. \A q \in Calls \ {r} : ~Sent(q) /\ ~OpeningNow(q)
    BY <1>1, OthersRest DEF LifeInv, Active
  <1>9. ~Sent(r)' /\ ~OpeningNow(r)' /\ ~Closed(r)
    BY <1>1, <1>3 DEF Sent, OpeningNow, Closed
  <1>10. \A q \in Calls : ~Sent(q)' /\ ~OpeningNow(q)'
    BY <1>3, <1>8, <1>9 DEF Sent, OpeningNow
  <1>11. Underway' /\ Agreed'
    BY <1>1, <1>4, <1>5, <1>7, <1>10 DEF Underway, Agreed
  <1>12. NothingRefused'
    BY <1>3 DEF LifeInv, NothingRefused
  <1>13. \A q \in Calls : task'[q].op = "open" => task'[q].deposit = Deposit
    <2>1. \A q \in Calls : task'[q] = IF q = r THEN Server!Idle ELSE task[q]
      BY <1>0, <1>5 DEF TypeOK, Server!TypeOK
    <2>2. Server!Idle.op # "open"
      BY DEF Server!Idle
    <2>3. QED BY <2>1, <2>2 DEF LifeInv
  <1>14. ASSUME NEW d \in Channels, settlement'[d] # NoSettlement \/ chain'[d].finalized
         PROVE  Server!Known(d)'
    BY <1>1, <1>5, <1>14 DEF LifeInv, Server!Known
  <1>15. ASSUME NEW d \in Channels, Server!Known(d)', store'[d].finalized
         PROVE  \E q \in Calls : Closed(q)'
    <2>1. CASE d = c
      <3>1. call[r].op = "close" /\ call'[r].phase = "ok"
        BY <1>2, <1>3, <1>7, <1>15, <2>1
      <3>2. Closed(r)'
        BY <1>3, <3>1 DEF Closed, Same
      <3>3. QED BY <3>2
    <2>2. CASE d # c
      <3>1. PICK q \in Calls : Closed(q)
        BY <1>5, <1>15, <2>2 DEF LifeInv, Server!Known
      <3>2. q # r /\ Closed(q)'
        BY <1>3, <1>9, <3>1 DEF Closed
      <3>3. QED BY <3>2
    <2>3. QED BY <2>1, <2>2
  <1>16. QED BY <1>10, <1>11, <1>12, <1>13, <1>14, <1>15 DEF LifeInv

LEMMA LifeLands ==
  ASSUME IInv, LifeInv, NEW c \in Channels, OpenLands(c) \/ Settle(c)
  PROVE  LifeInv'
  <1>0. TypeOK
    BY DEF IInv
  <1>1. /\ UNCHANGED <<store, task, entry, call>>
        /\ \A d \in Channels : chain'[d].deposit \in {chain[d].deposit, Deposit}
        /\ \A d \in Channels :
             (settlement[d] # NoSettlement \/ chain[d].finalized)' => Server!Known(d)
    <2>3. SettleLands(c) => settlement[c] # NoSettlement
      BY <1>0, LandShape, OwedAre
    <2>1. CASE OpenLands(c) \/ SettleLands(c)
      BY <1>0, <2>1, <2>3, LandShape DEF LifeInv
    <2>2. CASE SettleStart(c) \/ SettleFails(c)
      <3>1. PICK s \in Settlement :
              /\ settlement' = [settlement EXCEPT ![c] = s]
              /\ Server!Known(c) \/ settlement[c].closing # {}
        BY <1>0, <2>2, SettleShape
      <3>2. Server!Known(c)
        BY <1>0, <3>1, OwedAre DEF LifeInv
      <3>3. UNCHANGED <<chain, store, task, entry, call>>
        BY <2>2 DEF SettleStart, SettleFails, server
      <3>4. QED BY <1>0, <3>1, <3>2, <3>3 DEF LifeInv, TypeOK
    <2>4. QED BY <2>1, <2>2 DEF Settle
  <1>2. OneAtATime' /\ ClosesLast' /\ NothingRefused' /\ Agreed'
    BY <1>1 DEF LifeInv, OneAtATime, ClosesLast, NothingRefused, Agreed, Alone, Active,
                Closing, Closed, Sent, Server!Known
  <1>3. Underway'
    <2>1. ASSUME NEW r \in Calls, Sent(r), call[r].op = "open"
          PROVE  chain'[entry.channel].deposit = Deposit
      <3>1. entry.channel \in Channels /\ chain[entry.channel].deposit = Deposit
        BY <1>0, <2>1, EntryFacts DEF LifeInv, Underway
      <3>2. QED BY <1>1, <3>1
    <2>2. QED BY <1>1, <2>1 DEF LifeInv, Underway, Sent, Ready, Server!Known
  <1>4. QED BY <1>1, <1>2, <1>3 DEF LifeInv, OpeningNow, Closed, Server!Known

LEMMA LifeStep ==
  ASSUME IInv, ServedInv, BudgetInv, LifeInv,
         Reliable, Landing, OneAtATime', ClosesLast'
  PROVE  LifeInv'
  <1>1. ASSUME NEW r \in Calls, Provider(r) \/ Handler(r)
        PROVE  LifeInv'
    BY <1>1, LifeOpens, LifeSends, LifeTakes, NoneAside, LifeAnswers DEF Provider, Handler
  <1>2. QED BY <1>1, LifeLands DEF Reliable

LEMMA LifeInit ==
  ASSUME Init
  PROVE  LifeInv /\ SettleInv
  <1>1. /\ \A r \in Calls : call[r].phase = "idle" /\ task[r] = Server!Idle
        /\ \A c \in Channels : /\ ~Server!Known(c) /\ ~chain[c].finalized
                               /\ settlement[c] = NoSettlement
        /\ ~entry.opened
    BY DEF Init, Server!Init, Server!Known, NoEntry, NoSettlement
  <1>2. Server!Idle.op # "open"
    BY DEF Server!Idle
  <1>3. OneAtATime /\ ClosesLast /\ NothingRefused /\ Underway /\ Agreed
    BY <1>1 DEF OneAtATime, ClosesLast, NothingRefused, Underway, Agreed, Active, Closing,
                Closed, Sent
  <1>4. SettleInv
    BY <1>1 DEF SettleInv, SettlesLast
  <1>5. QED BY <1>1, <1>2, <1>3, <1>4 DEF LifeInv, OpeningNow

-----------------------------------------------------------------------------
(* The theorems *)

LifecycleInv ==
    /\ IInv /\ ServedInv /\ FundInv /\ DebtInv
    /\ "in budget" \in premises => BudgetInv
    /\ "settles last" \in premises => SettleInv
    /\ Lifecycle \subseteq premises => LifeInv

LEMMA LifecycleInit ==
  ASSUME DeployedInit
  PROVE  LifecycleInv
  BY InitEstablishes, ServedInit, BudgetInit, LifeInit, DebtInit
    DEF LifecycleInv, DeployedInit

LEMMA LifecycleStep ==
  ASSUME LifecycleInv, [DeployedNext]_DeployedVars
  PROVE  LifecycleInv'
  <1>0. /\ IInv /\ ServedInv /\ FundInv /\ DebtInv
        /\ premises' = premises /\ [Next]_vars
    BY DEF LifecycleInv, DeployedNext, DeployedVars
  <1>4. IInv' /\ ServedInv'
    BY <1>0, StepPreserves, ServedStep
  <1>1. IInv' /\ ServedInv' /\ FundInv' /\ DebtInv'
    BY <1>0, <1>4, FundStep, DebtStep
  <1>2. CASE UNCHANGED DeployedVars
    <2>1. UNCHANGED vars /\ [Next]_vars
      BY <1>2 DEF DeployedVars
    <2>2. UNCHANGED <<chain, store, task, entry, call, settlement>>
      BY <2>1 DEF vars
    <2>3. BudgetInv => BudgetInv'
      BY <1>0, <2>1, <2>2, BudgetStep DEF BudgetInv, InBudget
    <2>4. SettleInv => SettleInv'
      BY <2>2 DEF SettleInv, SettlesLast, Active, Server!Known
    <2>5. LifeInv => LifeInv'
      BY <2>2 DEF LifeInv, OneAtATime, ClosesLast, NothingRefused, Underway, Agreed, Alone,
                  Active, Closing, Closed, Sent, OpeningNow, Ready, Server!Known
    <2>6. QED BY <1>0, <1>1, <2>3, <2>4, <2>5 DEF LifecycleInv
  <1>3. CASE DeployedNext
    <2>1. Observed
      BY <1>3 DEF DeployedNext
    <2>2. "in budget" \in premises => BudgetInv'
      BY <1>0, <2>1, BudgetStep DEF Observed, LifecycleInv
    <2>3. "settles last" \in premises => SettleInv'
      BY <1>0, <2>1, SettleStep DEF Observed, LifecycleInv
    <2>4. Lifecycle \subseteq premises => LifeInv'
      BY <1>0, <2>1, LifeStep DEF Observed, LifecycleInv, Lifecycle
    <2>5. QED BY <1>0, <1>1, <2>2, <2>3, <2>4 DEF LifecycleInv
  <1>5. QED BY <1>2, <1>3

(* Where the application calls one at a time, within its deposit, closes   *)
(* last and waits for its open, and nothing is lost, no call is refused,   *)
(* and between calls the highest voucher is all that the provider counted, *)
(* for any number of calls and channels and any price.                     *)
THEOREM SidesAreInStep == DeployedSpec => []InStep
  <1>1. LifecycleInv => InStep
    <2> SUFFICES ASSUME LifecycleInv, Lifecycle \subseteq premises
                 PROVE  /\ NothingRefused
                        /\ (\A r \in Calls : ~Active(r)) /\ entry.opened =>
                             /\ Server!Known(entry.channel)
                             /\ store[entry.channel].highest = entry.cumulative
      BY DEF InStep
    <2>1. LifeInv
      BY DEF LifecycleInv
    <2>2. QED BY <2>1 DEF LifeInv, Agreed, Active, Sent
  <1>2. QED BY <1>1, LifecycleInit, LifecycleStep, PTL DEF DeployedSpec

(* No settlement takes more than the deposit holds or the provider has     *)
(* counted, whatever is lost, late or restarted; and what is paid when the *)
(* calls are done is the highest voucher.                                  *)
THEOREM SettledAreOwed == DeployedSpec => []SettledIsOwed
  <1>1. LifecycleInv => SettledIsCounted
    BY DEF LifecycleInv, DebtInv
  <1>2. LifecycleInv => SettledIsHighest
    BY DEF LifecycleInv, SettleInv, SettledIsHighest
  <1>3. QED BY <1>1, <1>2, LifecycleInit, LifecycleStep, PTL
        DEF DeployedSpec, SettledIsOwed

=============================================================================
