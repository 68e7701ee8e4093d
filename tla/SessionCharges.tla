---------------------------- MODULE SessionCharges ----------------------------
(***************************************************************************)
(* What is charged over the life of a channel.  The counter spent of an    *)
(* entry starts again from 0 whenever the channel is opened: by a replayed *)
(* open, whose closure ignores the entry there is, and after a restart,    *)
(* which loses it.  History variables remember what the counter forgets.   *)
(***************************************************************************)
EXTENDS SessionSafety

CONSTANT
    MaxOpenings   \* bound of the runs: how often a channel is opened

VARIABLES
    charged,      \* the sum of all that deduct_from_channel took
    openings,     \* how many opens were stored
    accepted      \* the largest total that open, voucher or close stored

history == <<charged, openings, accepted>>

HistoryInit ==
    /\ charged = [c \in Channels |-> 0]
    /\ openings = [c \in Channels |-> 0]
    /\ accepted = [c \in Channels |-> 0]

(* The larger of what was accepted so far and a further total. *)
Accepts(c, a) ==
    accepted' = [accepted EXCEPT ![c] = IF a > @ THEN a ELSE @]

Deducts(c) ==
    /\ Deduct(c)
    /\ charged' = [charged EXCEPT ![c] = @ + (store'[c].spent - store[c].spent)]
    /\ UNCHANGED <<openings, accepted>>

Opens(t) ==
    LET c == task[t].channel IN
    /\ OpenCommit(t)
    /\ openings[c] < MaxOpenings
    /\ openings' = [openings EXCEPT ![c] = @ + 1]
    /\ Accepts(c, task[t].amount)
    /\ UNCHANGED charged

Stores(t) ==
    /\ VoucherCommit(t) \/ CloseCommit(t)
    /\ Accepts(task[t].channel, task[t].amount)
    /\ UNCHANGED <<charged, openings>>

Others ==
    /\ \/ \E c \in Channels : ChainStep(c)
       \/ \E t \in Tasks, c \in Channels : Accept(t, c)
       \/ \E t \in Tasks : TopUpCheck(t) \/ TopUpRefuse(t) \/ TopUpCommit(t)
       \/ Restart
    /\ UNCHANGED history

CountedNext ==
    \/ \E c \in Channels : Deducts(c)
    \/ \E t \in Tasks : Opens(t) \/ Stores(t)
    \/ Others

CountedSpec == Init /\ HistoryInit /\ [][CountedNext]_<<vars, history>>

-----------------------------------------------------------------------------
(* All the service that deduct_from_channel ever charged to a channel is   *)
(* covered by the largest voucher, once for each time the channel was      *)
(* opened: the same voucher pays again after a replayed open or a restart, *)
(* which is as much as they can cost, but never twice between two of them, *)
(* whichever vouchers and closes overlap.  For a channel that is opened    *)
(* once this is the whole of what the payer signed for.                    *)
ServiceCovered == \A c \in Channels : charged[c] <= openings[c] * accepted[c]
=============================================================================
