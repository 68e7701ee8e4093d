-------------------------------- MODULE KeyValue --------------------------------
(***************************************************************************)
(* What the trait Store promises: get, put and delete take effect at one   *)
(* moment between the call and its answer, and what was put survives a     *)
(* restart of the program.                                                 *)
(***************************************************************************)
CONSTANTS Calls, Keys, Values, Absent

VARIABLES
    data,       \* what each key holds
    calls       \* the calls: where they are, what they asked, what they got

vars == <<data, calls>>

Content == Values \union {Absent}

(* The operations, and what a call has of one. *)
Operations ==
    [name : {"get", "delete"}, key : Keys]
        \union [name : {"put"}, key : Keys, value : Values]

Idle == [phase |-> "idle"]
Asked(op) == [phase |-> "asked", op |-> op]
Got(op, answer) == [phase |-> "answered", op |-> op, answer |-> answer]

Answer(op) == IF op.name = "get" THEN data[op.key] ELSE Absent

Effect(op) ==
    data' = CASE op.name = "get" -> data
              [] op.name = "put" -> [data EXCEPT ![op.key] = op.value]
              [] op.name = "delete" -> [data EXCEPT ![op.key] = Absent]

Init ==
    /\ data = [k \in Keys |-> Absent]
    /\ calls = [c \in Calls |-> Idle]

Ask(c, op) ==
    /\ calls[c] = Idle
    /\ calls' = [calls EXCEPT ![c] = Asked(op)]
    /\ UNCHANGED data

(* At once, or after a while.                                              *)
Act(c, op) ==
    /\ calls[c] \in {Idle, Asked(op)}
    /\ calls' = [calls EXCEPT ![c] = Got(op, Answer(op))]
    /\ Effect(op)

(* The answer is taken, or the future dropped.                             *)
End(c) ==
    /\ calls' = [calls EXCEPT ![c] = Idle]
    /\ UNCHANGED data

Restart ==
    /\ calls' = [c \in Calls |-> Idle]
    /\ UNCHANGED data

Next ==
    \/ \E c \in Calls, op \in Operations : Ask(c, op) \/ Act(c, op)
    \/ \E c \in Calls : End(c)
    \/ Restart

Spec == Init /\ [][Next]_vars
=============================================================================
