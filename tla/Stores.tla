--------------------------------- MODULE Stores ---------------------------------
(***************************************************************************)
(* MemoryStore and FileStore.  Both make futures: the memory is read and   *)
(* deleted from when the future is made and written when it is awaited,    *)
(* while a file is touched only when the future is awaited, and written in *)
(* two steps, the second of which may come after another call or never.    *)
(***************************************************************************)
EXTENDS Naturals

CONSTANTS
    Calls, Keys, Values,
    Long,           \* the values whose text is longer than the others'
    FileOf,         \* key_path: different keys may share a file
    Absent,
    StoreDeployments

VARIABLES
    store,          \* "memory" or "file"
    calls,          \* the futures of the callers
    contents,       \* of the keys of the memory, or of the files
    torn,           \* the files whose writing was cut off or overlapped
    circumstances   \* what the deployment guarantees

vars == <<store, calls, contents, torn, circumstances>>

(* A file that was just truncated, and one with two texts in it.           *)
Empty == "empty"
Mixed == "mixed"

Content == Values \union {Absent}

(* A file that was just truncated holds no text, nor does one with two.    *)
StoresAssumption ==
    /\ FileOf \in [Keys -> Keys]
    /\ Long \subseteq Values
    /\ {Empty, Mixed} \cap Content = {}

Assume(p) == p \in circumstances

-----------------------------------------------------------------------------
Operations ==
    [name : {"get", "delete"}, key : Keys]
        \union [name : {"put"}, key : Keys, value : Values]

Idle == [phase |-> "idle"]
Asked(op) == [phase |-> "asked", op |-> op]
Writing(op) == [phase |-> "writing", op |-> op]
Detached(op) == [phase |-> "detached", op |-> op]
Got(op, answer) == [phase |-> "answered", op |-> op, answer |-> answer]

Place(key) ==
    IF store = "memory" \/ Assume("own files") THEN key ELSE FileOf[key]

Busy(place) ==
    {c \in Calls : /\ calls[c] # Idle
                   /\ calls[c].phase # "answered"
                   /\ Place(calls[c].op.key) = place}

Init ==
    /\ store \in {"memory", "file"}
    /\ calls = [c \in Calls |-> Idle]
    /\ contents = [k \in Keys |-> Absent]
    /\ torn = {}
    /\ circumstances \in StoreDeployments

(* serde_json refuses what is no whole text.                               *)
Answer(op) ==
    IF op.name # "get" THEN Absent
    ELSE IF contents[Place(op.key)] \in {Empty, Mixed} THEN "Serialization"
    ELSE contents[Place(op.key)]

Answered(c, op) == calls' = [calls EXCEPT ![c] = Got(op, Answer(op))]

\* Mutant of Eager: a put is answered when its future is made.
EagerAlways(op) == store = "memory"

Eager(op) == store = "memory" /\ op.name # "put"

(* A future is made; the eager ones act at once. *)
Ask(c, op) ==
    /\ calls[c] = Idle
    /\ Assume("one at a time") => Busy(Place(op.key)) = {}
    /\ IF Eager(op)
       THEN /\ Answered(c, op)
            /\ contents' = IF op.name = "delete"
                           THEN [contents EXCEPT ![op.key] = Absent]
                           ELSE contents
       ELSE /\ calls' = [calls EXCEPT ![c] = Asked(op)]
            /\ UNCHANGED contents
    /\ UNCHANGED <<store, torn, circumstances>>

(* The future is awaited. *)
Read(c) ==
    /\ calls[c].phase = "asked" /\ calls[c].op.name = "get"
    /\ Answered(c, calls[c].op)
    /\ UNCHANGED <<store, contents, torn, circumstances>>

Insert(c) ==
    /\ store = "memory"
    /\ calls[c].phase = "asked" /\ calls[c].op.name = "put"
    /\ Answered(c, calls[c].op)
    /\ contents' = [contents EXCEPT ![calls[c].op.key] = calls[c].op.value]
    /\ UNCHANGED <<store, torn, circumstances>>

(* Whoever writes to the file goes on writing to what is no file any more. *)
Remove(c) ==
    /\ store = "file"
    /\ calls[c].phase = "asked" /\ calls[c].op.name = "delete"
    /\ LET place == Place(calls[c].op.key)
           writers == {d \in Busy(place) : calls[d].phase = "writing"}
       IN  /\ calls' = [d \in Calls |->
                  IF d = c THEN Got(calls[c].op, Absent)
                  ELSE IF d \in writers THEN Detached(calls[d].op)
                  ELSE calls[d]]
           /\ contents' = [contents EXCEPT ![place] = Absent]
           /\ torn' = torn \ {place}
    /\ UNCHANGED <<store, circumstances>>

(* std::fs::write: the file is created or emptied, then written from its   *)
(* beginning, whatever another call has written meanwhile.                 *)
Truncate(c) ==
    /\ store = "file"
    /\ calls[c].phase = "asked" /\ calls[c].op.name = "put"
    /\ calls' = [calls EXCEPT ![c] = Writing(calls[c].op)]
    /\ contents' = [contents EXCEPT ![Place(calls[c].op.key)] = Empty]
    /\ torn' = torn \union {Place(calls[c].op.key)}
    /\ UNCHANGED <<store, circumstances>>

(* A longer text that another call wrote meanwhile keeps its end.          *)
Overwritten(old, value) ==
    IF value \notin Long /\ old \in Long \union {Mixed} THEN Mixed ELSE value

\* Mutant of Whole: what was written last is taken for whole.
WholeAlways(place, c) == TRUE

(* The text is whole, and no other call is about to write to it.           *)
Whole(place, c) ==
    /\ contents'[place] # Mixed
    /\ \A d \in Busy(place) \ {c} : calls[d].phase # "writing"

Write(c) ==
    /\ calls[c].phase \in {"writing", "detached"}
    /\ Answered(c, calls[c].op)
    /\ LET place == Place(calls[c].op.key)
       IN  IF calls[c].phase = "detached"
           THEN UNCHANGED <<contents, torn>>
           ELSE /\ contents' = [contents EXCEPT ![place] =
                                    Overwritten(@, calls[c].op.value)]
                /\ torn' = IF Whole(place, c) THEN torn \ {place} ELSE torn
    /\ UNCHANGED <<store, circumstances>>

(* The answer is taken, or a future dropped that was never awaited.        *)
End(c) ==
    /\ calls[c] # Idle /\ calls[c].phase \in {"asked", "answered"}
    /\ calls' = [calls EXCEPT ![c] = Idle]
    /\ UNCHANGED <<store, contents, torn, circumstances>>

(* The program stops and starts again: the memory is lost, the files stay  *)
(* as they are.                                                            *)
Restart ==
    /\ \E c \in Calls : calls[c] # Idle
    /\ Assume("whole writes") => \A c \in Calls : calls[c].phase # "writing"
    /\ Assume("files last") => store = "file"
    /\ calls' = [c \in Calls |-> Idle]
    /\ contents' = IF store = "memory" THEN [k \in Keys |-> Absent] ELSE contents
    /\ UNCHANGED <<store, torn, circumstances>>

Next ==
    \/ \E c \in Calls :
          \/ \E op \in Operations : Ask(c, op)
          \/ Read(c) \/ Insert(c) \/ Remove(c) \/ Truncate(c) \/ Write(c)
          \/ End(c)
    \/ Restart

Spec == Init /\ [][Next]_vars

-----------------------------------------------------------------------------
(* Properties *)

TypeOK ==
    /\ contents \in [Keys -> Content \union {Empty, Mixed}]
    /\ torn \subseteq Keys
    /\ \A c \in Calls : calls[c].phase \in
           {"idle", "asked", "writing", "detached", "answered"}

(* A file that cannot be read is one whose writing was cut off by a        *)
(* restart or crossed by another call, and the next put or delete by       *)
(* itself heals it.                                                        *)
UnreadableIsTorn ==
    \A k \in Keys : contents[k] \in {Empty, Mixed} => k \in torn

InProgress(k) ==
    {c \in Calls : /\ calls[c].phase = "writing"
                   /\ Place(calls[c].op.key) = Place(k)}

Kept == [k \in Keys |->
            IF InProgress(k) # {}
            THEN LET c == CHOOSE c \in InProgress(k) : TRUE
                 IN  calls[c].op.value
            ELSE contents[Place(k)]]

KeptCalls == [c \in Calls |->
                 IF calls[c].phase \in {"writing", "detached"}
                 THEN Got(calls[c].op, Absent) ELSE calls[c]]

Map == INSTANCE KeyValue WITH data <- Kept, calls <- KeptCalls

Careful == {"one at a time", "whole writes", "files last", "own files"}

(* While the calls for a key come one at a time, a restart finds no write  *)
(* half done and no memory store, and keys have files of their own, both   *)
(* stores are the map that the trait promises: an answer is the last value *)
(* put, and no value is lost.  A write counts from the moment the file is  *)
(* emptied.                                                                *)
ImplementsKeyValue ==
    /\ Map!Init
    /\ [][Careful \subseteq circumstances => [Map!Next]_(Map!vars)]_vars
=============================================================================
