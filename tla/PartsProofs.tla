------------------------------ MODULE PartsProofs ------------------------------
(***************************************************************************)
(* MemoryStore and FileStore are the map of the trait Store, for any keys, *)
(* values and callers, where calls and restarts leave them time; and a     *)
(* file that cannot be read is one whose writing was cut off or crossed.   *)
(* A voucher is verified for what was signed and for nothing else, for any *)
(* channel ids and amounts.  The proxy sends a request where its path says *)
(* and nowhere else, for any services and paths.  And an amount becomes    *)
(* the integer it stands for or is refused, for any texts and widths.      *)
(***************************************************************************)
EXTENDS Stores, SequenceTheorems, WellFoundedInduction, TLAPS

CONSTANTS
    Half, Width, ChannelIds, Signers, MaxTotal,     \* VoucherBytes
    Configs, Methods, Characters, MaxLength,        \* ProxyRoutes
    Signs, Digits, Longest, DecimalPlaces, MaxPlaces, Wide, Narrow  \* Amounts

VARIABLES
    signed, claimed, checked,
    config, method, path, answered, found, discovered,
    amount, places, dollars, units

Bytes == INSTANCE VoucherBytes WITH Keys <- Signers, verdict <- checked

Routes == INSTANCE ProxyRoutes

Numbers == INSTANCE Amounts WITH MaxLength <- Longest

-----------------------------------------------------------------------------
(* The map duplicates the operators of the stores. *)

LEMMA MapOperators ==
    /\ Map!Idle = Idle /\ Map!Operations = Operations
    /\ \A op : Map!Asked(op) = Asked(op)
    /\ \A op, answer : Map!Got(op, answer) = Got(op, answer)
BY DEF Map!Idle, Idle, Map!Operations, Operations, Map!Asked, Asked, Map!Got, Got

-----------------------------------------------------------------------------
(* Types *)

Answers == Content \union {"Serialization"}

CallStates ==
    {Idle} \union {Asked(op) : op \in Operations}
        \union {Writing(op) : op \in Operations}
        \union {Detached(op) : op \in Operations}
        \union {Got(op, answer) : op \in Operations, answer \in Answers}

Typed ==
    /\ store \in {"memory", "file"}
    /\ calls \in [Calls -> CallStates]
    /\ contents \in [Keys -> Content \union {Empty, Mixed}]
    /\ \A c \in Calls : calls[c].phase \in {"writing", "detached"} =>
         store = "file" /\ calls[c].op.name = "put"

(* Writing leaves a file torn until it is done by itself. *)
TornInv ==
    /\ \A c \in Calls : calls[c].phase = "writing" => Place(calls[c].op.key) \in torn
    /\ UnreadableIsTorn

(* What careful callers see: one call for a key at a time, which writes    *)
(* its file or is the only one that could.                                 *)
CarefulInv ==
    /\ \A c, d \in Calls :
         /\ calls[c].phase \in {"asked", "writing", "detached"}
         /\ calls[d].phase \in {"asked", "writing", "detached"}
         /\ c # d
         => calls[c].op.key # calls[d].op.key
    /\ \A c \in Calls : calls[c].phase # "detached"
    /\ \A c \in Calls : calls[c].phase = "writing" =>
         contents[calls[c].op.key] = Empty
    /\ \A k \in Keys : contents[k] \in {Empty, Mixed} =>
         \E c \in Calls : calls[c].phase = "writing" /\ calls[c].op.key = k

IInv ==
    /\ Typed
    /\ TornInv
    /\ Careful \subseteq circumstances => CarefulInv

-----------------------------------------------------------------------------
(* The states of a call *)

LEMMA StateOf ==
    ASSUME NEW s \in CallStates
    PROVE  /\ s.phase \in {"idle", "asked", "writing", "detached", "answered"}
           /\ s.phase = "idle" <=> s = Idle
           /\ s.phase \in {"asked", "writing", "detached"} => s.op \in Operations
           /\ s.phase = "asked" => s = Asked(s.op)
BY DEF CallStates, Idle, Asked, Writing, Detached, Got

LEMMA StatesAre ==
    ASSUME NEW op \in Operations, NEW answer \in Answers
    PROVE  /\ Idle \in CallStates /\ Idle.phase = "idle"
           /\ Asked(op) \in CallStates
           /\ Asked(op).phase = "asked" /\ Asked(op).op = op
           /\ Writing(op) \in CallStates
           /\ Writing(op).phase = "writing" /\ Writing(op).op = op
           /\ Detached(op) \in CallStates
           /\ Detached(op).phase = "detached" /\ Detached(op).op = op
           /\ Got(op, answer) \in CallStates
           /\ Got(op, answer).phase = "answered"
BY DEF CallStates, Idle, Asked, Writing, Detached, Got

LEMMA OperationIs ==
    ASSUME NEW op \in Operations
    PROVE  /\ op.name \in {"get", "put", "delete"} /\ op.key \in Keys
           /\ op.name = "put" => op.value \in Values
BY DEF Operations

LEMMA PlaceIs ==
    ASSUME StoresAssumption, NEW k \in Keys
    PROVE  /\ Place(k) \in Keys
           /\ store = "memory" => Place(k) = k
           /\ Careful \subseteq circumstances => Place(k) = k
BY DEF StoresAssumption, Place, Careful, Assume

LEMMA AnswerIs ==
    ASSUME StoresAssumption, Typed, NEW op \in Operations
    PROVE  Answer(op) \in Answers
BY OperationIs, PlaceIs DEF Answer, Answers, Content, Typed

(* Texts are whole: none is taken for a file that was just emptied.        *)
LEMMA WholeTexts ==
    ASSUME StoresAssumption
    PROVE  /\ Empty \notin Content /\ Mixed \notin Content
           /\ Absent \in Content /\ Values \subseteq Content
           /\ Empty \notin Long /\ Empty # Mixed
BY DEF StoresAssumption, Content, Empty, Mixed

-----------------------------------------------------------------------------
(* What the stores hold for careful callers *)

Writers(cs, k) == {c \in Calls : cs[c].phase = "writing" /\ cs[c].op.key = k}

(* For a key the map has what is being written, or else what is there.     *)
Maps(cs, ct, k, v) ==
    \/ \E c \in Writers(cs, k) : v = cs[c].op.value
    \/ Writers(cs, k) = {} /\ v = ct[k]

LEMMA KeptIsMapped ==
    ASSUME Careful \subseteq circumstances, NEW k \in Keys
    PROVE  /\ Maps(calls, contents, k, Kept[k])
           /\ circumstances' = circumstances => Maps(calls', contents', k, Kept'[k])
<1>1. Assume("own files")
  BY DEF Careful, Assume
<1>2. Maps(calls, contents, k, Kept[k])
  <2>1. Place(k) = k /\ InProgress(k) = Writers(calls, k)
    BY <1>1 DEF Place, InProgress, Writers
  <2>2. CASE InProgress(k) # {}
    <3>1. PICK c \in InProgress(k) : Kept[k] = calls[c].op.value
      BY <2>2 DEF Kept
    <3> QED
      BY <2>1, <3>1 DEF Maps
  <2>3. CASE InProgress(k) = {}
    BY <2>1, <2>3 DEF Kept, Maps
  <2> QED
    BY <2>2, <2>3
<1>3. ASSUME circumstances' = circumstances
      PROVE  Maps(calls', contents', k, Kept'[k])
  <2>0. Assume("own files")'
    BY <1>1, <1>3 DEF Assume
  <2>1. Place(k)' = k /\ InProgress(k)' = Writers(calls', k)
    BY <2>0 DEF Place, InProgress, Writers
  <2>2. CASE InProgress(k)' # {}
    <3>1. PICK c \in InProgress(k)' : Kept'[k] = calls'[c].op.value
      BY <2>2 DEF Kept
    <3> QED
      BY <2>1, <3>1 DEF Maps
  <2>3. CASE InProgress(k)' = {}
    BY <2>1, <2>3 DEF Kept, Maps
  <2> QED
    BY <2>2, <2>3
<1> QED
  BY <1>2, <1>3

(* The steps of the map, in the words of the stores. *)
LEMMA MapSteps ==
    ASSUME NEW c \in Calls, NEW op \in Operations
    PROVE  /\ /\ KeptCalls[c] = Idle /\ Kept' = Kept
              /\ KeptCalls' = [KeptCalls EXCEPT ![c] = Asked(op)]
              => Map!Next
           /\ /\ KeptCalls[c] \in {Idle, Asked(op)}
              /\ op.name = "get" /\ Kept' = Kept
              /\ KeptCalls' = [KeptCalls EXCEPT ![c] = Got(op, Kept[op.key])]
              => Map!Next
           /\ /\ KeptCalls[c] \in {Idle, Asked(op)}
              /\ op.name = "put" /\ Kept' = [Kept EXCEPT ![op.key] = op.value]
              /\ KeptCalls' = [KeptCalls EXCEPT ![c] = Got(op, Absent)]
              => Map!Next
           /\ /\ KeptCalls[c] \in {Idle, Asked(op)}
              /\ op.name = "delete" /\ Kept' = [Kept EXCEPT ![op.key] = Absent]
              /\ KeptCalls' = [KeptCalls EXCEPT ![c] = Got(op, Absent)]
              => Map!Next
           /\ /\ KeptCalls' = [KeptCalls EXCEPT ![c] = Idle] /\ Kept' = Kept
              => Map!Next
<1>1. Map!Ask(c, op) \/ Map!Act(c, op) \/ Map!End(c) => Map!Next
  BY MapOperators DEF Map!Next
<1> QED
  BY <1>1, MapOperators DEF Map!Ask, Map!Act, Map!End, Map!Effect, Map!Answer

(* A step of one call, of one key.                                         *)
Changes(c, k, s) ==
    /\ s \in CallStates
    /\ calls' = [calls EXCEPT ![c] = s]
    /\ calls[c].phase = "writing" => calls[c].op.key = k
    /\ s.phase = "writing" => s.op.key = k
    /\ contents' \in [Keys -> Content \union {Empty, Mixed}]
    /\ \A j \in Keys : j # k => contents'[j] = contents[j]
    /\ store' = store /\ circumstances' = circumstances

LEMMA KeptChanges ==
    ASSUME Typed, CarefulInv, Careful \subseteq circumstances,
           NEW c \in Calls, NEW k \in Keys, NEW s, Changes(c, k, s), NEW v,
           \A d \in Calls : d # c /\ calls[d].phase = "writing" => calls[d].op.key # k,
           v = IF s.phase = "writing" THEN s.op.value ELSE contents'[k]
    PROVE  Kept' = [Kept EXCEPT ![k] = v]
<1>1. /\ calls'[c] = s /\ \A d \in Calls : d # c => calls'[d] = calls[d]
      /\ calls' \in [Calls -> CallStates]
  BY DEF Changes, Typed
<1>2. ASSUME NEW j \in Keys, j # k
      PROVE  Kept'[j] = Kept[j]
  <2>1. Writers(calls', j) = Writers(calls, j)
    BY <1>1, <1>2 DEF Writers, Changes
  <2>2. \A d \in Writers(calls, j) : calls'[d] = calls[d]
    BY <1>1, <1>2 DEF Writers, Changes
  <2>3. Maps(calls, contents, j, Kept[j]) /\ Maps(calls', contents', j, Kept'[j])
    BY KeptIsMapped DEF Changes
  <2>4. \A d, e \in Writers(calls, j) : d = e
    BY DEF Writers, CarefulInv
  <2>5. contents'[j] = contents[j]
    BY <1>2 DEF Changes
  <2> QED
    BY <2>1, <2>2, <2>3, <2>4, <2>5 DEF Maps
<1>3. Kept'[k] = v
  <2>1. Maps(calls', contents', k, Kept'[k])
    BY KeptIsMapped DEF Changes
  <2>2. Writers(calls', k) = IF s.phase = "writing" THEN {c} ELSE {}
    BY <1>1 DEF Writers, Changes
  <2> QED
    BY <1>1, <2>1, <2>2 DEF Maps
<1> QED
  BY <1>2, <1>3 DEF Kept

LEMMA CallsChange ==
    ASSUME Typed, NEW c \in Calls, NEW k, NEW s, Changes(c, k, s)
    PROVE  /\ s.phase \notin {"writing", "detached"} =>
                KeptCalls' = [KeptCalls EXCEPT ![c] = s]
           /\ s.phase \in {"writing", "detached"} =>
                KeptCalls' = [KeptCalls EXCEPT ![c] = Got(s.op, Absent)]
           /\ calls[c].phase \notin {"writing", "detached"} => KeptCalls[c] = calls[c]
           /\ calls'[c] = s /\ \A d \in Calls : d # c => calls'[d] = calls[d]
           /\ calls' \in [Calls -> CallStates]
BY DEF Changes, Typed, KeptCalls

(* What careful callers read. *)
LEMMA CarefulReads ==
    ASSUME StoresAssumption, Typed, CarefulInv, Careful \subseteq circumstances,
           NEW k \in Keys, \A c \in Calls : calls[c].phase = "writing" => calls[c].op.key # k
    PROVE  contents[k] \in Content /\ Kept[k] = contents[k]
<1>1. contents[k] \notin {Empty, Mixed}
  BY DEF CarefulInv
<1>2. Writers(calls, k) = {}
  BY DEF Writers
<1> QED
  BY <1>1, <1>2, KeptIsMapped DEF Typed, Maps

Refines ==
    Careful \subseteq circumstances => Map!Next \/ (Kept' = Kept /\ KeptCalls' = KeptCalls)

StepOK == IInv' /\ Refines

(* The files that are torn, in a step that changes one call and one file.  *)
LEMMA SameFiles ==
    ASSUME store' = store, circumstances' = circumstances, NEW k
    PROVE  Place(k)' = Place(k)
BY DEF Place, Assume

LEMMA AskedAlone ==
    ASSUME Typed, Careful \subseteq circumstances, NEW c \in Calls,
           NEW op \in Operations, Ask(c, op),
           NEW d \in Calls, calls[d].phase \in {"asked", "writing", "detached"}
    PROVE  calls[d].op.key # op.key
<1>1. Assume("own files") /\ Assume("one at a time")
  BY DEF Careful, Assume
<1>2. Busy(op.key) = {} /\ Place(calls[d].op.key) = calls[d].op.key
  BY <1>1 DEF Ask, Place
<1>3. calls[d] # Idle /\ calls[d].phase # "answered"
  BY DEF Idle
<1> QED
  BY <1>2, <1>3 DEF Busy

LEMMA AskStep ==
    ASSUME StoresAssumption, IInv, NEW c \in Calls, NEW op \in Operations, Ask(c, op)
    PROVE  StepOK
<1> DEFINE s == IF Eager(op) THEN Got(op, Answer(op)) ELSE Asked(op)
<1>0. Typed /\ TornInv /\ op.key \in Keys /\ op.name \in {"get", "put", "delete"}
  BY OperationIs DEF IInv
<1>1. /\ calls[c] = Idle /\ calls[c].phase = "idle"
      /\ Answer(op) \in Answers
      /\ s \in CallStates /\ s.phase \in {"asked", "answered"}
      /\ s.phase = "asked" => s = Asked(op) /\ s.op = op
  <2>1. calls[c] = Idle /\ Answer(op) \in Answers
    BY <1>0, AnswerIs DEF Ask
  <2>2. CASE Eager(op)
    <3>1. s = Got(op, Answer(op))
      BY <2>2
    <3> HIDE DEF s
    <3> QED
      BY <2>1, <3>1, StatesAre
  <2>3. CASE ~Eager(op)
    <3>1. s = Asked(op)
      BY <2>3
    <3> HIDE DEF s
    <3> QED
      BY <2>1, <3>1, StatesAre
  <2> QED
    BY <2>2, <2>3
<1>2. /\ calls' = [calls EXCEPT ![c] = s]
      /\ contents' = IF Eager(op) /\ op.name = "delete"
                     THEN [contents EXCEPT ![op.key] = Absent] ELSE contents
      /\ UNCHANGED <<store, torn, circumstances>>
  BY DEF Ask, Answered
<1>3. Changes(c, op.key, s)
  BY <1>0, <1>1, <1>2, WholeTexts DEF Changes, Typed
<1> HIDE DEF s
<1>4. /\ calls'[c] = s /\ \A d \in Calls : d # c => calls'[d] = calls[d]
      /\ calls' \in [Calls -> CallStates] /\ KeptCalls[c] = Idle
      /\ KeptCalls' = [KeptCalls EXCEPT ![c] = s]
  BY <1>0, <1>1, <1>3, CallsChange
<1>5. Typed'
  BY <1>0, <1>1, <1>2, <1>3, <1>4 DEF Typed, Changes
<1>6. TornInv'
  <2>1. \A k : Place(k)' = Place(k)
    BY <1>2, SameFiles
  <2>2. \A k \in Keys : contents'[k] \in {Empty, Mixed} => contents[k] \in {Empty, Mixed}
    BY <1>0, <1>2, WholeTexts DEF Typed
  <2>3. \A k \in Keys : contents'[k] \in {Empty, Mixed} => k \in torn'
    BY <1>0, <1>2, <2>2 DEF TornInv, UnreadableIsTorn
  <2>4. \A d \in Calls : calls'[d].phase = "writing" => Place(calls'[d].op.key) \in torn'
    BY <1>0, <1>1, <1>2, <1>4 DEF TornInv
  <2> QED
    BY <2>1, <2>3, <2>4 DEF TornInv, UnreadableIsTorn
<1>7. ASSUME Careful \subseteq circumstances PROVE CarefulInv'
  <2>1. CarefulInv /\ \A k : Place(k) = k
    BY <1>7 DEF IInv, Place, Careful, Assume
  <2>2. \A d \in Calls : calls[d].phase \in {"asked", "writing", "detached"}
          => calls[d].op.key # op.key
    BY <1>0, <1>7, AskedAlone
  <2>3. \A k \in Keys : contents'[k] \in {Empty, Mixed} => contents[k] \in {Empty, Mixed}
    BY <1>0, <1>2, WholeTexts DEF Typed
  <2>4. \A d \in Calls : calls'[d].phase = "writing" =>
          contents'[calls'[d].op.key] = Empty
    BY <1>0, <1>1, <1>2, <1>4, <2>1, <2>2 DEF CarefulInv, Typed
  <2> QED
    BY <1>1, <1>4, <2>1, <2>2, <2>3, <2>4 DEF CarefulInv
<1>8. ASSUME Careful \subseteq circumstances PROVE Map!Next
  <2>1. CarefulInv
    BY <1>8 DEF IInv
  <2>2. \A d \in Calls : calls[d].phase = "writing" => calls[d].op.key # op.key
    BY <1>0, <1>8, AskedAlone
  <2>3. Kept' = [Kept EXCEPT ![op.key] = contents'[op.key]]
    <3>1. s.phase # "writing"
      BY <1>1
    <3> QED
      BY <1>0, <1>3, <1>8, <2>1, <2>2, <3>1, KeptChanges
  <2>4. contents[op.key] \in Content /\ Kept[op.key] = contents[op.key]
    BY <1>0, <1>8, <2>1, <2>2, CarefulReads
  <2>5. CASE ~Eager(op)
    <3>1. s = Asked(op) /\ contents' = contents
      BY <1>2, <2>5 DEF s
    <3>2. Kept' = Kept
      BY <2>3, <2>4, <3>1 DEF Kept
    <3> QED
      BY <1>4, <3>1, <3>2, MapSteps
  <2>6. CASE Eager(op) /\ op.name = "get"
    <3>1. s = Got(op, Answer(op)) /\ contents' = contents
      BY <1>2, <2>6 DEF s
    <3>2. Kept' = Kept
      BY <2>3, <2>4, <3>1 DEF Kept
    <3>3. Answer(op) = Kept[op.key]
      BY <1>0, <1>8, <2>4, <2>6, PlaceIs, WholeTexts DEF Answer
    <3> QED
      BY <1>4, <2>6, <3>1, <3>2, <3>3, MapSteps
  <2>7. CASE Eager(op) /\ op.name = "delete"
    <3>1. s = Got(op, Absent)
      BY <2>7 DEF s, Answer
    <3>2. contents'[op.key] = Absent
      BY <1>0, <1>2, <2>7 DEF Typed
    <3> QED
      BY <1>4, <2>3, <2>7, <3>1, <3>2, MapSteps
  <2> QED
    BY <1>0, <2>5, <2>6, <2>7 DEF Eager
<1> QED
  BY <1>2, <1>5, <1>6, <1>7, <1>8 DEF StepOK, IInv, Refines

(* A careful caller has its key for itself. *)
LEMMA OwnTurn ==
    ASSUME Typed, NEW c \in Calls, calls[c].phase \in {"asked", "writing", "detached"}
    PROVE  /\ calls[c].op \in Operations /\ calls[c].op.key \in Keys
           /\ calls[c].op.name = "put" => calls[c].op.value \in Values
           /\ calls[c].phase = "asked" => calls[c] = Asked(calls[c].op)
           /\ CarefulInv => \A d \in Calls :
                d # c /\ calls[d].phase \in {"asked", "writing", "detached"}
                => calls[d].op.key # calls[c].op.key
BY StateOf, OperationIs DEF Typed, CarefulInv

(* A call that neither writes nor leaves a writer behind.                  *)
Quiet(c, k, s) ==
    /\ s \in CallStates /\ s.phase \in {"idle", "answered"}
    /\ calls' = [calls EXCEPT ![c] = s]
    /\ calls[c].phase \notin {"writing", "detached"}
    /\ calls[c].phase = "asked" => calls[c].op.key = k
    /\ contents' \in [Keys -> Content \union {Empty, Mixed}]
    /\ \A j \in Keys :
         \/ contents'[j] = contents[j]
         \/ calls[c].phase = "asked" /\ j = k /\ contents'[j] \in Content
    /\ store' = store /\ circumstances' = circumstances

LEMMA QuietStep ==
    ASSUME StoresAssumption, IInv, NEW c \in Calls, NEW k \in Keys,
           NEW s \in CallStates, Quiet(c, k, s)
    PROVE  /\ Typed' /\ Changes(c, k, s)
           /\ Careful \subseteq circumstances => CarefulInv'
           /\ torn' = torn => IInv'
<1>0. Typed /\ TornInv
  BY DEF IInv
<1>1. /\ calls'[c] = s /\ \A d \in Calls : d # c => calls'[d] = calls[d]
      /\ calls' \in [Calls -> CallStates]
  BY <1>0 DEF Typed, Quiet
<1>2. \A k1 : Place(k1)' = Place(k1)
  BY SameFiles DEF Quiet
<1>3. \A j \in Keys : contents'[j] \in {Empty, Mixed} => contents[j] = contents'[j]
  BY WholeTexts DEF Quiet
<1>4. Typed'
  BY <1>0, <1>1 DEF Typed, Quiet
<1>5. torn' = torn => TornInv'
  BY <1>0, <1>1, <1>2, <1>3 DEF TornInv, UnreadableIsTorn, Quiet
<1>6. ASSUME Careful \subseteq circumstances PROVE CarefulInv'
  <2>1. CarefulInv
    BY <1>6 DEF IInv
  <2>2. ASSUME NEW d \in Calls, calls'[d].phase = "writing"
        PROVE  contents'[calls'[d].op.key] = Empty
    <3>1. d # c /\ calls'[d] = calls[d]
      BY <1>1, <2>2 DEF Quiet
    <3>2. calls[d].op.key \in Keys
      BY <1>0, <2>2, <3>1, OwnTurn
    <3>3. calls[c].phase = "asked" => calls[d].op.key # k
      BY <1>0, <2>1, <2>2, <3>1, OwnTurn DEF Quiet
    <3> QED
      BY <2>1, <2>2, <3>1, <3>2, <3>3 DEF CarefulInv, Quiet
  <2>3. ASSUME NEW j \in Keys, contents'[j] \in {Empty, Mixed}
        PROVE  \E d \in Calls : calls'[d].phase = "writing" /\ calls'[d].op.key = j
    BY <1>1, <1>3, <2>1, <2>3 DEF CarefulInv, Quiet
  <2> QED
    BY <1>1, <2>1, <2>2, <2>3 DEF CarefulInv, Quiet
<1>7. Changes(c, k, s)
  BY DEF Changes, Quiet
<1> QED
  BY <1>4, <1>5, <1>6, <1>7 DEF IInv, Quiet

LEMMA ReadStep ==
    ASSUME StoresAssumption, IInv, NEW c \in Calls, Read(c)
    PROVE  StepOK
<1> DEFINE op == calls[c].op
           s == Got(op, Answer(op))
<1>0. /\ Typed /\ calls[c].phase = "asked" /\ op.name = "get"
      /\ calls' = [calls EXCEPT ![c] = s]
      /\ UNCHANGED <<store, contents, torn, circumstances>>
  BY DEF IInv, Read, Answered
<1>1. /\ op \in Operations /\ op.key \in Keys /\ calls[c] = Asked(op)
      /\ CarefulInv => \A d \in Calls : d # c /\ calls[d].phase = "writing"
                         => calls[d].op.key # op.key
  BY <1>0, OwnTurn
<1>2. s \in CallStates /\ s.phase = "answered"
  BY <1>0, <1>1, AnswerIs, StatesAre
<1>3. IInv' /\ Changes(c, op.key, s)
  <2>1. contents' \in [Keys -> Content \union {Empty, Mixed}]
    BY <1>0 DEF Typed
  <2> HIDE DEF op, s
  <2>2. calls[c].op.key = op.key
    BY DEF op
  <2>3. store' = store /\ torn' = torn /\ circumstances' = circumstances
    BY <1>0
  <2> QED
    BY <1>0, <1>1, <1>2, <2>1, <2>2, <2>3, QuietStep DEF Quiet
<1>4. ASSUME Careful \subseteq circumstances PROVE Map!Next
  <2>1. CarefulInv
    BY <1>4 DEF IInv
  <2>2. \A d \in Calls : calls[d].phase = "writing" => calls[d].op.key # op.key
    BY <1>0, <1>1, <2>1
  <2>3. contents[op.key] \in Content /\ Kept[op.key] = contents[op.key]
    <3> HIDE DEF op
    <3> QED
      BY <1>0, <1>1, <1>4, <2>1, <2>2, CarefulReads
  <2>4. Kept' = [Kept EXCEPT ![op.key] = contents'[op.key]]
    <3> HIDE DEF op, s
    <3> QED
      BY <1>0, <1>1, <1>2, <1>3, <1>4, <2>1, <2>2, KeptChanges
  <2>5. Kept' = Kept
    BY ZenonT(40), <1>0, <2>3, <2>4 DEF Kept
  <2>6. Answer(op) = Kept[op.key]
    BY <1>0, <1>1, <1>4, <2>3, PlaceIs, WholeTexts DEF Answer
  <2>7. KeptCalls[c] = Asked(op) /\ KeptCalls' = [KeptCalls EXCEPT ![c] = s]
    <3> HIDE DEF op, s
    <3> QED
      BY <1>0, <1>1, <1>2, <1>3, CallsChange
  <2> QED
    BY <1>0, <1>1, <2>5, <2>6, <2>7, MapSteps
<1> QED
  BY <1>3, <1>4 DEF StepOK, Refines

LEMMA InsertStep ==
    ASSUME StoresAssumption, IInv, NEW c \in Calls, Insert(c)
    PROVE  StepOK
<1> DEFINE op == calls[c].op
           s == Got(op, Absent)
<1>0. /\ Typed /\ calls[c].phase = "asked" /\ op.name = "put"
      /\ calls' = [calls EXCEPT ![c] = s]
      /\ contents' = [contents EXCEPT ![op.key] = op.value]
      /\ UNCHANGED <<store, torn, circumstances>>
  BY DEF IInv, Insert, Answered, Answer
<1>1. /\ op \in Operations /\ op.key \in Keys /\ calls[c] = Asked(op)
      /\ op.value \in Content
      /\ CarefulInv => \A d \in Calls : d # c /\ calls[d].phase = "writing"
                         => calls[d].op.key # op.key
  BY <1>0, OwnTurn, WholeTexts
<1>2. s \in CallStates /\ s.phase = "answered"
  BY <1>0, <1>1, StatesAre, WholeTexts DEF Answers
<1>3. /\ IInv' /\ Changes(c, op.key, s)
      /\ contents'[op.key] = op.value
  <2>1. /\ contents' \in [Keys -> Content \union {Empty, Mixed}]
        /\ \A j \in Keys : contents'[j] = contents[j] \/ (j = op.key /\ contents'[j] \in Content)
        /\ contents'[op.key] = op.value
    <3> HIDE DEF op
    <3> QED
      BY <1>0, <1>1 DEF Typed
  <2> HIDE DEF op, s
  <2>2. calls[c].op.key = op.key
    BY DEF op
  <2>3. store' = store /\ torn' = torn /\ circumstances' = circumstances
    BY <1>0
  <2> QED
    BY <1>0, <1>1, <1>2, <2>1, <2>2, <2>3, QuietStep DEF Quiet
<1>4. ASSUME Careful \subseteq circumstances PROVE Map!Next
  <2>1. CarefulInv
    BY <1>4 DEF IInv
  <2>2. \A d \in Calls : d # c /\ calls[d].phase = "writing" => calls[d].op.key # op.key
    BY <1>1, <2>1
  <2>3. Kept' = [Kept EXCEPT ![op.key] = op.value]
    <3> HIDE DEF op, s
    <3> QED
      BY <1>0, <1>1, <1>2, <1>3, <1>4, <2>1, <2>2, KeptChanges
  <2>4. KeptCalls[c] = Asked(op) /\ KeptCalls' = [KeptCalls EXCEPT ![c] = s]
    <3> HIDE DEF op, s
    <3> QED
      BY <1>0, <1>1, <1>2, <1>3, CallsChange
  <2> QED
    BY <1>0, <1>1, <2>3, <2>4, MapSteps
<1> QED
  BY <1>3, <1>4 DEF StepOK, Refines

LEMMA EndStep ==
    ASSUME StoresAssumption, IInv, NEW c \in Calls, End(c)
    PROVE  StepOK
<1>0. /\ Typed /\ calls[c].phase \in {"asked", "answered"} /\ calls[c] # Idle
      /\ calls' = [calls EXCEPT ![c] = Idle]
      /\ UNCHANGED <<store, contents, torn, circumstances>>
      /\ contents' \in [Keys -> Content \union {Empty, Mixed}]
  BY DEF IInv, End, Typed
<1>1. PICK op \in Operations : calls[c].phase = "asked" => op = calls[c].op
  BY <1>0 DEF Typed, CallStates, Idle, Asked, Writing, Detached, Got
<1>2. op.key \in Keys /\ Idle \in CallStates /\ Idle.phase = "idle"
  BY OperationIs DEF CallStates, Idle
<1>3. IInv' /\ Changes(c, op.key, Idle)
  <2>1. store' = store /\ torn' = torn /\ circumstances' = circumstances
    BY <1>0
  <2>2. \A j \in Keys : contents'[j] = contents[j]
    BY <1>0
  <2>3. calls[c].phase = "asked" => calls[c].op.key = op.key
    BY <1>1
  <2> QED
    BY <1>0, <1>1, <1>2, <2>1, <2>2, <2>3, QuietStep DEF Quiet
<1>4. KeptCalls' = [KeptCalls EXCEPT ![c] = Idle]
  BY <1>0, <1>2, <1>3, CallsChange
<1>5. ASSUME Careful \subseteq circumstances PROVE Kept' = Kept
  <2>1. CarefulInv
    BY <1>5 DEF IInv
  <2>2. Kept = [k \in Keys |-> Kept[k]] /\ Kept' = [k \in Keys |-> Kept'[k]]
    BY DEF Kept
  <2>3. ASSUME NEW k \in Keys PROVE Kept'[k] = Kept[k]
    <3>1. Writers(calls', k) = Writers(calls, k) /\
          \A d \in Writers(calls, k) : calls'[d] = calls[d]
      BY <1>0, <1>2 DEF Writers, Typed
    <3>2. Maps(calls, contents, k, Kept[k]) /\ Maps(calls', contents', k, Kept'[k])
      BY <1>0, <1>5, KeptIsMapped
    <3>3. \A d, e \in Writers(calls, k) : d = e
      BY <2>1 DEF Writers, CarefulInv
    <3> QED
      BY <1>0, <3>1, <3>2, <3>3 DEF Maps
  <2> QED
    BY <2>2, <2>3
<1> QED
  BY <1>1, <1>3, <1>4, <1>5, MapSteps DEF StepOK, Refines

LEMMA RemoveStep ==
    ASSUME StoresAssumption, IInv, NEW c \in Calls, Remove(c)
    PROVE  StepOK
<1> DEFINE op == calls[c].op
           place == Place(op.key)
           writers == {d \in Busy(place) : calls[d].phase = "writing"}
           s == Got(op, Absent)
<1>0. /\ Typed /\ TornInv /\ calls[c].phase = "asked" /\ op.name = "delete"
      /\ store = "file" /\ store' = store /\ circumstances' = circumstances
      /\ calls' = [d \in Calls |-> IF d = c THEN s
                                   ELSE IF d \in writers THEN Detached(calls[d].op)
                                   ELSE calls[d]]
      /\ contents' = [contents EXCEPT ![place] = Absent]
      /\ torn' = torn \ {place}
  BY DEF IInv, Remove
<1>1. /\ op \in Operations /\ op.key \in Keys /\ calls[c] = Asked(op)
      /\ CarefulInv => \A d \in Calls :
           d # c /\ calls[d].phase = "writing" => calls[d].op.key # op.key
  BY <1>0, OwnTurn
<1>2. s \in CallStates /\ s.phase = "answered" /\ Absent \in Answers
  BY <1>1, StatesAre, WholeTexts DEF Answers
<1>3. place \in Keys /\ (Careful \subseteq circumstances => place = op.key)
  BY <1>1, PlaceIs
<1>4. \A k \in Keys : contents'[k] = IF k = place THEN Absent ELSE contents[k]
  BY <1>0, <1>3 DEF Typed
<1>5. \A d \in Calls : d \in writers <=>
        calls[d].phase = "writing" /\ Place(calls[d].op.key) = place
  BY DEF Busy, Idle
<1>6. \A d \in Calls : calls'[d] = IF d = c THEN s
                                   ELSE IF d \in writers THEN Detached(calls[d].op)
                                   ELSE calls[d]
  BY <1>0
<1> HIDE DEF writers, s
<1>7. Typed'
  <2>1. \A d \in writers : d \in Calls /\ calls[d].op \in Operations
    BY <1>0, OwnTurn DEF writers, Busy
  <2>2. calls' \in [Calls -> CallStates]
    BY <1>0, <1>2, <2>1, StatesAre DEF Typed
  <2>3. contents' \in [Keys -> Content \union {Empty, Mixed}]
    BY <1>0, <1>3, WholeTexts DEF Typed
  <2>4. ASSUME NEW d \in Calls, calls'[d].phase \in {"writing", "detached"}
        PROVE  calls'[d].op.name = "put"
    <3>1. d # c
      BY <1>2, <1>6, <2>4
    <3>2. CASE d \in writers
      BY <1>0, <1>2, <1>5, <1>6, <2>1, <3>1, <3>2, StatesAre DEF Typed
    <3>3. CASE d \notin writers
      BY <1>0, <1>6, <2>4, <3>1, <3>3 DEF Typed
    <3> QED
      BY <3>2, <3>3
  <2> QED
    BY <1>0, <2>2, <2>3, <2>4 DEF Typed
<1>8. TornInv'
  <2>1. \A k : Place(k)' = Place(k)
    BY <1>0, SameFiles
  <2>2. ASSUME NEW d \in Calls, calls'[d].phase = "writing"
        PROVE  Place(calls'[d].op.key) \in torn'
    <3>1. d # c
      BY <1>2, <1>6, <2>2
    <3>2. d \notin writers
      <4> SUFFICES ASSUME d \in writers PROVE FALSE
        OBVIOUS
      <4>1. calls[d].op \in Operations
        BY <1>0, <1>5, OwnTurn
      <4>2. calls'[d].phase = "detached"
        BY <1>2, <1>6, <3>1, <4>1, StatesAre
      <4> QED
        BY <2>2, <4>2
    <3>3. calls'[d] = calls[d] /\ Place(calls[d].op.key) # place
      BY <1>5, <1>6, <2>2, <3>1, <3>2
    <3> QED
      BY <1>0, <2>2, <3>3 DEF TornInv
  <2>3. \A k \in Keys : contents'[k] \in {Empty, Mixed} => k \in torn'
    BY <1>0, <1>4, WholeTexts DEF TornInv, UnreadableIsTorn
  <2> QED
    BY <2>1, <2>2, <2>3 DEF TornInv, UnreadableIsTorn
<1>9. ASSUME Careful \subseteq circumstances PROVE CarefulInv' /\ Map!Next
  <2>0. CarefulInv
    BY <1>9 DEF IInv
  <2>1. \A d \in Calls : d \notin writers
    <3> SUFFICES ASSUME NEW d \in Calls, d \in writers PROVE FALSE
      OBVIOUS
    <3>1. calls[d].phase = "writing" /\ d # c
      BY <1>0, <1>5
    <3>2. calls[d].op.key \in Keys /\ Place(calls[d].op.key) = calls[d].op.key
      BY <1>0, <1>9, <3>1, OwnTurn, PlaceIs
    <3> QED
      BY <1>1, <1>3, <1>5, <1>9, <2>0, <3>1, <3>2
  <2>2. calls' = [calls EXCEPT ![c] = s]
    BY <1>0, <2>1 DEF Typed
  <2>3. /\ Quiet(c, op.key, s) /\ contents'[op.key] = Absent
    <3>1. calls[c].op.key = op.key
      OBVIOUS
    <3>2. Absent \in Content /\ contents' \in [Keys -> Content \union {Empty, Mixed}]
      BY <1>7, WholeTexts DEF Typed
    <3> HIDE DEF op
    <3> QED
      BY <1>0, <1>2, <1>3, <1>4, <1>9, <2>2, <3>1, <3>2 DEF Quiet
  <2>4. CarefulInv' /\ Changes(c, op.key, s)
    <3> HIDE DEF op
    <3> QED
      BY <1>1, <1>2, <1>9, <2>3, QuietStep
  <2>5. \A d \in Calls : d # c /\ calls[d].phase = "writing" => calls[d].op.key # op.key
    BY <1>1, <2>0
  <2>6. Kept' = [Kept EXCEPT ![op.key] = Absent]
    <3> HIDE DEF op
    <3> QED
      BY <1>0, <1>1, <1>2, <1>9, <2>0, <2>3, <2>4, <2>5, KeptChanges
  <2>7. KeptCalls[c] = Asked(op) /\ KeptCalls' = [KeptCalls EXCEPT ![c] = s]
    <3> HIDE DEF op
    <3> QED
      BY <1>0, <1>1, <1>2, <2>4, CallsChange
  <2> QED
    BY <1>0, <1>1, <2>4, <2>6, <2>7, MapSteps DEF s
<1> QED
  BY <1>0, <1>7, <1>8, <1>9 DEF StepOK, Refines, IInv

LEMMA TruncateStep ==
    ASSUME StoresAssumption, IInv, NEW c \in Calls, Truncate(c)
    PROVE  StepOK
<1> DEFINE op == calls[c].op
           place == Place(op.key)
           s == Writing(op)
<1>0. /\ Typed /\ TornInv /\ calls[c].phase = "asked" /\ op.name = "put"
      /\ store = "file" /\ store' = store /\ circumstances' = circumstances
      /\ calls' = [calls EXCEPT ![c] = s]
      /\ contents' = [contents EXCEPT ![place] = Empty]
      /\ torn' = torn \union {place}
  BY DEF IInv, Truncate
<1>1. /\ op \in Operations /\ op.key \in Keys /\ calls[c] = Asked(op)
      /\ CarefulInv => \A d \in Calls :
           d # c /\ calls[d].phase \in {"asked", "writing", "detached"}
           => calls[d].op.key # op.key
  BY <1>0, OwnTurn
<1>2. s \in CallStates /\ s.phase = "writing" /\ s.op = op
  BY <1>1, StatesAre, WholeTexts DEF Answers
<1>3. place \in Keys /\ (Careful \subseteq circumstances => place = op.key)
  BY <1>1, PlaceIs
<1>4. /\ contents' \in [Keys -> Content \union {Empty, Mixed}]
      /\ \A k \in Keys : contents'[k] = IF k = place THEN Empty ELSE contents[k]
  BY <1>0, <1>3 DEF Typed
<1>5. /\ calls'[c] = s /\ \A d \in Calls : d # c => calls'[d] = calls[d]
      /\ calls' \in [Calls -> CallStates]
  BY <1>0, <1>2 DEF Typed
<1> HIDE DEF s
<1>6. Typed'
  BY <1>0, <1>2, <1>4, <1>5 DEF Typed
<1>7. TornInv'
  <2>1. \A k : Place(k)' = Place(k)
    BY <1>0, SameFiles
  <2>2. \A d \in Calls : calls'[d].phase = "writing" => Place(calls'[d].op.key) \in torn'
    BY <1>0, <1>2, <1>5 DEF TornInv
  <2>3. \A k \in Keys : contents'[k] \in {Empty, Mixed} => k \in torn'
    BY <1>0, <1>4 DEF TornInv, UnreadableIsTorn
  <2> QED
    BY <2>1, <2>2, <2>3 DEF TornInv, UnreadableIsTorn
<1>8. ASSUME Careful \subseteq circumstances PROVE CarefulInv' /\ Map!Next
  <2>0. CarefulInv /\ place = op.key
    BY <1>3, <1>8 DEF IInv
  <2> HIDE DEF place
  <2>1. CarefulInv'
    <3>1. ASSUME NEW d \in Calls, NEW e \in Calls, d # e,
                 calls'[d].phase \in {"asked", "writing", "detached"},
                 calls'[e].phase \in {"asked", "writing", "detached"}
          PROVE  calls'[d].op.key # calls'[e].op.key
      BY <1>0, <1>1, <1>2, <1>5, <2>0, <3>1 DEF CarefulInv
    <3>2. \A d \in Calls : calls'[d].phase # "detached"
      BY <1>2, <1>5, <2>0 DEF CarefulInv
    <3>3. ASSUME NEW d \in Calls, calls'[d].phase = "writing"
          PROVE  contents'[calls'[d].op.key] = Empty
      <4>1. CASE d = c
        BY <1>2, <1>3, <1>4, <1>5, <2>0, <4>1
      <4>2. CASE d # c
        <5>1. calls[d].op.key \in Keys /\ calls[d].phase = "writing" /\ calls'[d] = calls[d]
          BY <1>0, <1>5, <3>3, <4>2, OwnTurn
        <5> QED
          BY <1>4, <2>0, <5>1 DEF CarefulInv
      <4> QED
        BY <4>1, <4>2
    <3>4. ASSUME NEW j \in Keys, contents'[j] \in {Empty, Mixed}
          PROVE  \E d \in Calls : calls'[d].phase = "writing" /\ calls'[d].op.key = j
      <4>1. CASE j = place
        BY <1>2, <1>5, <2>0, <4>1
      <4>2. CASE j # place
        <5>1. PICK d \in Calls : calls[d].phase = "writing" /\ calls[d].op.key = j
          BY <1>4, <2>0, <3>4, <4>2 DEF CarefulInv
        <5> QED
          BY <1>0, <1>5, <5>1
      <4> QED
        BY <4>1, <4>2
    <3> QED
      BY <3>1, <3>2, <3>3, <3>4 DEF CarefulInv
  <2>2. Changes(c, op.key, s)
    <3> HIDE DEF op
    <3> QED
      BY <1>0, <1>2, <1>4, <2>0 DEF Changes
  <2>3. Kept' = [Kept EXCEPT ![op.key] = op.value]
    <3>1. \A d \in Calls : d # c /\ calls[d].phase = "writing" => calls[d].op.key # op.key
      BY <1>1, <2>0
    <3> HIDE DEF op
    <3> QED
      BY <1>0, <1>1, <1>2, <1>8, <2>0, <2>2, <3>1, KeptChanges
  <2>4. KeptCalls[c] = Asked(op) /\ KeptCalls' = [KeptCalls EXCEPT ![c] = Got(op, Absent)]
    <3> HIDE DEF op
    <3> QED
      BY <1>0, <1>1, <1>2, <2>2, CallsChange
  <2> QED
    BY <1>0, <1>1, <2>1, <2>3, <2>4, MapSteps
<1> QED
  BY <1>0, <1>6, <1>7, <1>8 DEF StepOK, Refines, IInv

LEMMA WriteStep ==
    ASSUME StoresAssumption, IInv, NEW c \in Calls, Write(c)
    PROVE  StepOK
<1> DEFINE op == calls[c].op
           place == Place(op.key)
           s == Got(op, Absent)
<1>0. Typed /\ TornInv /\ calls[c].phase \in {"writing", "detached"}
  BY DEF IInv, Write
<1>1. /\ op \in Operations /\ op.key \in Keys /\ op.name = "put"
      /\ op.value \in Values
  BY <1>0, OwnTurn DEF Typed
<1>2. s \in CallStates /\ s.phase = "answered"
  BY <1>1, StatesAre, WholeTexts DEF Answers
<1>3. /\ calls' = [calls EXCEPT ![c] = s]
      /\ store' = store /\ circumstances' = circumstances
  BY <1>1 DEF Write, Answered, Answer
<1>4. /\ calls'[c] = s /\ \A d \in Calls : d # c => calls'[d] = calls[d]
      /\ calls' \in [Calls -> CallStates]
  BY <1>0, <1>2, <1>3 DEF Typed
<1>5. \A k : Place(k)' = Place(k)
  BY <1>3, SameFiles
<1>6. CASE calls[c].phase = "detached"
  <2>1. contents' = contents /\ torn' = torn
    BY <1>6 DEF Write
  <2>2. Typed'
    BY <1>0, <1>2, <1>3, <1>4, <2>1 DEF Typed
  <2>3. TornInv'
    BY <1>0, <1>2, <1>4, <1>5, <2>1 DEF TornInv, UnreadableIsTorn
  <2>4. ~(Careful \subseteq circumstances)
    BY <1>6 DEF IInv, CarefulInv
  <2> QED
    BY <1>3, <2>2, <2>3, <2>4 DEF StepOK, Refines, IInv
<1>7. CASE calls[c].phase = "writing"
  <2>0. place \in Keys /\ (Careful \subseteq circumstances => place = op.key)
    BY <1>1, PlaceIs
  <2>1. /\ contents' = [contents EXCEPT ![place] = Overwritten(contents[place], op.value)]
        /\ torn' = IF Whole(place, c) THEN torn \ {place} ELSE torn
    BY <1>7 DEF Write
  <2>2. /\ Overwritten(contents[place], op.value) \in {op.value, Mixed}
        /\ op.value \in Content
    BY <1>1, WholeTexts DEF Overwritten
  <2>3. /\ \A k \in Keys : contents'[k] = IF k = place
             THEN Overwritten(contents[place], op.value) ELSE contents[k]
        /\ contents' \in [Keys -> Content \union {Empty, Mixed}]
    BY <1>0, <2>0, <2>1, <2>2 DEF Typed
  <2>4. Typed'
    BY <1>0, <1>2, <1>3, <1>4, <2>3 DEF Typed
  <2>5. TornInv'
    <3>1. ASSUME NEW d \in Calls, calls'[d].phase = "writing"
          PROVE  Place(calls'[d].op.key) \in torn'
      <4>1. d # c /\ calls[d].phase = "writing" /\ calls'[d] = calls[d]
        BY <1>2, <1>4, <3>1
      <4>2. Whole(place, c) => Place(calls[d].op.key) # place
        BY <4>1 DEF Whole, Busy, Idle
      <4> QED
        BY <1>0, <2>1, <4>1, <4>2 DEF TornInv
    <3>2. ASSUME NEW k \in Keys, contents'[k] \in {Empty, Mixed}
          PROVE  k \in torn'
      <4>1. CASE k = place
        <5>1. ~Whole(place, c)
          BY <2>0, <2>2, <2>3, <3>2, <4>1, WholeTexts DEF Whole
        <5> QED
          BY <1>0, <1>7, <2>1, <4>1, <5>1 DEF TornInv
      <4>2. CASE k # place
        BY <1>0, <2>1, <2>3, <3>2, <4>2 DEF TornInv, UnreadableIsTorn
      <4> QED
        BY <4>1, <4>2
    <3> QED
      BY <1>5, <3>1, <3>2 DEF TornInv, UnreadableIsTorn
  <2>6. ASSUME Careful \subseteq circumstances
        PROVE  CarefulInv' /\ Kept' = Kept /\ KeptCalls' = KeptCalls
    <3>0. /\ CarefulInv /\ place = op.key
          /\ \A d \in Calls : d # c /\ calls[d].phase = "writing" =>
               calls[d].op.key # op.key
      BY <1>0, <1>7, <2>0, <2>6, OwnTurn DEF IInv
    <3>1. contents[op.key] = Empty
      BY <1>7, <3>0 DEF CarefulInv
    <3>2. /\ contents'[op.key] = op.value
          /\ \A k \in Keys : k # op.key => contents'[k] = contents[k]
      <4>1. Overwritten(contents[op.key], op.value) = op.value
        BY <3>1, WholeTexts DEF Overwritten
      <4> QED
        BY <1>1, <2>3, <3>0, <4>1
    <3> HIDE DEF place, s
    <3>3. CarefulInv'
      <4>1. ASSUME NEW d \in Calls, calls'[d].phase = "writing"
            PROVE  contents'[calls'[d].op.key] = Empty
        <5>1. d # c /\ calls'[d] = calls[d]
          BY <1>2, <1>4, <4>1
        <5>2. calls[d].op.key \in Keys /\ calls[d].op.key # op.key
          BY <1>0, <3>0, <4>1, <5>1, OwnTurn
        <5> QED
          BY <3>0, <3>2, <4>1, <5>1, <5>2 DEF CarefulInv
      <4>2. ASSUME NEW j \in Keys, contents'[j] \in {Empty, Mixed}
            PROVE  \E d \in Calls : calls'[d].phase = "writing" /\ calls'[d].op.key = j
        <5>1. j # op.key /\ contents[j] \in {Empty, Mixed}
          BY <2>2, <3>2, <4>2, WholeTexts
        <5>2. PICK d \in Calls : calls[d].phase = "writing" /\ calls[d].op.key = j
          BY <3>0, <5>1 DEF CarefulInv
        <5> QED
          BY <1>4, <5>1, <5>2
      <4> QED
        BY <1>2, <1>4, <3>0, <4>1, <4>2 DEF CarefulInv
    <3>4. Changes(c, op.key, s)
      BY <1>2, <1>3, <2>3, <3>2 DEF Changes
    <3>5. Kept' = [Kept EXCEPT ![op.key] = op.value]
      <4> HIDE DEF op
      <4> QED
        BY <1>0, <1>1, <1>2, <2>6, <3>0, <3>2, <3>4, KeptChanges
    <3>6. Kept[op.key] = op.value
      <4>1. Maps(calls, contents, op.key, Kept[op.key])
        BY <1>1, <2>6, KeptIsMapped
      <4>2. Writers(calls, op.key) = {c}
        BY <1>7, <3>0 DEF Writers
      <4> QED
        BY <4>1, <4>2 DEF Maps
    <3>7. KeptCalls' = [KeptCalls EXCEPT ![c] = s] /\ KeptCalls[c] = s
      <4>1. KeptCalls[c] = s
        BY <1>7 DEF KeptCalls, s
      <4>2. KeptCalls' = [KeptCalls EXCEPT ![c] = s]
        <5> HIDE DEF op
        <5> QED
          BY <1>0, <1>2, <3>4, CallsChange
      <4> QED
        BY <4>1, <4>2
    <3> QED
      BY ZenonT(40), <3>3, <3>5, <3>6, <3>7 DEF Kept, KeptCalls
  <2> QED
    BY <1>3, <2>4, <2>5, <2>6 DEF StepOK, Refines, IInv
<1> QED
  BY <1>0, <1>6, <1>7

LEMMA RestartStep ==
    ASSUME StoresAssumption, IInv, Restart
    PROVE  StepOK
<1>0. /\ Typed /\ TornInv /\ calls' = [c \in Calls |-> Idle]
      /\ contents' = IF store = "memory" THEN [k \in Keys |-> Absent] ELSE contents
      /\ store' = store /\ torn' = torn /\ circumstances' = circumstances
  BY DEF IInv, Restart
<1>1. Idle \in CallStates /\ Idle.phase = "idle" /\ Absent \in Content
  BY WholeTexts DEF CallStates, Idle
<1>2. \A c \in Calls : calls'[c] = Idle
  BY <1>0
<1>3. /\ contents' \in [Keys -> Content \union {Empty, Mixed}]
      /\ \A k \in Keys : contents'[k] \in {Empty, Mixed} => contents'[k] = contents[k]
  BY <1>0, <1>1, WholeTexts DEF Typed
<1>4. Typed'
  <2>1. calls' \in [Calls -> CallStates]
    BY <1>0, <1>1
  <2> QED
    BY <1>0, <1>1, <1>2, <1>3, <2>1 DEF Typed
<1>5. TornInv'
  BY <1>0, <1>1, <1>2, <1>3 DEF TornInv, UnreadableIsTorn
<1>6. ASSUME Careful \subseteq circumstances PROVE CarefulInv' /\ Map!Next
  <2>1. /\ CarefulInv /\ store = "file" /\ contents' = contents
        /\ \A c \in Calls : calls[c].phase # "writing"
    BY <1>0, <1>6 DEF IInv, Restart, Careful, Assume
  <2>2. CarefulInv'
    BY <1>1, <1>2, <2>1 DEF CarefulInv
  <2>3. Kept' = Kept
    <3>1. ASSUME NEW k \in Keys PROVE Kept'[k] = Kept[k]
      <4>1. Maps(calls, contents, k, Kept[k]) /\ Maps(calls', contents', k, Kept'[k])
        BY <1>0, <1>6, KeptIsMapped
      <4>2. Writers(calls, k) = {} /\ Writers(calls', k) = {}
        BY <1>1, <1>2, <2>1 DEF Writers
      <4> QED
        BY <2>1, <4>1, <4>2 DEF Maps
    <3>2. Kept = [k \in Keys |-> Kept[k]] /\ Kept' = [k \in Keys |-> Kept'[k]]
      BY DEF Kept
    <3> QED
      BY <3>1, <3>2
  <2>4. KeptCalls' = [c \in Calls |-> Idle]
    BY <1>1, <1>2 DEF KeptCalls
  <2> QED
    BY <2>2, <2>3, <2>4, MapOperators DEF Map!Next, Map!Restart
<1> QED
  BY <1>0, <1>4, <1>5, <1>6 DEF StepOK, Refines, IInv

-----------------------------------------------------------------------------
(* The theorems *)

LEMMA InitOK ==
    ASSUME StoresAssumption, Init
    PROVE  IInv /\ Map!Init
<1>0. Idle \in CallStates /\ Idle.phase = "idle" /\ Absent \in Content
  BY WholeTexts DEF CallStates, Idle
<1>1. \A c \in Calls : calls[c] = Idle
  BY DEF Init
<1>2. contents \in [Keys -> Content \union {Empty, Mixed}]
      /\ \A k \in Keys : contents[k] = Absent
  BY <1>0 DEF Init
<1>3. Typed
  <2>1. calls \in [Calls -> CallStates] /\ store \in {"memory", "file"}
    BY <1>0 DEF Init
  <2> QED
    BY <1>0, <1>1, <1>2, <2>1 DEF Typed
<1>4. TornInv /\ CarefulInv
  BY <1>0, <1>1, <1>2, WholeTexts DEF TornInv, UnreadableIsTorn, CarefulInv
<1>5. Kept = [k \in Keys |-> Absent]
  <2>1. \A k \in Keys : InProgress(k) = {} /\ Place(k) \in Keys
    BY <1>0, <1>1, PlaceIs DEF InProgress
  <2> QED
    BY <1>2, <2>1 DEF Kept
<1>6. KeptCalls = [c \in Calls |-> Idle]
  BY <1>0, <1>1 DEF KeptCalls
<1> QED
  BY <1>3, <1>4, <1>5, <1>6, MapOperators DEF IInv, Map!Init

LEMMA NextOK ==
    ASSUME StoresAssumption, IInv, [Next]_vars
    PROVE  StepOK
<1>1. CASE UNCHANGED vars
  <2>1. /\ store' = store /\ calls' = calls /\ contents' = contents /\ torn' = torn
        /\ circumstances' = circumstances
    BY <1>1 DEF vars
  <2>2. \A k : Place(k)' = Place(k)
    BY <2>1, SameFiles
  <2>3. IInv'
    BY <2>1, <2>2 DEF IInv, Typed, TornInv, UnreadableIsTorn, CarefulInv
  <2>4. ASSUME Careful \subseteq circumstances PROVE Kept' = Kept
    <3>1. CarefulInv
      BY <2>4 DEF IInv
    <3>2. ASSUME NEW k \in Keys PROVE Kept'[k] = Kept[k]
      <4>1. Maps(calls, contents, k, Kept[k]) /\ Maps(calls', contents', k, Kept'[k])
        BY <2>1, <2>4, KeptIsMapped
      <4>2. \A d, e \in Writers(calls, k) : d = e
        BY <3>1 DEF Writers, CarefulInv
      <4> QED
        BY <2>1, <4>1, <4>2 DEF Maps
    <3>3. Kept = [k \in Keys |-> Kept[k]] /\ Kept' = [k \in Keys |-> Kept'[k]]
      BY DEF Kept
    <3> QED
      BY <3>2, <3>3
  <2>5. KeptCalls' = KeptCalls
    BY <2>1 DEF KeptCalls
  <2> QED
    BY <2>3, <2>4, <2>5 DEF StepOK, Refines
<1>2. CASE Next
  BY <1>2, AskStep, ReadStep, InsertStep, RemoveStep, TruncateStep, WriteStep, EndStep,
     RestartStep DEF Next
<1> QED
  BY <1>1, <1>2

(* A file that cannot be read is one whose writing a restart cut off or    *)
(* another call crossed, and that no put or delete by itself has healed    *)
(* since, in FileStore and MemoryStore, whoever calls them when.           *)
THEOREM UnreadableAreTorn ==
    ASSUME StoresAssumption
    PROVE  Spec => []UnreadableIsTorn
<1>1. Init => IInv
  BY InitOK
<1>2. IInv /\ [Next]_vars => IInv'
  BY NextOK DEF StepOK
<1>3. IInv => UnreadableIsTorn
  BY DEF IInv, TornInv
<1> QED
  BY <1>1, <1>2, <1>3, PTL DEF Spec

(* For careful callers both stores are the map of the trait: each call     *)
(* takes effect at one moment, and a restart loses nothing.                *)
THEOREM StoresAreMaps ==
    ASSUME StoresAssumption
    PROVE  Spec => ImplementsKeyValue
<1>1. Init => IInv /\ Map!Init
  BY InitOK
<1>2. IInv /\ [Next]_vars => IInv'
  BY NextOK DEF StepOK
<1>3. IInv /\ [Next]_vars =>
        [Careful \subseteq circumstances => [Map!Next]_(Map!vars)]_vars
  BY NextOK DEF StepOK, Refines, Map!vars
<1> QED
  BY <1>1, <1>2, <1>3, PTL DEF Spec, ImplementsKeyValue


-----------------------------------------------------------------------------
(* Induction over the natural numbers, of a set. *)
LEMMA Induct ==
    ASSUME NEW T, \A n \in Nat : (\A m \in Nat : m < n => m \in T) => n \in T
    PROVE  \A n \in Nat : n \in T
<1> SUFFICES ASSUME Nat \ T # {} PROVE FALSE
  OBVIOUS
<1>1. PICK n \in Nat \ T : \A m \in Nat \ T : ~(<<m, n>> \in OpToRel(<, Nat))
  <2>1. Nat \ T \subseteq Nat
    OBVIOUS
  <2> QED
    BY <2>1, NatLessThanWellFounded, WFMin
<1>2. \A m \in Nat \ T : ~(m < n)
  BY <1>1 DEF OpToRel
<1> QED
  BY <1>2

(* Division with its remainder. *)
LEMMA Divided ==
    ASSUME NEW a \in Nat, NEW b \in Nat \ {0}
    PROVE  /\ a \div b \in Nat /\ a % b \in 0..(b - 1)
           /\ a = b * (a \div b) + (a % b)
OBVIOUS

LEMMA DividedOnce ==
    ASSUME NEW b \in Nat \ {0}, NEW q \in Nat, NEW r \in 0..(b - 1)
    PROVE  (b * q + r) \div b = q /\ (b * q + r) % b = r
OBVIOUS

LEMMA DividedIsLess ==
    ASSUME NEW a \in Nat \ {0}, NEW b \in Nat \ {0, 1}
    PROVE  a \div b \in Nat /\ a \div b < a
<1> DEFINE q == a \div b
           r == a % b
<1>1. q \in Nat /\ r \in Nat /\ a = b * q + r
  BY Divided
<1> HIDE DEF q, r
<1>2. CASE q = 0
  BY <1>1, <1>2 DEF q
<1>3. CASE q > 0
  <2>1. b * q >= 2 * q
    BY <1>1
  <2> QED
    BY <1>1, <1>3, <2>1 DEF q
<1> QED
  BY <1>1, <1>2, <1>3

-----------------------------------------------------------------------------
(* Uleb128 *)

(* A function that writes the numbers up to n as Uleb128 does. *)
Written(f, v) ==
    IF v < Half THEN <<v>> ELSE <<Half + (v % Half)>> \o f[v \div Half]

Writes(f, n) == f = [v \in 0..n |-> Written(f, v)]

LEMMA WritesAt ==
    ASSUME NEW n \in Nat, NEW f, Writes(f, n), NEW v \in 0..n
    PROVE  f[v] = Written(f, v)
<1> DEFINE g == [w \in 0..n |-> Written(f, w)]
<1>1. g[v] = Written(f, v)
  OBVIOUS
<1>2. f = g
  BY DEF Writes
<1> HIDE DEF g
<1> QED
  BY <1>1, <1>2

LEMMA WritesExists ==
    ASSUME Bytes!BytesAssumption
    PROVE  \A n \in Nat : \E f : Writes(f, n)
<1> DEFINE T == {n \in Nat : \E f : Writes(f, n)}
<1>1. ASSUME NEW n \in Nat, \A m \in Nat : m < n => m \in T
      PROVE  n \in T
  <2>1. \E f : \A v \in 0..(n - 1) : f[v] = Written(f, v)
    <3>1. CASE n = 0
      BY <3>1
    <3>2. CASE n # 0
      <4>1. PICK f : Writes(f, n - 1)
        BY <1>1, <3>2
      <4>2. \A v \in 0..(n - 1) : f[v] = Written(f, v)
        BY <3>2, <4>1, WritesAt
      <4> QED
        BY <4>2
    <3> QED
      BY <3>1, <3>2
  <2>2. PICK f : \A v \in 0..(n - 1) : f[v] = Written(f, v)
    BY <2>1
  <2> DEFINE g == [v \in 0..n |-> IF v = n THEN Written(f, n) ELSE f[v]]
  <2>3. ASSUME NEW v \in 0..n PROVE g[v] = Written(g, v)
    <3>1. g[v] = Written(f, v)
      BY <2>2
    <3>2. CASE v < Half
      BY <3>1, <3>2 DEF Written
    <3>3. CASE ~(v < Half)
      <4>1. v \div Half \in Nat /\ v \div Half < v
        BY <3>3, DividedIsLess DEF Bytes!BytesAssumption
      <4>2. g[v \div Half] = f[v \div Half]
        BY <4>1
      <4> QED
        BY <3>1, <3>3, <4>2 DEF Written
    <3> QED
      BY <3>2, <3>3
  <2>4. g = [v \in 0..n |-> g[v]]
    OBVIOUS
  <2> HIDE DEF g
  <2>5. Writes(g, n)
    BY <2>3, <2>4 DEF Writes
  <2> QED
    BY <2>5
<1> HIDE DEF T
<1>2. \A n \in Nat : n \in T
  BY <1>1, Induct
<1> QED
  BY <1>2 DEF T

LEMMA WritesOnce ==
    ASSUME Bytes!BytesAssumption, NEW n \in Nat, NEW m \in Nat, NEW f, NEW g,
           Writes(f, n), Writes(g, m)
    PROVE  \A v \in Nat : v <= n /\ v <= m => f[v] = g[v]
<1> DEFINE T == {v \in Nat : v <= n /\ v <= m => f[v] = g[v]}
<1>1. ASSUME NEW v \in Nat, \A w \in Nat : w < v => w \in T
      PROVE  v \in T
  <2> SUFFICES ASSUME v <= n, v <= m PROVE f[v] = g[v]
    OBVIOUS
  <2>1. f[v] = Written(f, v) /\ g[v] = Written(g, v)
    BY WritesAt
  <2>2. CASE v < Half
    BY <2>1, <2>2 DEF Written
  <2>3. CASE ~(v < Half)
    <3>1. v \div Half \in Nat /\ v \div Half < v
      BY <2>3, DividedIsLess DEF Bytes!BytesAssumption
    <3>2. f[v \div Half] = g[v \div Half]
      BY <1>1, <3>1
    <3> QED
      BY <2>1, <2>3, <3>2 DEF Written
  <2> QED
    BY <2>2, <2>3
<1> HIDE DEF T
<1>2. \A v \in Nat : v \in T
  BY <1>1, Induct
<1> QED
  BY <1>2 DEF T

LEMMA Uleb128Writes ==
    ASSUME Bytes!BytesAssumption, NEW n \in Nat
    PROVE  \E f : Writes(f, n) /\ Bytes!Uleb128(n) = f[n]
<1>1. \E f : Writes(f, n)
  BY WritesExists
<1> QED
  BY <1>1 DEF Writes, Written, Bytes!Uleb128

(* A number before a sequence of them. *)
Then(a, s) == <<a>> \o s

Joined(s, t) == s \o t

LEMMA ThenIs ==
    ASSUME NEW a \in Nat, NEW s \in Seq(Nat)
    PROVE  Then(a, s) \in Seq(Nat) /\ Head(Then(a, s)) = a /\ Tail(Then(a, s)) = s
BY DEF Then

LEMMA ThenOnce ==
    ASSUME NEW a \in Nat, NEW b \in Nat, NEW s \in Seq(Nat), NEW t \in Seq(Nat),
           Then(a, s) = Then(b, t)
    PROVE  a = b /\ s = t
BY ThenIs

LEMMA ThenMore ==
    ASSUME NEW a \in Nat, NEW s \in Seq(Nat), NEW t \in Seq(Nat)
    PROVE  Joined(Then(a, s), t) = Then(a, Joined(s, t))
<1>1. <<a>> \in Seq(Nat)
  OBVIOUS
<1> QED
  BY <1>1, ConcatAssociative DEF Then, Joined

LEMMA One ==
    ASSUME NEW a \in Nat
    PROVE  <<a>> \in Seq(Nat) /\ \A s : <<a>> \o s = Then(a, s)
BY DEF Then

(* The definition of Uleb128, without its table. *)
LEMMA Uleb128Is ==
    ASSUME Bytes!BytesAssumption, NEW n \in Nat
    PROVE  Bytes!Uleb128(n) = IF n < Half THEN <<n>>
                        ELSE Then(Half + (n % Half), Bytes!Uleb128(n \div Half))
<1>1. PICK f : Writes(f, n) /\ Bytes!Uleb128(n) = f[n]
  BY Uleb128Writes
<1>2. f[n] = Written(f, n)
  BY <1>1, WritesAt
<1>3. CASE n < Half
  BY <1>1, <1>2, <1>3 DEF Written
<1>4. CASE ~(n < Half)
  <2>1. n \div Half \in Nat /\ n \div Half < n
    BY <1>4, DividedIsLess DEF Bytes!BytesAssumption
  <2>2. PICK g : Writes(g, n \div Half) /\ Bytes!Uleb128(n \div Half) = g[n \div Half]
    BY <2>1, Uleb128Writes
  <2>3. f[n \div Half] = g[n \div Half]
    BY <1>1, <2>1, <2>2, WritesOnce
  <2> QED
    BY <1>1, <1>2, <1>4, <2>2, <2>3 DEF Written, Then
<1> QED
  BY <1>3, <1>4

LEMMA Uleb128Type ==
    ASSUME Bytes!BytesAssumption
    PROVE  \A n \in Nat : Bytes!Uleb128(n) \in Seq(Nat)
<1> DEFINE T == {n \in Nat : Bytes!Uleb128(n) \in Seq(Nat)}
<1>1. ASSUME NEW n \in Nat, \A m \in Nat : m < n => m \in T
      PROVE  Bytes!Uleb128(n) \in Seq(Nat)
  <2>1. CASE n < Half
    <3>1. Bytes!Uleb128(n) = <<n>>
      BY <2>1, Uleb128Is
    <3> QED
      BY <3>1, One
  <2>2. CASE ~(n < Half)
    <3>1. n \div Half \in Nat /\ n \div Half < n /\ n % Half \in Nat
      BY <2>2, DividedIsLess, Divided DEF Bytes!BytesAssumption
    <3>2. Bytes!Uleb128(n \div Half) \in Seq(Nat)
      BY <1>1, <3>1
    <3>3. Half + (n % Half) \in Nat
      BY <3>1 DEF Bytes!BytesAssumption
    <3>4. Then(Half + (n % Half), Bytes!Uleb128(n \div Half)) \in Seq(Nat)
      BY <3>2, <3>3, ThenIs
    <3> QED
      BY <2>2, <3>4, Uleb128Is
  <2> QED
    BY <2>1, <2>2
<1>2. \A n \in Nat : (\A m \in Nat : m < n => m \in T) => n \in T
  BY <1>1
<1> HIDE DEF T
<1>3. \A n \in Nat : n \in T
  BY <1>2, Induct
<1> QED
  BY <1>3 DEF T

(* What a byte with the high bit says, and what it leaves to say. *)
Low(n) == Half + (n % Half)
High(n) == n \div Half

LEMMA LowAndHigh ==
    ASSUME Bytes!BytesAssumption, NEW n \in Nat, ~(n < Half)
    PROVE  /\ Low(n) \in Nat /\ Half <= Low(n)
           /\ High(n) \in Nat /\ High(n) < n
BY DividedIsLess, Divided DEF Bytes!BytesAssumption, Low, High

LEMMA LowAndHighOnce ==
    ASSUME Bytes!BytesAssumption, NEW n \in Nat, NEW m \in Nat,
           Low(n) = Low(m), High(n) = High(m)
    PROVE  n = m
<1>1. Half \in Nat \ {0}
  BY DEF Bytes!BytesAssumption
<1>2. n % Half \in Nat /\ n = Half * (n \div Half) + (n % Half)
  BY <1>1, Divided
<1>3. m % Half \in Nat /\ m = Half * (m \div Half) + (m % Half)
  BY <1>1, Divided
<1>4. n \div Half = m \div Half
  BY DEF High
<1>5. n % Half = m % Half
  <2> DEFINE d == n % Half
             e == m % Half
  <2>1. d \in Nat /\ e \in Nat /\ Half + d = Half + e
    BY <1>2, <1>3 DEF Low
  <2> HIDE DEF d, e
  <2>2. d = e
    BY <1>1, <2>1
  <2> QED
    BY <2>2 DEF d, e
<1> QED
  BY <1>2, <1>3, <1>4, <1>5

(* What begins with a number that is written. *)
LEMMA Uleb128Begins ==
    ASSUME Bytes!BytesAssumption, NEW k \in Nat, NEW u \in Seq(Nat)
    PROVE  /\ k < Half => Joined(Bytes!Uleb128(k), u) = Then(k, u)
           /\ ~(k < Half) =>
                /\ Joined(Bytes!Uleb128(k), u) = Then(Low(k), Joined(Bytes!Uleb128(High(k)), u))
                /\ Joined(Bytes!Uleb128(High(k)), u) \in Seq(Nat)
<1>1. CASE k < Half
  BY <1>1, Uleb128Is, One DEF Joined
<1>2. CASE ~(k < Half)
  <2>1. Low(k) \in Nat /\ High(k) \in Nat
    BY <1>2, LowAndHigh
  <2>2. Bytes!Uleb128(High(k)) \in Seq(Nat)
    BY <2>1, Uleb128Type
  <2>3. Bytes!Uleb128(k) = Then(Low(k), Bytes!Uleb128(High(k)))
    BY <1>2, Uleb128Is DEF Low, High
  <2>4. Joined(Bytes!Uleb128(k), u) = Then(Low(k), Joined(Bytes!Uleb128(High(k)), u))
    BY <2>1, <2>2, <2>3, ThenMore
  <2>5. Joined(Bytes!Uleb128(High(k)), u) \in Seq(Nat)
    BY <2>2, ConcatProperties DEF Joined
  <2> QED
    BY <1>2, <2>4, <2>5
<1> QED
  BY <1>1, <1>2

(* No number is written as the beginning of another. *)
LEMMA Uleb128Ends ==
    ASSUME Bytes!BytesAssumption
    PROVE  \A n, m \in Nat, s, t \in Seq(Nat) :
             Joined(Bytes!Uleb128(n), s) = Joined(Bytes!Uleb128(m), t) => n = m /\ s = t
<1> DEFINE T == {n \in Nat : \A m \in Nat, s, t \in Seq(Nat) :
                   Joined(Bytes!Uleb128(n), s) = Joined(Bytes!Uleb128(m), t) => n = m /\ s = t}
<1>1. Half \in Nat
  BY DEF Bytes!BytesAssumption
<1>2. ASSUME NEW n \in Nat, \A m \in Nat : m < n => m \in T,
             NEW m \in Nat, NEW s \in Seq(Nat), NEW t \in Seq(Nat),
             Joined(Bytes!Uleb128(n), s) = Joined(Bytes!Uleb128(m), t)
      PROVE  n = m /\ s = t
  <2>1. CASE n < Half /\ m < Half
    <3>1. Then(n, s) = Then(m, t)
      BY <1>2, <2>1, Uleb128Begins
    <3> QED
      BY <3>1, ThenOnce
  <2>2. CASE n < Half /\ ~(m < Half)
    <3>1. Then(n, s) = Then(Low(m), Joined(Bytes!Uleb128(High(m)), t))
      BY <1>2, <2>2, Uleb128Begins
    <3>2. Joined(Bytes!Uleb128(High(m)), t) \in Seq(Nat)
      BY <2>2, Uleb128Begins
    <3>3. Low(m) \in Nat /\ Half <= Low(m)
      BY <2>2, LowAndHigh
    <3>4. n = Low(m)
      BY <3>1, <3>2, <3>3, ThenOnce
    <3> QED
      BY <1>1, <2>2, <3>3, <3>4
  <2>3. CASE ~(n < Half) /\ m < Half
    <3>1. Then(m, t) = Then(Low(n), Joined(Bytes!Uleb128(High(n)), s))
      BY <1>2, <2>3, Uleb128Begins
    <3>2. Joined(Bytes!Uleb128(High(n)), s) \in Seq(Nat)
      BY <2>3, Uleb128Begins
    <3>3. Low(n) \in Nat /\ Half <= Low(n)
      BY <2>3, LowAndHigh
    <3>4. m = Low(n)
      BY <3>1, <3>2, <3>3, ThenOnce
    <3> QED
      BY <1>1, <2>3, <3>3, <3>4
  <2>4. CASE ~(n < Half) /\ ~(m < Half)
    <3>1. Then(Low(n), Joined(Bytes!Uleb128(High(n)), s)) = Then(Low(m), Joined(Bytes!Uleb128(High(m)), t))
      BY <1>2, <2>4, Uleb128Begins
    <3>2. Joined(Bytes!Uleb128(High(n)), s) \in Seq(Nat) /\ Joined(Bytes!Uleb128(High(m)), t) \in Seq(Nat)
      BY <2>4, Uleb128Begins
    <3>3. Low(n) \in Nat /\ Low(m) \in Nat /\ High(n) \in Nat /\ High(m) \in Nat
      BY <2>4, LowAndHigh
    <3>4. Low(n) = Low(m) /\ Joined(Bytes!Uleb128(High(n)), s) = Joined(Bytes!Uleb128(High(m)), t)
      BY <3>1, <3>2, <3>3, ThenOnce
    <3>5. High(n) \in T
      BY <1>2, <2>4, LowAndHigh
    <3>6. High(n) = High(m) /\ s = t
      BY <3>3, <3>4, <3>5
    <3> QED
      BY <3>4, <3>6, LowAndHighOnce
  <2> QED
    BY <2>1, <2>2, <2>3, <2>4
<1>3. \A n \in Nat : (\A m \in Nat : m < n => m \in T) => n \in T
  BY <1>2
<1> HIDE DEF T
<1>4. \A n \in Nat : n \in T
  BY <1>3, Induct
<1> QED
  BY <1>4 DEF T

-----------------------------------------------------------------------------
(* LittleEndian *)

LEMMA ByteIsNat ==
    ASSUME Bytes!BytesAssumption
    PROVE  Bytes!Byte \in Nat \ {0}
BY DEF Bytes!BytesAssumption, Bytes!Byte

LEMMA HoldsIs ==
    ASSUME Bytes!BytesAssumption
    PROVE  Bytes!Holds = [k \in 0..Width |-> IF k = 0 THEN 1 ELSE Bytes!Byte * Bytes!Holds[k - 1]]
<1> DEFINE Counts(f, n) == f = [k \in 0..n |-> IF k = 0 THEN 1 ELSE Bytes!Byte * f[k - 1]]
           T == {n \in Nat : \E f : Counts(f, n)}
<1>1. ASSUME NEW n \in Nat, \A m \in Nat : m < n => m \in T
      PROVE  \E f : Counts(f, n)
  <2>1. \E f : \A k \in 0..(n - 1) : f[k] = IF k = 0 THEN 1 ELSE Bytes!Byte * f[k - 1]
    <3>1. CASE n = 0
      BY <3>1
    <3>2. CASE n # 0
      <4>1. PICK f : Counts(f, n - 1)
        BY <1>1, <3>2
      <4>2. \A k \in 0..(n - 1) : f[k] = IF k = 0 THEN 1 ELSE Bytes!Byte * f[k - 1]
        BY <4>1
      <4> QED
        BY <4>2
    <3> QED
      BY <3>1, <3>2
  <2>2. PICK f : \A k \in 0..(n - 1) : f[k] = IF k = 0 THEN 1 ELSE Bytes!Byte * f[k - 1]
    BY <2>1
  <2> DEFINE g == [k \in 0..n |-> IF k = 0 THEN 1
                                  ELSE IF k = n THEN Bytes!Byte * f[n - 1] ELSE f[k]]
  <2>3. ASSUME NEW k \in 0..n
        PROVE  g[k] = IF k = 0 THEN 1 ELSE Bytes!Byte * g[k - 1]
    <3>1. CASE k = 0
      BY <3>1
    <3>2. CASE k # 0
      <4>1. k - 1 \in 0..(n - 1) /\ g[k - 1] = f[k - 1]
        BY <2>2, <3>2
      <4>2. g[k] = Bytes!Byte * f[k - 1]
        BY <2>2, <3>2
      <4> QED
        BY <3>2, <4>1, <4>2
    <3> QED
      BY <3>1, <3>2
  <2>4. Counts(g, n)
    BY <2>3
  <2> QED
    BY <2>4
<1>2. \A n \in Nat : (\A m \in Nat : m < n => m \in T) => n \in T
  BY <1>1
<1>3. Width \in Nat
  BY DEF Bytes!BytesAssumption
<1>4. Width \in T
  <2> HIDE DEF T
  <2> QED
    BY <1>2, <1>3, Induct
<1> QED
  BY <1>4 DEF Bytes!Holds

LEMMA HoldsAt ==
    ASSUME Bytes!BytesAssumption
    PROVE  /\ Bytes!Holds[0] = 1
           /\ \A k \in 1..Width : Bytes!Holds[k] = Bytes!Byte * Bytes!Holds[k - 1]
<1> DEFINE f == [k \in 0..Width |-> IF k = 0 THEN 1 ELSE Bytes!Byte * Bytes!Holds[k - 1]]
<1>1. /\ f[0] = 1
      /\ \A k \in 1..Width : f[k] = Bytes!Byte * Bytes!Holds[k - 1]
  BY DEF Bytes!BytesAssumption
<1>2. Bytes!Holds = f
  BY HoldsIs
<1> HIDE DEF f
<1> QED
  BY <1>1, <1>2

LEMMA HoldsType ==
    ASSUME Bytes!BytesAssumption
    PROVE  \A k \in 0..Width : Bytes!Holds[k] \in Nat \ {0}
<1> DEFINE T == {k \in Nat : k \in 0..Width => Bytes!Holds[k] \in Nat \ {0}}
<1>1. ASSUME NEW k \in Nat, \A j \in Nat : j < k => j \in T, k \in 0..Width
      PROVE  Bytes!Holds[k] \in Nat \ {0}
  <2>1. CASE k = 0
    BY <2>1, HoldsAt
  <2>2. CASE k # 0
    <3>1. Bytes!Holds[k - 1] \in Nat \ {0}
      BY <1>1, <2>2 DEF Bytes!BytesAssumption
    <3>2. Bytes!Holds[k] = Bytes!Byte * Bytes!Holds[k - 1]
      BY <1>1, <2>2, HoldsAt DEF Bytes!BytesAssumption
    <3> QED
      BY <3>1, <3>2, ByteIsNat
  <2> QED
    BY <2>1, <2>2
<1>2. \A k \in Nat : (\A j \in Nat : j < k => j \in T) => k \in T
  BY <1>1
<1> HIDE DEF T
<1>3. \A k \in Nat : k \in T
  BY <1>2, Induct
<1> QED
  BY <1>3 DEF T

(* The remainder by a product. *)
LEMMA NextDigit ==
    ASSUME NEW n \in Nat, NEW v \in Nat \ {0}, NEW b \in Nat \ {0}
    PROVE  n % (b * v) = (((n \div v) % b) * v) + (n % v)
<1> DEFINE q == n \div v
           r == n % v
           p == q \div b
           d == q % b
<1>1. q \in Nat /\ r \in 0..(v - 1) /\ n = v * q + r
  BY Divided
<1>2. p \in Nat /\ d \in 0..(b - 1) /\ q = b * p + d
  <2> HIDE DEF q
  <2> QED
    BY <1>1, Divided
<1>3. n % (b * v) = d * v + r
  <2> HIDE DEF q, r, p, d
  <2>1. n = (b * v) * p + (d * v + r)
    BY <1>1, <1>2
  <2>2. b * v \in Nat \ {0}
    OBVIOUS
  <2>3. d * v <= (b - 1) * v /\ d * v \in Nat
    BY <1>2
  <2>4. (b - 1) * v = b * v - v
    OBVIOUS
  <2> DEFINE w == b * v
             e == d * v
  <2>5. e + r \in 0..(w - 1)
    <3>1. e \in Nat /\ w \in Nat /\ e <= w - v
      BY <2>2, <2>3, <2>4
    <3> HIDE DEF w, e
    <3> QED
      BY <1>1, <3>1
  <2>6. n = w * p + (e + r) /\ w \in Nat \ {0}
    BY <2>1, <2>2
  <2>7. n % w = e + r
    <3> HIDE DEF w, e
    <3> QED
      BY <1>2, <2>5, <2>6, DividedOnce
  <2> QED
    BY <2>7
<1> QED
  BY <1>3

(* The bytes of two totals are the same only where the totals are, up to   *)
(* what they can hold.                                                     *)
LEMMA LittleEndianHolds ==
    ASSUME Bytes!BytesAssumption, NEW n \in Nat, NEW m \in Nat,
           Bytes!LittleEndian(n) = Bytes!LittleEndian(m)
    PROVE  (n % Bytes!Fits) = (m % Bytes!Fits)
<1> DEFINE T == {k \in Nat : k \in 0..Width => (n % Bytes!Holds[k]) = (m % Bytes!Holds[k])}
<1>1. ASSUME NEW k \in Nat, \A j \in Nat : j < k => j \in T, k \in 0..Width
      PROVE  (n % Bytes!Holds[k]) = (m % Bytes!Holds[k])
  <2>1. CASE k = 0
    BY <2>1, HoldsAt
  <2>2. CASE k # 0
    <3> DEFINE v == Bytes!Holds[k - 1]
    <3>1. k \in 1..Width /\ k - 1 \in 0..Width
      BY <1>1, <2>2 DEF Bytes!BytesAssumption
    <3>2. v \in Nat \ {0}
      BY <3>1, HoldsType
    <3>3. (n % v) = (m % v)
      BY <1>1, <3>1
    <3>4. ((n \div v) % Bytes!Byte) = ((m \div v) % Bytes!Byte)
      <4>1. Bytes!LittleEndian(n)[k] = ((n \div v) % Bytes!Byte)
        BY <3>1 DEF Bytes!LittleEndian
      <4>2. Bytes!LittleEndian(m)[k] = ((m \div v) % Bytes!Byte)
        BY <3>1 DEF Bytes!LittleEndian
      <4> QED
        BY <4>1, <4>2
    <3>5. Bytes!Holds[k] = Bytes!Byte * v
      BY <3>1, HoldsAt
    <3> HIDE DEF v
    <3>6. /\ (n % (Bytes!Byte * v)) = ((((n \div v) % Bytes!Byte) * v) + (n % v))
          /\ (m % (Bytes!Byte * v)) = ((((m \div v) % Bytes!Byte) * v) + (m % v))
      BY <3>2, ByteIsNat, NextDigit
    <3> QED
      BY <3>3, <3>4, <3>5, <3>6
  <2> QED
    BY <2>1, <2>2
<1>2. \A k \in Nat : (\A j \in Nat : j < k => j \in T) => k \in T
  BY <1>1
<1>3. Width \in T
  <2> HIDE DEF T
  <2>1. Width \in Nat
    BY DEF Bytes!BytesAssumption
  <2> QED
    BY <1>2, <2>1, Induct
<1> QED
  BY <1>3 DEF Bytes!Fits, Bytes!BytesAssumption

(* The remainder by a product decides the digit and the remainder below.   *)
LEMMA NextDigitOnce ==
    ASSUME NEW n \in Nat, NEW m \in Nat, NEW v \in Nat \ {0}, NEW b \in Nat \ {0},
           n % (b * v) = m % (b * v)
    PROVE  /\ (n \div v) % b = (m \div v) % b
           /\ n % v = m % v
<1> DEFINE d == (n \div v) % b
           e == (m \div v) % b
           r == n % v
           q == m % v
           total == d * v + r
<1>1. /\ n \div v \in Nat /\ r \in 0..(v - 1)
      /\ m \div v \in Nat /\ q \in 0..(v - 1)
  BY Divided
<1>2. d \in Nat /\ e \in Nat
  BY <1>1, Divided
<1>3. total = e * v + q
  <2>1. n % (b * v) = total
    BY NextDigit
  <2>2. m % (b * v) = e * v + q
    BY NextDigit
  <2> HIDE DEF total, d, e, r, q
  <2> QED
    BY <2>1, <2>2
<1> HIDE DEF d, e, r, q
<1>4. total = v * d + r /\ total = v * e + q /\ total \in Nat
  BY <1>1, <1>2, <1>3
<1> HIDE DEF total
<1>5. /\ total \div v = d /\ total % v = r
      /\ total \div v = e /\ total % v = q
  BY <1>1, <1>2, <1>4, DividedOnce
<1> QED
  BY <1>5 DEF d, e, r, q

(* And totals that are the same, up to what they can hold, are written     *)
(* with the same bytes.                                                    *)
LEMMA LittleEndianSame ==
    ASSUME Bytes!BytesAssumption, NEW n \in Nat, NEW m \in Nat,
           (n % Bytes!Fits) = (m % Bytes!Fits)
    PROVE  Bytes!LittleEndian(n) = Bytes!LittleEndian(m)
<1> DEFINE T == {k \in Nat : k \in 0..Width =>
                   (n % Bytes!Holds[Width - k]) = (m % Bytes!Holds[Width - k])}
           Same(k) == /\ (n % Bytes!Holds[k - 1]) = (m % Bytes!Holds[k - 1])
                      /\ ((n \div Bytes!Holds[k - 1]) % Bytes!Byte)
                            = ((m \div Bytes!Holds[k - 1]) % Bytes!Byte)
<1>0. Width \in Nat
  BY DEF Bytes!BytesAssumption
<1>1. ASSUME NEW k \in 1..Width, (n % Bytes!Holds[k]) = (m % Bytes!Holds[k])
      PROVE  Same(k)
  <2> DEFINE v == Bytes!Holds[k - 1]
  <2>1. k - 1 \in 0..Width
    BY <1>0
  <2>2. v \in Nat \ {0}
    BY <2>1, HoldsType
  <2>3. Bytes!Holds[k] = Bytes!Byte * v
    BY HoldsAt
  <2> HIDE DEF v
  <2>4. n % (Bytes!Byte * v) = m % (Bytes!Byte * v)
    BY <1>1, <2>3
  <2>5. /\ ((n \div v) % Bytes!Byte) = ((m \div v) % Bytes!Byte)
        /\ (n % v) = (m % v)
    BY <2>2, <2>4, ByteIsNat, NextDigitOnce
  <2> QED
    BY <2>5 DEF v
<1>2. ASSUME NEW k \in Nat, \A j \in Nat : j < k => j \in T, k \in 0..Width
      PROVE  (n % Bytes!Holds[Width - k]) = (m % Bytes!Holds[Width - k])
  <2>1. CASE k = 0
    <3>1. Width - k = Width
      BY <1>0, <2>1
    <3> QED
      BY <3>1 DEF Bytes!Fits
  <2>2. CASE k # 0
    <3> DEFINE j == k - 1
               i == Width - j
    <3>1. j \in Nat /\ j < k /\ j \in 0..Width
      BY <1>0, <1>2, <2>2
    <3>2. (n % Bytes!Holds[i]) = (m % Bytes!Holds[i])
      BY <1>2, <3>1
    <3>3. i \in 1..Width /\ i - 1 = Width - k
      BY <1>0, <1>2, <2>2
    <3> HIDE DEF i
    <3>4. Same(i)
      BY <1>1, <3>2, <3>3
    <3> QED
      BY <3>3, <3>4
  <2> QED
    BY <2>1, <2>2
<1>3. \A k \in Nat : (\A j \in Nat : j < k => j \in T) => k \in T
  BY <1>2
<1>4. ASSUME NEW k \in 1..Width PROVE Same(k)
  <2> DEFINE j == Width - k
  <2>1. j \in Nat /\ j \in 0..Width /\ Width - j = k
    BY <1>0
  <2>2. j \in T
    <3> HIDE DEF T, j
    <3> QED
      BY <1>3, <2>1, Induct
  <2>3. (n % Bytes!Holds[k]) = (m % Bytes!Holds[k])
    BY <2>1, <2>2
  <2> QED
    BY <1>1, <2>3
<1> QED
  BY <1>4 DEF Bytes!LittleEndian

LEMMA LittleEndianType ==
    ASSUME Bytes!BytesAssumption, NEW n \in Nat
    PROVE  Bytes!LittleEndian(n) \in Seq(Nat)
<1>1. ASSUME NEW k \in 1..Width PROVE ((n \div Bytes!Holds[k - 1]) % Bytes!Byte) \in Nat
  <2>1. Bytes!Holds[k - 1] \in Nat \ {0}
    BY HoldsType DEF Bytes!BytesAssumption
  <2>2. n \div Bytes!Holds[k - 1] \in Nat
    BY <2>1, Divided
  <2> QED
    BY <2>2, ByteIsNat, Divided
<1>2. Bytes!LittleEndian(n) \in [1..Width -> Nat]
  BY <1>1 DEF Bytes!LittleEndian
<1> QED
  BY <1>2 DEF Bytes!BytesAssumption

-----------------------------------------------------------------------------
(* The message *)

LEMMA JoinedOnce ==
    ASSUME NEW a \in Seq(Nat), NEW b \in Seq(Nat), NEW s \in Seq(Nat), NEW t \in Seq(Nat),
           Len(a) = Len(b), Joined(a, s) = Joined(b, t)
    PROVE  a = b /\ s = t
<1>1. ASSUME NEW k \in 1..Len(a) PROVE a[k] = b[k]
  BY ConcatProperties DEF Joined
<1>2. a = b
  BY <1>1, SeqEqual
<1>3. Len(s) = Len(t)
  BY ConcatProperties DEF Joined
<1>4. ASSUME NEW k \in 1..Len(s) PROVE s[k] = t[k]
  <2> DEFINE j == Len(a) + k
  <2>1. /\ j \in 1..(Len(a) + Len(s)) /\ j \in 1..(Len(b) + Len(t))
        /\ j > Len(a) /\ j > Len(b) /\ j - Len(a) = k /\ j - Len(b) = k
    BY <1>3, LenProperties
  <2> HIDE DEF j
  <2>2. (a \o s)[j] = s[k]
    BY <2>1, ConcatProperties
  <2>3. (b \o t)[j] = t[k]
    BY <2>1, ConcatProperties
  <2> QED
    BY <2>2, <2>3 DEF Joined
<1>5. s = t
  BY <1>3, <1>4, SeqEqual
<1> QED
  BY <1>2, <1>5

LEMMA ChannelIdsAre ==
    ASSUME Bytes!BytesAssumption, NEW c \in ChannelIds
    PROVE  c \in Seq(Nat) /\ Len(c) \in Nat
<1>1. c \in Seq(0..(Bytes!Byte - 1))
  BY DEF Bytes!BytesAssumption
<1>2. Len(c) \in Nat /\ c \in [1..Len(c) -> 0..(Bytes!Byte - 1)]
  BY <1>1, LenProperties
<1>3. c \in [1..Len(c) -> Nat]
  BY <1>2
<1> QED
  BY <1>2, <1>3

LEMMA SerializeIs ==
    ASSUME Bytes!BytesAssumption, NEW c \in ChannelIds, NEW n \in Nat
    PROVE  /\ Bytes!Serialize(c, n) = Joined(Bytes!Uleb128(Len(c)), Joined(c, Bytes!LittleEndian(n)))
           /\ Joined(c, Bytes!LittleEndian(n)) \in Seq(Nat)
<1>1. c \in Seq(Nat) /\ Len(c) \in Nat
  BY ChannelIdsAre
<1>2. Bytes!Uleb128(Len(c)) \in Seq(Nat) /\ Bytes!LittleEndian(n) \in Seq(Nat)
  BY <1>1, Uleb128Type, LittleEndianType
<1>3. Joined(c, Bytes!LittleEndian(n)) \in Seq(Nat)
  BY <1>1, <1>2, ConcatProperties DEF Joined
<1>4. Bytes!Serialize(c, n) = (Bytes!Uleb128(Len(c)) \o c) \o Bytes!LittleEndian(n)
  BY DEF Bytes!Serialize
<1>5. (Bytes!Uleb128(Len(c)) \o c) \o Bytes!LittleEndian(n)
         = Bytes!Uleb128(Len(c)) \o (c \o Bytes!LittleEndian(n))
  BY <1>1, <1>2, ConcatAssociative
<1> QED
  BY <1>3, <1>4, <1>5, Zenon DEF Joined

(* Two vouchers have one message only where they are for one channel and,  *)
(* up to what an amount can hold, for one total.                           *)
LEMMA SerializeOnce ==
    ASSUME Bytes!BytesAssumption, NEW c \in ChannelIds, NEW d \in ChannelIds,
           NEW n \in Nat, NEW m \in Nat, Bytes!Serialize(c, n) = Bytes!Serialize(d, m)
    PROVE  c = d /\ (n % Bytes!Fits) = (m % Bytes!Fits)
<1>1. /\ c \in Seq(Nat) /\ Len(c) \in Nat /\ Bytes!LittleEndian(n) \in Seq(Nat)
      /\ d \in Seq(Nat) /\ Len(d) \in Nat /\ Bytes!LittleEndian(m) \in Seq(Nat)
  BY ChannelIdsAre, LittleEndianType
<1>2. /\ Joined(Bytes!Uleb128(Len(c)), Joined(c, Bytes!LittleEndian(n)))
           = Joined(Bytes!Uleb128(Len(d)), Joined(d, Bytes!LittleEndian(m)))
      /\ Joined(c, Bytes!LittleEndian(n)) \in Seq(Nat)
      /\ Joined(d, Bytes!LittleEndian(m)) \in Seq(Nat)
  BY SerializeIs
<1>3. Len(c) = Len(d) /\ Joined(c, Bytes!LittleEndian(n)) = Joined(d, Bytes!LittleEndian(m))
  BY <1>1, <1>2, Uleb128Ends
<1>4. c = d /\ Bytes!LittleEndian(n) = Bytes!LittleEndian(m)
  BY <1>1, <1>3, JoinedOnce
<1> QED
  BY <1>4, LittleEndianHolds

LEMMA SerializeSame ==
    ASSUME Bytes!BytesAssumption, NEW c \in ChannelIds, NEW n \in Nat, NEW m \in Nat,
           (n % Bytes!Fits) = (m % Bytes!Fits)
    PROVE  Bytes!Serialize(c, n) = Bytes!Serialize(c, m)
BY LittleEndianSame DEF Bytes!Serialize

LEMMA FitsIsNat ==
    ASSUME Bytes!BytesAssumption
    PROVE  Bytes!Fits \in Nat \ {0}
BY HoldsType DEF Bytes!Fits, Bytes!BytesAssumption

(* What is verified was made of what is signed, and of what it is held     *)
(* against.                                                                *)
BytesInv ==
    /\ signed.voucher \in Bytes!Vouchers /\ claimed \in Bytes!Vouchers
    /\ Bytes!Presented =>
          checked = [language \in {"rust", "typescript"} |->
                        Bytes!VerifiedBy(language, Bytes!SignatureOf(signed.voucher), claimed)]

LEMMA BytesStart ==
    ASSUME Bytes!Init PROVE BytesInv
BY DEF Bytes!Init, BytesInv, Bytes!Presented

LEMMA BytesStep ==
    ASSUME BytesInv, [Bytes!Next]_(Bytes!vars) PROVE BytesInv'
<1>1. CASE Bytes!Next
  <2>1. signed' = signed /\ claimed' = claimed
    BY <1>1 DEF Bytes!Next, Bytes!Present
  <2>2. checked' = [language \in {"rust", "typescript"} |->
                        Bytes!VerifiedBy(language, Bytes!SignatureOf(signed'.voucher), claimed')]
    BY <1>1, <2>1 DEF Bytes!Next, Bytes!Present
  <2> QED
    BY <2>1, <2>2 DEF BytesInv, Bytes!Presented, Bytes!VerifiedBy, Bytes!SignatureOf, Bytes!Vouchers
<1>2. CASE UNCHANGED Bytes!vars
  BY <1>2 DEF BytesInv, Bytes!vars, Bytes!Presented, Bytes!VerifiedBy, Bytes!SignatureOf, Bytes!Vouchers
<1> QED
  BY <1>1, <1>2

LEMMA BytesInvShows ==
    ASSUME Bytes!BytesAssumption, BytesInv
    PROVE  Bytes!AcceptedIsSigned
<1> DEFINE v == signed.voucher
           c == claimed
           same == Bytes!Sign(v.key, v.channel, v.total)
                       = Bytes!Sign(c.key, c.channel, c.total)
<1>1. /\ v.total \in Nat /\ c.total \in Nat
      /\ v.channel \in ChannelIds /\ c.channel \in ChannelIds
  BY DEF BytesInv, Bytes!Vouchers, Bytes!BytesAssumption
<1>2. ASSUME Bytes!Presented
      PROVE  /\ checked["rust"] = Bytes!VerifiedBy("rust", Bytes!SignatureOf(v), c)
             /\ checked["typescript"] = Bytes!VerifiedBy("typescript", Bytes!SignatureOf(v), c)
  BY <1>2 DEF BytesInv
<1>3. same => Bytes!SameVoucher(c, v)
  <2> SUFFICES ASSUME same PROVE Bytes!SameVoucher(c, v)
    OBVIOUS
  <2>1. v.key = c.key /\ Bytes!Serialize(v.channel, v.total) = Bytes!Serialize(c.channel, c.total)
    BY DEF Bytes!Sign
  <2>2. v.channel = c.channel /\ (v.total % Bytes!Fits) = (c.total % Bytes!Fits)
    BY <1>1, <2>1, SerializeOnce
  <2> QED
    BY <2>1, <2>2 DEF Bytes!SameVoucher
<1>4. Bytes!SameVoucher(c, v) => same
  <2> SUFFICES ASSUME Bytes!SameVoucher(c, v) PROVE same
    OBVIOUS
  <2>1. /\ c.key = v.key /\ c.channel = v.channel
        /\ (c.total % Bytes!Fits) = (v.total % Bytes!Fits)
    BY DEF Bytes!SameVoucher
  <2>2. Bytes!Serialize(v.channel, v.total) = Bytes!Serialize(v.channel, c.total)
    BY <1>1, <2>1, SerializeSame
  <2> QED
    BY <2>1, <2>2 DEF Bytes!Sign
<1>5. /\ Bytes!VerifiedBy("typescript", Bytes!SignatureOf(v), c) <=> same
      /\ Bytes!VerifiedBy("rust", Bytes!SignatureOf(v), c) <=> c.total < Bytes!Fits /\ same
  BY DEF Bytes!VerifiedBy, Bytes!SignatureOf, Bytes!Readable
<1> HIDE DEF v, c, same
<1>6. Bytes!Presented => /\ checked["typescript"] <=> Bytes!SameVoucher(c, v)
                         /\ checked["rust"] <=> c.total < Bytes!Fits /\ Bytes!SameVoucher(c, v)
  BY <1>2, <1>3, <1>4, <1>5
<1> QED
  BY <1>6 DEF Bytes!AcceptedIsSigned, v, c

(* A voucher is verified for the channel and key it was signed with and no *)
(* other, for the total that was signed or, in TypeScript, one that is the *)
(* same in the width of a u64, for any channel ids, keys, totals and       *)
(* widths.                                                                 *)
THEOREM VouchersAreBound ==
    ASSUME Bytes!BytesAssumption
    PROVE  Bytes!Spec => []Bytes!AcceptedIsSigned
<1>1. Bytes!Init => BytesInv
  BY BytesStart
<1>2. BytesInv /\ [Bytes!Next]_(Bytes!vars) => BytesInv'
  BY BytesStep
<1>3. BytesInv => Bytes!AcceptedIsSigned
  BY BytesInvShows
<1> QED
  BY <1>1, <1>2, <1>3, PTL DEF Bytes!Spec

-----------------------------------------------------------------------------
(* Routes *)

(* And over sequences, of their lengths. *)
LEMMA SeqInduct ==
    ASSUME NEW C, NEW T, << >> \in T,
           \A t \in Seq(C), c \in C : t \in T => Append(t, c) \in T
    PROVE  \A t \in Seq(C) : t \in T
<1> DEFINE U == {n \in Nat : \A t \in Seq(C) : Len(t) = n => t \in T}
<1>1. ASSUME NEW n \in Nat, \A m \in Nat : m < n => m \in U,
             NEW t \in Seq(C), Len(t) = n
      PROVE  t \in T
  <2>1. CASE t = << >>
    BY <2>1
  <2>2. CASE t # << >>
    <3>1. PICK s \in Seq(C), c \in C : t = Append(s, c)
      BY <2>2, SequenceEmptyOrAppend
    <3>2. Len(s) \in Nat /\ Len(s) < n
      BY <1>1, <3>1, AppendProperties, LenProperties
    <3>3. s \in T
      BY <1>1, <3>2
    <3> QED
      BY <3>1, <3>3
  <2> QED
    BY <2>1, <2>2
<1>2. \A n \in Nat : (\A m \in Nat : m < n => m \in U) => n \in U
  BY <1>1
<1>3. \A n \in Nat : n \in U
  <2> HIDE DEF U
  <2> QED
    BY <1>2, Induct
<1> QED
  BY <1>3, LenProperties

-----------------------------------------------------------------------------
(* The segments of a text, piece by piece. *)

Cuts(text, f, n) ==
    f = [k \in 0..n |-> IF k = 0 THEN << >> ELSE Routes!Piece(text, k, f[k - 1])]

Grows(text, f, n) ==
    f[0] = << >> /\ \A k \in 1..n : f[k] = Routes!Piece(text, k, f[k - 1])

LEMMA CutsAt ==
    ASSUME NEW text, NEW n \in Nat, NEW f, Cuts(text, f, n)
    PROVE  Grows(text, f, n)
<1> DEFINE g == [k \in 0..n |-> IF k = 0 THEN << >> ELSE Routes!Piece(text, k, f[k - 1])]
<1>1. g[0] = << >> /\ \A k \in 1..n : g[k] = Routes!Piece(text, k, f[k - 1])
  OBVIOUS
<1>2. f = g
  BY DEF Cuts
<1> HIDE DEF g
<1> QED
  BY <1>1, <1>2 DEF Grows

LEMMA CutsExists ==
    ASSUME NEW text
    PROVE  \A n \in Nat : \E f : Cuts(text, f, n)
<1> DEFINE T == {n \in Nat : \E f : Cuts(text, f, n)}
<1>1. ASSUME NEW n \in Nat, \A m \in Nat : m < n => m \in T
      PROVE  \E f : Cuts(text, f, n)
  <2>1. CASE n = 0
    <3> DEFINE g == [k \in 0..n |-> << >>]
    <3>1. g = [k \in 0..n |-> IF k = 0 THEN << >> ELSE Routes!Piece(text, k, g[k - 1])]
      BY <2>1
    <3> QED
      BY <3>1 DEF Cuts
  <2>2. CASE n # 0
    <3>1. PICK f : Cuts(text, f, n - 1)
      BY <1>1, <2>2
    <3>2. f[0] = << >> /\ \A k \in 1..(n - 1) : f[k] = Routes!Piece(text, k, f[k - 1])
      <4>1. n - 1 \in Nat
        BY <2>2
      <4>2. Grows(text, f, n - 1)
        BY <3>1, <4>1, CutsAt
      <4> QED
        BY <4>2 DEF Grows
    <3> DEFINE g == [k \in 0..n |-> IF k = n THEN Routes!Piece(text, n, f[n - 1]) ELSE f[k]]
    <3>3. ASSUME NEW k \in 0..n
          PROVE  g[k] = IF k = 0 THEN << >> ELSE Routes!Piece(text, k, g[k - 1])
      <4>1. CASE k = 0
        BY <2>2, <3>2, <4>1
      <4>2. CASE k # 0
        <5>1. g[k - 1] = f[k - 1]
          BY <4>2
        <5>2. g[k] = Routes!Piece(text, k, f[k - 1])
          BY <3>2, <4>2
        <5> HIDE DEF g
        <5> QED
          BY <4>2, <5>1, <5>2
      <4> QED
        BY <4>1, <4>2
    <3>4. g = [k \in 0..n |-> g[k]]
      OBVIOUS
    <3> HIDE DEF g
    <3> QED
      BY <3>3, <3>4 DEF Cuts
  <2> QED
    BY <2>1, <2>2
<1>2. \A n \in Nat : (\A m \in Nat : m < n => m \in T) => n \in T
  BY <1>1
<1> HIDE DEF T
<1>3. \A n \in Nat : n \in T
  BY <1>2, Induct
<1> QED
  BY <1>3 DEF T

LEMMA SegmentsCut ==
    ASSUME NEW C, NEW text \in Seq(C)
    PROVE  \E f : Cuts(text, f, Len(text)) /\ Routes!Segments(text) = f[Len(text)]
<1>1. Len(text) \in Nat
  BY LenProperties
<1>2. \E f : Cuts(text, f, Len(text))
  BY <1>1, CutsExists
<1> QED
  BY <1>2 DEF Cuts, Routes!Segments

(* The pieces of a beginning are the same. *)
LEMMA CutsOnce ==
    ASSUME NEW C, NEW t \in Seq(C), NEW c \in C, NEW f, NEW g,
           Cuts(t, f, Len(t)), Cuts(Append(t, c), g, Len(t) + 1)
    PROVE  f[Len(t)] = g[Len(t)]
<1> DEFINE T == {k \in Nat : k <= Len(t) => f[k] = g[k]}
<1>1. /\ Len(t) \in Nat
      /\ \A k \in 1..Len(t) : Append(t, c)[k] = t[k]
  BY LenProperties, AppendProperties
<1>2. /\ f[0] = << >> /\ \A k \in 1..Len(t) : f[k] = Routes!Piece(t, k, f[k - 1])
      /\ g[0] = << >>
      /\ \A k \in 1..(Len(t) + 1) : g[k] = Routes!Piece(Append(t, c), k, g[k - 1])
  <2>1. Len(t) \in Nat /\ Len(t) + 1 \in Nat
    BY <1>1
  <2>2. Grows(t, f, Len(t)) /\ Grows(Append(t, c), g, Len(t) + 1)
    BY <2>1, CutsAt
  <2> QED
    BY <2>2 DEF Grows
<1>3. ASSUME NEW k \in Nat, \A j \in Nat : j < k => j \in T, k <= Len(t)
      PROVE  f[k] = g[k]
  <2>1. CASE k = 0
    BY <1>2, <2>1
  <2>2. CASE k # 0
    <3>1. k \in 1..Len(t) /\ k \in 1..(Len(t) + 1) /\ f[k - 1] = g[k - 1]
      BY <1>1, <1>3, <2>2
    <3>2. Append(t, c)[k] = t[k] /\ (k # 1 => Append(t, c)[k - 1] = t[k - 1])
      BY <1>1, <3>1
    <3>3. Routes!Piece(Append(t, c), k, g[k - 1]) = Routes!Piece(t, k, f[k - 1])
      BY <3>1, <3>2 DEF Routes!Piece
    <3> QED
      BY <1>2, <3>1, <3>3
  <2> QED
    BY <2>1, <2>2
<1>4. \A k \in Nat : (\A j \in Nat : j < k => j \in T) => k \in T
  BY <1>3
<1>5. Len(t) \in T
  <2> HIDE DEF T
  <2> QED
    BY <1>1, <1>4, Induct
<1> QED
  BY <1>5

(* Segments, one character at a time. *)
LEMMA SegmentsEmpty == Routes!Segments(<< >>) = << >>
<1>1. PICK f : Cuts(<< >>, f, Len(<< >>)) /\ Routes!Segments(<< >>) = f[Len(<< >>)]
  <2>1. << >> \in Seq({})
    OBVIOUS
  <2> QED
    BY <2>1, SegmentsCut
<1>2. Len(<< >>) = 0
  OBVIOUS
<1>3. f[0] = << >>
  BY <1>1, <1>2, CutsAt DEF Grows
<1> QED
  BY <1>1, <1>2, <1>3

LEMMA SegmentsAppend ==
    ASSUME NEW C, NEW t \in Seq(C), NEW c \in C
    PROVE  Routes!Segments(Append(t, c)) =
             IF c = Routes!Slash THEN Routes!Segments(t)
             ELSE IF t = << >> \/ t[Len(t)] = Routes!Slash
                  THEN Append(Routes!Segments(t), <<c>>)
             ELSE [Routes!Segments(t) EXCEPT ![Len(Routes!Segments(t))] = Append(@, c)]
<1> DEFINE u == Append(t, c)
<1>1. /\ Len(t) \in Nat /\ u \in Seq(C) /\ Len(u) = Len(t) + 1
      /\ u[Len(u)] = c /\ (t # << >> => Len(t) # 0 /\ u[Len(t)] = t[Len(t)])
      /\ (t = << >> => Len(t) = 0)
  BY LenProperties, AppendProperties, EmptySeq
<1> HIDE DEF u
<1>2. PICK f : Cuts(t, f, Len(t)) /\ Routes!Segments(t) = f[Len(t)]
  BY SegmentsCut
<1>3. PICK g : Cuts(u, g, Len(u)) /\ Routes!Segments(u) = g[Len(u)]
  BY <1>1, SegmentsCut
<1>4. f[Len(t)] = g[Len(t)]
  BY <1>1, <1>2, <1>3, CutsOnce DEF u
<1>5. g[Len(u)] = Routes!Piece(u, Len(u), g[Len(u) - 1])
  <2>1. Len(u) \in Nat /\ Len(u) \in 1..Len(u)
    BY <1>1
  <2>2. Grows(u, g, Len(u))
    BY <1>3, <2>1, CutsAt
  <2> QED
    BY <2>1, <2>2 DEF Grows
<1>6. Routes!Segments(u) = Routes!Piece(u, Len(t) + 1, Routes!Segments(t))
  BY <1>1, <1>2, <1>3, <1>4, <1>5
<1>7. (Len(t) + 1) - 1 = Len(t) /\ (Len(t) + 1 = 1 <=> t = << >>)
  BY <1>1
<1> QED
  BY <1>1, <1>6, <1>7 DEF Routes!Piece, u

(* What ends with a character that is no slash ends with a piece.          *)
Ends(t) == t # << >> /\ t[Len(t)] # Routes!Slash

Piecewise(C, t) ==
    /\ Routes!Segments(t) \in Seq(Seq(C))
    /\ \A k \in 1..Len(Routes!Segments(t)) : Routes!Segments(t)[k] # << >>
    /\ Ends(t) => Routes!Segments(t) # << >>

LEMMA SegmentsType ==
    ASSUME NEW C
    PROVE  \A t \in Seq(C) : Piecewise(C, t)
<1> DEFINE T == {t \in Seq(C) : Piecewise(C, t)}
<1>1. << >> \in T
  <2>1. << >> \in Seq(C) /\ << >> \in Seq(Seq(C)) /\ Len(<< >>) = 0
    BY EmptySeq
  <2>2. ~Ends(<< >>)
    BY DEF Ends
  <2> DEFINE s == Routes!Segments(<< >>)
  <2>3. s \in Seq(Seq(C)) /\ \A k \in 1..Len(s) : s[k] # << >>
    <3>1. s \in Seq(Seq(C)) /\ Len(s) = 0
      BY <2>1, SegmentsEmpty
    <3> HIDE DEF s
    <3> QED
      BY <3>1
  <2> QED
    BY <2>1, <2>2, <2>3 DEF Piecewise
<1>2. ASSUME NEW t \in Seq(C), NEW c \in C, t \in T
      PROVE  Append(t, c) \in T
  <2> DEFINE s == Routes!Segments(t)
             u == Append(t, c)
  <2>1. /\ s \in Seq(Seq(C)) /\ \A k \in 1..Len(s) : s[k] # << >>
        /\ Ends(t) => s # << >>
    BY <1>2 DEF Piecewise
  <2>2. /\ u \in Seq(C) /\ Len(u) = Len(t) + 1 /\ u[Len(u)] = c /\ Len(s) \in Nat
    BY <2>1, AppendProperties, LenProperties
  <2> HIDE DEF s
  <2>3. CASE c = Routes!Slash
    <3>1. Routes!Segments(u) = s
      BY <2>3, SegmentsAppend DEF s
    <3>2. ~Ends(u)
      BY <2>2, <2>3 DEF Ends
    <3> HIDE DEF u
    <3> QED
      BY <2>1, <2>2, <3>1, <3>2 DEF Piecewise, u
  <2>4. CASE c # Routes!Slash /\ ~Ends(t)
    <3>1. Routes!Segments(u) = Append(s, <<c>>)
      BY <2>4, SegmentsAppend DEF s, Ends
    <3>2. <<c>> \in Seq(C) /\ <<c>> # << >>
      OBVIOUS
    <3> DEFINE e == <<c>>
               w == Append(s, e)
    <3>3. /\ w \in Seq(Seq(C)) /\ w # << >> /\ Len(w) = Len(s) + 1
          /\ \A k \in 1..Len(s) : w[k] = s[k]
          /\ w[Len(s) + 1] = e
      <4>1. e \in Seq(C) /\ s \in Seq(Seq(C))
        BY <2>1, <3>2
      <4> HIDE DEF e
      <4> QED
        BY <4>1, AppendProperties
    <3>6. e # << >>
      BY <3>2
    <3> HIDE DEF e, w
    <3>4. ASSUME NEW k \in 1..Len(w) PROVE w[k] # << >>
      <4>1. CASE k = Len(s) + 1
        BY <3>3, <3>6, <4>1
      <4>2. CASE k # Len(s) + 1
        <5>1. k \in 1..Len(s) /\ w[k] = s[k]
          BY <2>2, <3>3, <4>2
        <5> QED
          BY <2>1, <5>1
      <4> QED
        BY <4>1, <4>2
    <3>5. Routes!Segments(u) = w
      BY <3>1 DEF e, w
    <3> HIDE DEF u
    <3> QED
      BY <2>2, <3>3, <3>4, <3>5 DEF Piecewise, u
  <2>5. CASE c # Routes!Slash /\ Ends(t)
    <3> DEFINE n == Len(s)
               e == Append(s[n], c)
               w == [s EXCEPT ![n] = e]
    <3>1. Routes!Segments(u) = w
      BY <2>5, SegmentsAppend DEF s, Ends
    <3>2. n \in 1..Len(s)
      BY <2>1, <2>2, <2>5, EmptySeq
    <3>3. s[n] \in Seq(C)
      BY <2>1, <3>2, ElementOfSeq
    <3>4. e \in Seq(C) /\ e # << >>
      BY <3>3, AppendProperties
    <3>5. /\ w \in Seq(Seq(C)) /\ Len(w) = Len(s)
          /\ \A k \in 1..Len(s) : w[k] = IF k = n THEN e ELSE s[k]
      <4> HIDE DEF n, e
      <4> QED
        BY <2>1, <3>2, <3>4, ExceptSeq
    <3>6. w # << >>
      BY <3>2, <3>5, EmptySeq
    <3> HIDE DEF n, e, w, u
    <3>7. \A k \in 1..Len(w) : w[k] # << >>
      BY <2>1, <3>4, <3>5
    <3> QED
      BY <2>2, <3>1, <3>5, <3>6, <3>7 DEF Piecewise, u
  <2> QED
    BY <2>3, <2>4, <2>5
<1> HIDE DEF T
<1>3. \A t \in Seq(C) : t \in T
  BY <1>1, <1>2, SeqInduct
<1> QED
  BY <1>3 DEF T

(* Slashes alone have no pieces. *)
LEMMA SlashesAreNothing ==
    ASSUME NEW C
    PROVE  \A t \in Seq(C) : (\A k \in 1..Len(t) : t[k] = Routes!Slash) => Routes!Segments(t) = << >>
<1> DEFINE T == {t \in Seq(C) :
                   (\A k \in 1..Len(t) : t[k] = Routes!Slash) => Routes!Segments(t) = << >>}
<1>1. << >> \in T
  BY SegmentsEmpty
<1>2. ASSUME NEW t \in Seq(C), NEW c \in C, t \in T,
             \A k \in 1..Len(Append(t, c)) : Append(t, c)[k] = Routes!Slash
      PROVE  Routes!Segments(Append(t, c)) = << >>
  <2> DEFINE u == Append(t, c)
  <2>1. /\ Len(t) \in Nat /\ Len(u) = Len(t) + 1 /\ u[Len(t) + 1] = c
        /\ \A k \in 1..Len(t) : u[k] = t[k]
    BY AppendProperties, LenProperties
  <2>2. \A k \in 1..Len(u) : u[k] = Routes!Slash
    BY <1>2
  <2> HIDE DEF u
  <2>3. c = Routes!Slash /\ \A k \in 1..Len(t) : t[k] = Routes!Slash
    BY <2>1, <2>2
  <2>4. Routes!Segments(t) = << >>
    BY <1>2, <2>3
  <2> QED
    BY <2>3, <2>4, SegmentsAppend
<1>3. \A t \in Seq(C), c \in C : t \in T => Append(t, c) \in T
  BY <1>2, AppendProperties
<1> HIDE DEF T
<1>4. \A t \in Seq(C) : t \in T
  BY <1>1, <1>3, SeqInduct
<1> QED
  BY <1>4 DEF T

(* By another name, so that the provers take it as it is. *)
Add(s, e) == Append(s, e)

LEMMA AddAfter ==
    ASSUME NEW S, NEW p \in Seq(S), NEW s \in Seq(S), NEW e \in S
    PROVE  Add(Joined(p, s), e) = Joined(p, Add(s, e))
<1>1. p \o s \in Seq(S) /\ <<e>> \in Seq(S)
  BY ConcatProperties
<1>2. Append(p \o s, e) = (p \o s) \o <<e>> /\ Append(s, e) = s \o <<e>>
  BY <1>1, AppendIsConcat
<1>3. (p \o s) \o <<e>> = p \o (s \o <<e>>)
  BY <1>1, ConcatAssociative
<1>4. Append(p \o s, e) = p \o Append(s, e)
  BY <1>2, <1>3
<1> QED
  BY <1>4 DEF Add, Joined

(* What is joined between two pieces keeps them. *)
LEMMA ApartKeeps ==
    ASSUME NEW C, NEW b \in Seq(C), ~Ends(b)
    PROVE  \A t \in Seq(C) : Routes!Segments(b \o t) = Routes!Segments(b) \o Routes!Segments(t)
<1> DEFINE T == {t \in Seq(C) : Routes!Segments(b \o t) = Routes!Segments(b) \o Routes!Segments(t)}
           p == Routes!Segments(b)
<1>1. p \in Seq(Seq(C))
  BY SegmentsType DEF Piecewise
<1>2. << >> \in T
  <2>1. b \o << >> = b /\ p \o << >> = p
    BY <1>1, ConcatEmptySeq
  <2>2. << >> \in Seq(C)
    BY EmptySeq
  <2> QED
    BY <2>1, <2>2, SegmentsEmpty
<1>3. ASSUME NEW t \in Seq(C), NEW c \in C, t \in T
      PROVE  Routes!Segments(b \o Append(t, c)) = p \o Routes!Segments(Append(t, c))
  <2> DEFINE s == Routes!Segments(t)
             u == b \o t
  <2>1. /\ s \in Seq(Seq(C)) /\ Len(s) \in Nat
        /\ (Ends(t) => s # << >>) /\ Routes!Segments(u) = p \o s
    BY <1>3, SegmentsType, LenProperties DEF Piecewise
  <2>2. u \in Seq(C) /\ b \o Append(t, c) = Append(u, c)
    BY ConcatProperties, AppendProperties, AppendIsConcat, ConcatAssociative
  <2>3. Ends(u) <=> Ends(t)
    BY ConcatProperties, EmptySeq, LenProperties DEF Ends
  <2> HIDE DEF s, u, p
  <2>4. CASE c = Routes!Slash
    BY <2>1, <2>2, <2>4, SegmentsAppend DEF s
  <2>5. CASE c # Routes!Slash /\ ~Ends(t)
    <3>1. Routes!Segments(Append(t, c)) = Append(s, <<c>>)
      BY <2>5, SegmentsAppend DEF s, Ends
    <3>2. Routes!Segments(Append(u, c)) = Append(p \o s, <<c>>)
      <4>1. u = << >> \/ u[Len(u)] = Routes!Slash
        BY <2>3, <2>5 DEF Ends
      <4>2. Routes!Segments(Append(u, c)) = Append(Routes!Segments(u), <<c>>)
        BY <2>2, <2>5, <4>1, SegmentsAppend
      <4> QED
        BY <2>1, <4>2
    <3>3. <<c>> \in Seq(C)
      OBVIOUS
    <3> DEFINE e == <<c>>
    <3> HIDE DEF e
    <3>4. Append(p \o s, e) = p \o Append(s, e)
      <4>1. e \in Seq(C)
        BY <3>3 DEF e
      <4>2. p \in Seq(Seq(C)) /\ s \in Seq(Seq(C))
        BY <1>1, <2>1
      <4>3. Add(Joined(p, s), e) = Joined(p, Add(s, e))
        BY <4>1, <4>2, AddAfter
      <4> QED
        BY <4>3 DEF Add, Joined
    <3> QED
      BY <2>2, <3>1, <3>2, <3>4 DEF e
  <2>6. CASE c # Routes!Slash /\ Ends(t)
    <3> DEFINE n == Len(s)
               q == p \o s
               m == Len(q)
    <3>1. n \in 1..Len(s) /\ m = Len(p) + n /\ Len(p) \in Nat
          /\ q \in Seq(Seq(C)) /\ m \in 1..Len(q)
      BY <1>1, <2>1, <2>6, EmptySeq, ConcatProperties, LenProperties
    <3>2. \A k \in 1..m : q[k] = IF k <= Len(p) THEN p[k] ELSE s[k - Len(p)]
      BY <1>1, <2>1, <3>1, ConcatProperties
    <3> DEFINE e == Append(s[n], c)
               v == [s EXCEPT ![n] = e]
               w == [q EXCEPT ![m] = e]
    <3>3. q[m] = s[n]
      BY <3>1, <3>2
    <3>4. Routes!Segments(Append(t, c)) = v
      BY <2>6, SegmentsAppend DEF s, Ends
    <3>5. Routes!Segments(Append(u, c)) = w
      <4>1. u # << >> /\ u[Len(u)] # Routes!Slash /\ c # Routes!Slash
        BY <2>3, <2>6 DEF Ends
      <4>2. Routes!Segments(Append(u, c)) =
              [Routes!Segments(u) EXCEPT ![Len(Routes!Segments(u))] = Append(Routes!Segments(u)[Len(Routes!Segments(u))], c)]
        BY <2>2, <4>1, SegmentsAppend
      <4> QED
        BY <2>1, <3>3, <4>2
    <3>6. e \in Seq(C)
      BY <2>1, <3>1, ElementOfSeq, AppendProperties
    <3>7. /\ v \in Seq(Seq(C)) /\ Len(v) = n
          /\ \A k \in 1..n : v[k] = IF k = n THEN e ELSE s[k]
      <4> HIDE DEF e
      <4> QED
        BY <2>1, <3>1, <3>6, ExceptSeq
    <3>8. /\ w \in Seq(Seq(C)) /\ Len(w) = m
          /\ \A k \in 1..m : w[k] = IF k = m THEN e ELSE q[k]
      <4> HIDE DEF e, q
      <4> QED
        BY <3>1, <3>6, ExceptSeq
    <3> HIDE DEF q, m, n, e, v, w
    <3>9. /\ p \o v \in Seq(Seq(C)) /\ Len(p \o v) = m
          /\ \A k \in 1..m : (p \o v)[k] = IF k <= Len(p) THEN p[k] ELSE v[k - Len(p)]
      BY <1>1, <3>1, <3>7, ConcatProperties
    <3>10. ASSUME NEW k \in 1..m PROVE w[k] = (p \o v)[k]
      <4>1. CASE k <= Len(p)
        <5>1. k # m
          BY <3>1, <4>1
        <5> QED
          BY <3>2, <3>8, <3>9, <4>1, <5>1
      <4>2. CASE ~(k <= Len(p))
        <5>1. k - Len(p) \in 1..n /\ (k = m <=> k - Len(p) = n)
          BY <3>1, <4>2
        <5> QED
          BY <3>2, <3>7, <3>8, <3>9, <4>2, <5>1
      <4> QED
        BY <4>1, <4>2
    <3>11. w = p \o v
      BY <3>8, <3>9, <3>10, SeqEqual
    <3> QED
      BY <2>2, <3>4, <3>5, <3>11
  <2> QED
    BY <2>4, <2>5, <2>6
<1>4. \A t \in Seq(C), c \in C : t \in T => Append(t, c) \in T
  BY <1>3, AppendProperties
<1> HIDE DEF T
<1>5. \A t \in Seq(C) : t \in T
  BY <1>2, <1>4, SeqInduct
<1> QED
  BY <1>5 DEF T

(* What ends and begins within a segment makes one segment of two. *)
Merges(b, t) ==
    LET p == Routes!Segments(b)  s == Routes!Segments(t)
        u == Routes!Segments(b \o t)
    IN  /\ s # << >> /\ Len(u) = Len(p) + Len(s) - 1
        /\ \A k \in 1..(Len(p) - 1) : u[k] = p[k]
        /\ u[Len(p)] = p[Len(p)] \o s[1]

LEMMA WithinMerges ==
    ASSUME NEW C, NEW b \in Seq(C), Ends(b)
    PROVE  \A t \in Seq(C) : t # << >> /\ t[1] # Routes!Slash => Merges(b, t)
<1> DEFINE T == {t \in Seq(C) : t # << >> /\ t[1] # Routes!Slash => Merges(b, t)}
           p == Routes!Segments(b)
           l == Len(p)
<1>1. p \in Seq(Seq(C)) /\ l \in Nat \ {0} /\ p[l] \in Seq(C)
  <2>1. p \in Seq(Seq(C)) /\ p # << >>
    BY SegmentsType DEF Piecewise
  <2>2. l \in Nat /\ l # 0
    BY <2>1, LenProperties, EmptySeq
  <2> HIDE DEF p
  <2> QED
    BY <2>1, <2>2, ElementOfSeq
<1>2. ASSUME NEW c \in C, c # Routes!Slash
      PROVE  Merges(b, Append(<< >>, c))
  <2> DEFINE e == Append(p[l], c)
             u == [p EXCEPT ![l] = e]
  <2>1. b # << >> /\ b[Len(b)] # Routes!Slash
    BY DEF Ends
  <2>2. Routes!Segments(Append(b, c)) = u
    BY <1>2, <2>1, SegmentsAppend
  <2>3. b \o Append(<< >>, c) = Append(b, c)
    BY AppendIsConcat
  <2>4. Routes!Segments(Append(<< >>, c)) = Append(<< >>, <<c>>)
    <3>1. << >> \in Seq(C)
      BY EmptySeq
    <3> QED
      BY <1>2, <3>1, SegmentsAppend, SegmentsEmpty
  <2>5. e \in Seq(C) /\ e = p[l] \o <<c>>
    BY <1>1, AppendProperties, AppendIsConcat
  <2>6. /\ Len(u) = l /\ \A k \in 1..l : u[k] = IF k = l THEN e ELSE p[k]
    <3> HIDE DEF p, e
    <3> QED
      BY <1>1, <2>5, ExceptSeq
  <2>7. LET s == Append(<< >>, <<c>>) IN s # << >> /\ Len(s) = 1 /\ s[1] = <<c>>
    OBVIOUS
  <2> DEFINE s == Append(<< >>, <<c>>)
  <2>8. s # << >> /\ Len(s) = 1 /\ s[1] = <<c>>
    BY <2>7
  <2> HIDE DEF p, l, e, u, s
  <2>9. /\ Len(u) = l + Len(s) - 1 /\ \A k \in 1..(l - 1) : u[k] = p[k]
        /\ u[l] = p[l] \o s[1]
    BY <1>1, <2>5, <2>6, <2>8
  <2>10. Routes!Segments(b \o Append(<< >>, c)) = u
    BY <2>2, <2>3
  <2> QED
    BY <2>4, <2>8, <2>9, <2>10 DEF Merges, p, l, s
<1>3. ASSUME NEW t \in Seq(C), NEW c \in C, t # << >>, Merges(b, t)
      PROVE  Merges(b, Append(t, c))
  <2> DEFINE s == Routes!Segments(t)
             u == Routes!Segments(b \o t)
  <2>1. /\ s \in Seq(Seq(C)) /\ Len(s) \in Nat \ {0} /\ s # << >>
        /\ u \in Seq(Seq(C)) /\ Len(u) = l + Len(s) - 1 /\ Len(u) \in Nat
        /\ \A k \in 1..(l - 1) : u[k] = p[k]
        /\ u[l] = p[l] \o s[1]
    <3>1. b \o t \in Seq(C)
      BY ConcatProperties
    <3>2. s \in Seq(Seq(C)) /\ u \in Seq(Seq(C))
      BY <3>1, SegmentsType DEF Piecewise
    <3> QED
      BY <1>3, <3>2, LenProperties, EmptySeq DEF Merges
  <2>2. b \o t \in Seq(C) /\ b \o Append(t, c) = Append(b \o t, c)
    BY ConcatProperties, AppendProperties, AppendIsConcat, ConcatAssociative
  <2>3. (Ends(b \o t) <=> Ends(t)) /\ b \o t # << >>
    BY <1>3, ConcatProperties, EmptySeq, LenProperties DEF Ends
  <2> DEFINE x == b \o t
  <2>7. /\ x \in Seq(C) /\ b \o Append(t, c) = Append(x, c)
        /\ (Ends(x) <=> Ends(t)) /\ x # << >> /\ u = Routes!Segments(x)
    BY <2>2, <2>3
  <2> HIDE DEF s, u, p, l, x
  <2>8. l \in Nat /\ 1 <= l /\ Len(s) \in Nat /\ 1 <= Len(s) /\ Len(u) = l + (Len(s) - 1)
    BY <1>1, <2>1
  <2>4. CASE c = Routes!Slash
    <3>1. Routes!Segments(Append(t, c)) = s /\ Routes!Segments(Append(x, c)) = u
      BY <2>4, <2>7, SegmentsAppend DEF s
    <3> QED
      BY <2>1, <2>7, <3>1 DEF Merges, p, l
  <2>5. CASE c # Routes!Slash /\ ~Ends(t)
    <3> DEFINE e == <<c>>
               v == Append(s, e)
               z == Append(u, e)
    <3>1. Routes!Segments(Append(t, c)) = v
      BY <2>5, SegmentsAppend DEF s, Ends
    <3>2. Routes!Segments(Append(x, c)) = z
      BY <2>5, <2>7, SegmentsAppend DEF Ends
    <3>3. e \in Seq(C)
      OBVIOUS
    <3> HIDE DEF e
    <3>4. /\ v # << >> /\ Len(v) = Len(s) + 1 /\ \A k \in 1..Len(s) : v[k] = s[k]
      BY <2>1, <3>3, AppendProperties
    <3>5. Len(z) = Len(u) + 1 /\ \A k \in 1..Len(u) : z[k] = u[k]
      BY <2>1, <3>3, AppendProperties
    <3> HIDE DEF v, z
    <3>6. /\ Len(z) = l + Len(v) - 1 /\ l \in 1..Len(u) /\ 1 \in 1..Len(s)
          /\ \A k \in 1..(l - 1) : k \in 1..Len(u)
      BY <2>8, <3>4, <3>5
    <3>7. (\A k \in 1..(l - 1) : z[k] = p[k]) /\ z[l] = p[l] \o v[1]
      <4>1. z[l] = u[l] /\ v[1] = s[1]
        BY <3>4, <3>5, <3>6
      <4>2. \A k \in 1..(l - 1) : z[k] = u[k]
        BY <3>5, <3>6
      <4> QED
        BY <2>1, <4>1, <4>2
    <3> QED
      BY <2>7, <3>1, <3>2, <3>4, <3>6, <3>7 DEF Merges, p, l
  <2>6. CASE c # Routes!Slash /\ Ends(t)
    <3> DEFINE n == Len(s)
               m == Len(u)
               e == Append(s[n], c)
               f == Append(u[m], c)
               v == [s EXCEPT ![n] = e]
               z == [u EXCEPT ![m] = f]
    <3>1. Routes!Segments(Append(t, c)) = v
      BY <2>6, SegmentsAppend DEF s, Ends
    <3>2. Routes!Segments(Append(x, c)) = z
      BY <2>6, <2>7, SegmentsAppend DEF Ends
    <3>3. /\ n \in 1..Len(s) /\ m \in 1..Len(u) /\ m = l + (n - 1) /\ (n = 1 <=> m = l)
          /\ n \in Nat /\ m \in Nat /\ 1 <= n
      <4>1. n \in Nat /\ 1 <= n /\ m = l + (n - 1) /\ n = Len(s) /\ m = Len(u)
        BY <2>8
      <4> HIDE DEF n, m
      <4>2. m \in Nat /\ 1 <= m
        BY <2>8, <4>1
      <4>3. n = 1 => m = l
        BY <2>8, <4>1
      <4>4. m = l => n = 1
        BY <2>8, <4>1
      <4> QED
        BY <4>1, <4>2, <4>3, <4>4
    <3>4. /\ s[n] \in Seq(C) /\ u[m] \in Seq(C) /\ s[1] \in Seq(C)
          /\ e \in Seq(C) /\ f \in Seq(C)
      BY <2>1, <3>3, ElementOfSeq, AppendProperties
    <3>5. /\ v \in Seq(Seq(C)) /\ Len(v) = n
          /\ \A k \in 1..n : v[k] = IF k = n THEN e ELSE s[k]
      <4> HIDE DEF e
      <4> QED
        BY <2>1, <3>3, <3>4, ExceptSeq
    <3>6. /\ Len(z) = m /\ \A k \in 1..m : z[k] = IF k = m THEN f ELSE u[k]
      <4> HIDE DEF f
      <4> QED
        BY <2>1, <3>3, <3>4, ExceptSeq
    <3>7. n = 1 => f = p[l] \o e
      <4>1. ASSUME n = 1 PROVE f = p[l] \o e
        <5>1. u[m] = p[l] \o s[n]
          BY <2>1, <3>3, <4>1
        <5>2. Add(Joined(p[l], s[n]), c) = Joined(p[l], Add(s[n], c))
          <6>1. s[n] \in Seq(C) /\ p[l] \in Seq(C)
            BY <1>1, <3>4
          <6> HIDE DEF n
          <6> QED
            BY <6>1, AddAfter
        <5> QED
          BY <5>1, <5>2 DEF Add, Joined
      <4> QED
        BY <4>1
    <3> HIDE DEF n, m, e, f, v, z
    <3>8. v # << >>
      BY <3>3, <3>5, EmptySeq DEF n
    <3>9. /\ Len(z) = l + Len(v) - 1 /\ \A k \in 1..(l - 1) : z[k] = p[k]
      <4>1. \A k \in 1..(l - 1) : k \in 1..m /\ k # m
        BY <2>8, <3>3
      <4>2. \A k \in 1..(l - 1) : z[k] = u[k]
        BY <3>6, <4>1
      <4> QED
        BY <2>1, <2>8, <3>3, <3>5, <3>6, <4>2
    <3>10. z[l] = p[l] \o v[1]
      <4>1. CASE n = 1
        <5>1. l = m /\ 1 = n /\ l \in 1..m /\ 1 \in 1..n
          BY <2>8, <3>3, <4>1
        <5> QED
          BY <3>5, <3>6, <3>7, <4>1, <5>1
      <4>2. CASE n # 1
        <5>1. l \in 1..m /\ l # m /\ 1 \in 1..n
          BY <2>8, <3>3, <4>2
        <5>2. z[l] = u[l] /\ v[1] = s[1]
          BY <3>5, <3>6, <4>2, <5>1
        <5> QED
          BY <2>1, <5>2
      <4> QED
        BY <4>1, <4>2
    <3> QED
      BY <2>7, <3>1, <3>2, <3>8, <3>9, <3>10 DEF Merges, p, l
  <2> QED
    BY <2>4, <2>5, <2>6
<1>4. << >> \in T
  BY EmptySeq
<1>5. ASSUME NEW t \in Seq(C), NEW c \in C, t \in T
      PROVE  Append(t, c) \in T
  <2>1. Append(t, c) \in Seq(C)
    BY AppendProperties
  <2>2. ASSUME Append(t, c)[1] # Routes!Slash PROVE Merges(b, Append(t, c))
    <3>1. CASE t = << >>
      <4>1. Append(t, c)[1] = c
        BY <3>1
      <4> QED
        BY <1>2, <2>2, <3>1, <4>1
    <3>2. CASE t # << >>
      <4>1. Append(t, c)[1] = t[1]
        BY <3>2, AppendProperties, EmptySeq, LenProperties
      <4> QED
        BY <1>3, <1>5, <2>2, <3>2, <4>1
    <3> QED
      BY <3>1, <3>2
  <2> QED
    BY <2>1, <2>2
<1> HIDE DEF T
<1>6. \A t \in Seq(C) : t \in T
  BY <1>4, <1>5, SeqInduct
<1> QED
  BY <1>6 DEF T

(* The slashes at the end of a base do not matter. *)
LEMMA MaxIs ==
    \A n \in Nat : \A K \in SUBSET (1..n) : K # {} => \E m \in K : \A j \in K : j <= m
<1> DEFINE T == {n \in Nat : \A K \in SUBSET (1..n) :
                   K # {} => \E m \in K : \A j \in K : j <= m}
<1>1. ASSUME NEW n \in Nat, \A i \in Nat : i < n => i \in T,
             NEW K \in SUBSET (1..n), K # {}
      PROVE  \E m \in K : \A j \in K : j <= m
  <2>1. CASE n \in K
    BY <2>1
  <2>2. CASE n \notin K
    <3>1. n # 0
      <4>1. PICK k : k \in K
        BY <1>1
      <4>2. k \in 1..n
        BY <4>1
      <4> QED
        BY <4>2
    <3>2. \A k \in K : k \in 1..(n - 1)
      BY <1>1, <2>2
    <3>3. n - 1 \in Nat /\ n - 1 < n /\ K \in SUBSET (1..(n - 1))
      BY <3>1, <3>2
    <3> QED
      BY <1>1, <3>3
  <2> QED
    BY <2>1, <2>2
<1>2. \A n \in Nat : (\A i \in Nat : i < n => i \in T) => n \in T
  BY <1>1
<1> HIDE DEF T
<1>3. \A n \in Nat : n \in T
  BY <1>2, Induct
<1> QED
  BY <1>3 DEF T

Greatest(K) == CHOOSE k \in K : \A j \in K : j <= k

LEMMA GreatestIs ==
    ASSUME NEW n \in Nat, NEW K \in SUBSET (1..n), K # {}
    PROVE  Greatest(K) \in K /\ \A j \in K : j <= Greatest(K)
<1>1. PICK m \in K : \A j \in K : j <= m
  BY MaxIs
<1> QED
  BY <1>1 DEF Greatest

Least(K) == CHOOSE k \in K : \A j \in K : k <= j

LEMMA LeastOf ==
    ASSUME NEW I \in SUBSET Nat, I # {}
    PROVE  Least(I) \in I /\ \A j \in I : Least(I) <= j
<1>1. PICK n \in I : \A m \in I : ~(<<m, n>> \in OpToRel(<, Nat))
  <2>1. I \subseteq Nat
    OBVIOUS
  <2> QED
    BY <2>1, NatLessThanWellFounded, WFMin
<1>2. \A m \in I : ~(m < n)
  BY <1>1 DEF OpToRel
<1>3. \A m \in I : n <= m
  BY <1>2
<1> QED
  BY <1>3 DEF Least

Letters(t) == {k \in DOMAIN t : t[k] # Routes!Slash}

LEMMA Trims ==
    ASSUME NEW t
    PROVE  Routes!TrimSlashes(t) =
             IF Letters(t) = {} THEN << >> ELSE SubSeq(t, 1, Greatest(Letters(t)))
BY DEF Routes!TrimSlashes, Letters, Greatest

LEMMA TrimsAppend ==
    ASSUME NEW C, NEW t \in Seq(C), NEW c \in C
    PROVE  Routes!TrimSlashes(Append(t, c)) =
             IF c = Routes!Slash THEN Routes!TrimSlashes(t) ELSE Append(t, c)
<1> DEFINE u == Append(t, c)
<1>1. /\ Len(t) \in Nat /\ u \in Seq(C) /\ Len(u) = Len(t) + 1 /\ u[Len(t) + 1] = c
      /\ \A k \in 1..Len(t) : u[k] = t[k]
  BY LenProperties, AppendProperties
<1>2. DOMAIN t = 1..Len(t) /\ DOMAIN u = 1..Len(u)
  BY <1>1, LenProperties
<1> HIDE DEF u
<1>3. /\ Routes!TrimSlashes(t) =
           IF Letters(t) = {} THEN << >> ELSE SubSeq(t, 1, Greatest(Letters(t)))
      /\ Routes!TrimSlashes(u) =
           IF Letters(u) = {} THEN << >> ELSE SubSeq(u, 1, Greatest(Letters(u)))
  BY Trims
<1>4. CASE c = Routes!Slash
  <2>1. Letters(u) = Letters(t)
    BY <1>1, <1>2, <1>4 DEF Letters
  <2>2. CASE Letters(t) = {}
    BY <1>3, <1>4, <2>1, <2>2 DEF u
  <2>3. CASE Letters(t) # {}
    <3> DEFINE m == Greatest(Letters(t))
    <3>1. m \in 1..Len(t)
      <4>1. Letters(t) \in SUBSET (1..Len(t))
        BY <1>2 DEF Letters
      <4> QED
        BY <1>1, <2>3, <4>1, GreatestIs
    <3> HIDE DEF m
    <3>2. SubSeq(u, 1, m) = SubSeq(t, 1, m)
      <4>1. \A i \in 1..m : t[i] \in C /\ u[i] \in C /\ u[i] = t[i]
        BY <1>1, <3>1, ElementOfSeq
      <4>2. /\ SubSeq(t, 1, m) \in Seq(C) /\ Len(SubSeq(t, 1, m)) = m
            /\ \A i \in 1..m : SubSeq(t, 1, m)[i] = t[i]
        BY <1>1, <3>1, <4>1, SubSeqProperties
      <4>3. /\ SubSeq(u, 1, m) \in Seq(C) /\ Len(SubSeq(u, 1, m)) = m
            /\ \A i \in 1..m : SubSeq(u, 1, m)[i] = u[i]
        BY <1>1, <3>1, <4>1, SubSeqProperties
      <4> QED
        BY <4>1, <4>2, <4>3, SeqEqual
    <3> QED
      BY <1>3, <1>4, <2>1, <2>3, <3>2 DEF u, m
  <2> QED
    BY <2>2, <2>3
<1>5. CASE c # Routes!Slash
  <2>1. Len(u) \in Letters(u)
    BY <1>1, <1>2, <1>5 DEF Letters
  <2>2. Greatest(Letters(u)) = Len(u)
    <3>1. Greatest(Letters(u)) \in Letters(u) /\ Len(u) <= Greatest(Letters(u))
      <4>1. Letters(u) \in SUBSET (1..Len(u)) /\ Len(u) \in Nat
        BY <1>1, <1>2 DEF Letters
      <4> QED
        BY <2>1, <4>1, GreatestIs
    <3>2. Greatest(Letters(u)) \in 1..Len(u)
      BY <1>2, <3>1 DEF Letters
    <3> QED
      BY <1>1, <3>1, <3>2
  <2>3. SubSeq(u, 1, Len(u)) = u
    BY <1>1, SubSeqFull
  <2> QED
    BY <1>3, <1>5, <2>1, <2>2, <2>3 DEF u
<1> QED
  BY <1>4, <1>5

LEMMA Trimmed ==
    ASSUME NEW C
    PROVE  \A b \in Seq(C) :
             LET base == Routes!TrimSlashes(b)
             IN  /\ base \in Seq(C) /\ (base = << >> \/ Ends(base))
                 /\ Routes!Segments(b) = Routes!Segments(base)
<1> DEFINE OK(b) == LET base == Routes!TrimSlashes(b)
                    IN  /\ base \in Seq(C) /\ (base = << >> \/ Ends(base))
                        /\ Routes!Segments(b) = Routes!Segments(base)
           T == {b \in Seq(C) : OK(b)}
<1>1. << >> \in T
  <2>1. Routes!TrimSlashes(<< >>) = << >>
    <3>1. DOMAIN << >> = {}
      OBVIOUS
    <3> QED
      BY <3>1 DEF Routes!TrimSlashes
  <2>2. << >> \in Seq(C)
    BY EmptySeq
  <2> QED
    BY <2>1, <2>2
<1>2. ASSUME NEW b \in Seq(C), NEW c \in C, b \in T
      PROVE  Append(b, c) \in T
  <2> DEFINE u == Append(b, c)
  <2>1. u \in Seq(C) /\ u # << >> /\ Len(b) \in Nat /\ Len(u) = Len(b) + 1 /\ u[Len(b) + 1] = c
    BY AppendProperties, LenProperties
  <2>2. Routes!TrimSlashes(u) = IF c = Routes!Slash THEN Routes!TrimSlashes(b) ELSE u
    BY TrimsAppend
  <2>3. CASE c = Routes!Slash
    <3>1. Routes!Segments(u) = Routes!Segments(b)
      BY <2>3, SegmentsAppend
    <3> HIDE DEF u
    <3>2. OK(u)
      BY <1>2, <2>2, <2>3, <3>1
    <3> QED
      BY <2>1, <3>2 DEF u
  <2>4. CASE c # Routes!Slash
    <3> HIDE DEF u
    <3>1. Ends(u)
      BY <2>1, <2>4 DEF Ends
    <3> QED
      BY <2>1, <2>2, <2>4, <3>1 DEF u
  <2> QED
    BY <2>3, <2>4
<1> HIDE DEF T
<1>3. \A b \in Seq(C) : b \in T
  BY <1>1, <1>2, SeqInduct
<1> QED
  BY <1>3 DEF T

(* A text in two parts. *)
Before(t, n) == SubSeq(t, 1, n)
Behind(t, n) == SubSeq(t, n + 1, Len(t))

LEMMA Split ==
    ASSUME NEW C, NEW t \in Seq(C), NEW n \in Nat, n <= Len(t)
    PROVE  /\ Before(t, n) \in Seq(C) /\ Behind(t, n) \in Seq(C)
           /\ Len(Before(t, n)) = n
           /\ \A i \in 1..n : Before(t, n)[i] = t[i]
           /\ t = Before(t, n) \o Behind(t, n)
<1>1. Len(t) \in Nat
  BY LenProperties
<1>2. (\A i \in 1..n : t[i] \in C) /\ (\A i \in (n + 1)..Len(t) : t[i] \in C)
  <2>1. \A i \in 1..Len(t) : t[i] \in C
    BY ElementOfSeq
  <2>2. (\A i \in 1..n : i \in 1..Len(t)) /\ \A i \in (n + 1)..Len(t) : i \in 1..Len(t)
    BY <1>1
  <2> QED
    BY <2>1, <2>2
<1>3. Before(t, n) \in Seq(C)
  BY <1>2, SubSeqProperties DEF Before
<1>4. Len(Before(t, n)) = n
  BY <1>2, SubSeqProperties DEF Before
<1>5. \A i \in 1..n : Before(t, n)[i] = t[i]
  BY <1>2, SubSeqProperties DEF Before
<1>6. Behind(t, n) \in Seq(C)
  BY <1>1, <1>2, SubSeqProperties DEF Behind
<1>7. Before(t, n) \o Behind(t, n) = Before(t, Len(t))
  <2>1. 1 \in 1..(Len(t) + 1) /\ n \in (1 - 1)..Len(t) /\ Len(t) \in n..Len(t)
    BY <1>1
  <2> QED
    BY <2>1, ConcatAdjacentSubSeq DEF Before, Behind
<1>8. Before(t, Len(t)) = t
  BY SubSeqFull DEF Before
<1> QED
  BY <1>3, <1>4, <1>5, <1>6, <1>7, <1>8

(* What follows a slash is apart. *)
LEMMA SlashKeeps ==
    ASSUME NEW C, NEW b \in Seq(C), NEW t \in Seq(C), t # << >>, t[1] = Routes!Slash
    PROVE  Routes!Segments(b \o t) = Routes!Segments(b) \o Routes!Segments(t)
<1> DEFINE c == t[1]
           s == Behind(t, 1)
<1>1. c \in C /\ s \in Seq(C) /\ t = <<c>> \o s
  <2>1. Len(t) \in Nat /\ 1 <= Len(t)
    BY LenProperties, EmptySeq
  <2>2. /\ Before(t, 1) \in Seq(C) /\ Behind(t, 1) \in Seq(C)
        /\ t = Before(t, 1) \o Behind(t, 1)
        /\ Len(Before(t, 1)) = 1 /\ Before(t, 1)[1] = t[1]
    <3> DEFINE n == 1
    <3>1. n \in Nat /\ n \in 1..n /\ n <= Len(t)
      BY <2>1
    <3> HIDE DEF n
    <3>2. /\ Before(t, n) \in Seq(C) /\ Behind(t, n) \in Seq(C)
          /\ t = Before(t, n) \o Behind(t, n) /\ Len(Before(t, n)) = n
      BY <3>1, Split
    <3>3. \A i \in 1..n : Before(t, n)[i] = t[i]
      BY <3>1, Split
    <3>4. Before(t, n)[n] = t[n]
      BY <3>1, <3>3
    <3> QED
      BY <3>2, <3>4 DEF n
  <2>3. c \in C
    BY <2>1, ElementOfSeq
  <2>4. Before(t, 1) = <<c>>
    <3> DEFINE o == <<c>>
    <3>1. o \in Seq(C) /\ Len(o) = 1 /\ o[1] = c
      BY <2>3
    <3>2. \A i \in 1..1 : Before(t, 1)[i] = o[i]
      BY <2>2, <3>1
    <3> HIDE DEF o
    <3>3. Before(t, 1) = o
      BY <2>2, <3>1, <3>2, SeqEqual
    <3> QED
      BY <3>3 DEF o
  <2> QED
    BY <2>2, <2>3, <2>4
<1> HIDE DEF s
<1>2. ASSUME NEW a \in Seq(C)
      PROVE  /\ Append(a, c) \in Seq(C) /\ ~Ends(Append(a, c))
             /\ Routes!Segments(Append(a, c)) = Routes!Segments(a)
             /\ Append(a, c) = a \o <<c>>
             /\ Routes!Segments(Append(a, c) \o s) = Routes!Segments(a) \o Routes!Segments(s)
  <2>1. Append(a, c) \in Seq(C) /\ Append(a, c) = a \o <<c>>
    BY <1>1, AppendProperties, AppendIsConcat
  <2>2. Append(a, c)[Len(Append(a, c))] = c
    BY <1>1, AppendProperties
  <2>3. ~Ends(Append(a, c))
    BY <2>2 DEF Ends
  <2>4. Routes!Segments(Append(a, c)) = Routes!Segments(a)
    BY <1>1, SegmentsAppend
  <2> DEFINE d == Append(a, c)
  <2> HIDE DEF d
  <2>5. Routes!Segments(d \o s) = Routes!Segments(d) \o Routes!Segments(s)
    BY <1>1, <2>1, <2>3, ApartKeeps DEF d
  <2> QED
    BY <2>1, <2>3, <2>4, <2>5 DEF d
<1>3. b \o t = Append(b, c) \o s
  <2>1. (b \o <<c>>) \o s = b \o (<<c>> \o s)
    <3>1. <<c>> \in Seq(C)
      BY <1>1
    <3> QED
      BY <1>1, <3>1, ConcatAssociative
  <2> QED
    BY <1>1, <1>2, <2>1
<1>4. Routes!Segments(t) = Routes!Segments(s)
  <2>1. << >> \in Seq(C)
    BY EmptySeq
  <2>2. t = Append(<< >>, c) \o s
    <3>1. Append(<< >>, c) = <<c>>
      OBVIOUS
    <3> QED
      BY <1>1, <3>1
  <2>3. Routes!Segments(t) = Routes!Segments(<< >>) \o Routes!Segments(s)
    BY <1>2, <2>1, <2>2
  <2>4. Routes!Segments(s) \in Seq(Seq(C))
    BY <1>1, SegmentsType DEF Piecewise
  <2> DEFINE p == Routes!Segments(s)
  <2> HIDE DEF p
  <2>5. << >> \o p = p
    BY <2>4, ConcatEmptySeq DEF p
  <2> QED
    BY <2>3, <2>5, SegmentsEmpty DEF p
<1> QED
  BY <1>2, <1>3, <1>4

-----------------------------------------------------------------------------
(* Behind the base *)

Rested(text) == Routes!Segments(Routes!Stripped(config, text))

(* A path whose remainder has segments is below the base, or the base ends *)
(* within one of its segments.                                             *)
BelowBase(text) == Routes!Segments(text) = Routes!Base \o Rested(text)

WithinSegment(text) ==
    LET p == Routes!Base  s == Rested(text)  u == Routes!Segments(text)
    IN  /\ Len(p) \in Nat \ {0} /\ s[1] # << >>
        /\ Len(u) = Len(p) + Len(s) - 1
        /\ \A k \in 1..(Len(p) - 1) : u[k] = p[k]
        /\ u[Len(p)] = p[Len(p)] \o s[1]

LEMMA BelowOrWithin ==
    ASSUME Routes!ProxyAssumption, config \in Configs, NEW text \in Seq(Characters)
    PROVE  /\ Routes!Stripped(config, text) \in Seq(Characters)
           /\ Routes!Base \in Seq(Seq(Characters))
           /\ Rested(text) # << >> => BelowBase(text) \/ WithinSegment(text)
<1> DEFINE C == Characters
           rest == Routes!Stripped(config, text)
           p == Routes!Base
<1>1. CASE config.base = Routes!None
  <2>1. rest = text /\ p = << >>
    BY <1>1 DEF Routes!Stripped, Routes!Base
  <2> HIDE DEF rest, p
  <2>2. Routes!Segments(text) \in Seq(Seq(C))
    BY SegmentsType DEF Piecewise
  <2> DEFINE u == Routes!Segments(text)
  <2> HIDE DEF u
  <2>3. << >> \o u = u
    BY <2>2, ConcatEmptySeq DEF u
  <2>4. << >> \in Seq(Seq(C))
    BY EmptySeq
  <2> QED
    BY <2>1, <2>3, <2>4 DEF BelowBase, Rested, rest, p, u
<1>2. CASE config.base # Routes!None
  <2> DEFINE b == config.base[1]
             base == Routes!TrimSlashes(b)
  <2>1. b \in Seq(C)
    <3>1. config.base \in Seq(Seq(C)) /\ config.base # << >>
      BY <1>2 DEF Routes!ProxyAssumption, Routes!None
    <3>2. Len(config.base) \in Nat /\ Len(config.base) # 0
      BY <3>1, LenProperties, EmptySeq
    <3>3. 1 \in 1..Len(config.base)
      BY <3>2
    <3> QED
      BY <3>1, <3>3, ElementOfSeq
  <2>2. p = Routes!Segments(b)
    BY <1>2 DEF Routes!Base
  <2> HIDE DEF b
  <2>3. /\ base \in Seq(C) /\ (base = << >> \/ Ends(base))
        /\ p = Routes!Segments(base) /\ p \in Seq(Seq(C))
    <3>1. /\ base \in Seq(C) /\ (base = << >> \/ Ends(base))
          /\ Routes!Segments(b) = Routes!Segments(base)
      BY <2>1, Trimmed
    <3>2. Routes!Segments(b) \in Seq(Seq(C))
      BY <2>1, SegmentsType DEF Piecewise
    <3> QED
      BY <2>2, <3>1, <3>2
  <2>4. rest = IF Routes!IsPrefix(base, text)
               THEN Behind(text, Len(base)) ELSE << >>
    BY <1>2 DEF Routes!Stripped, Behind, b
  <2> HIDE DEF base, p, rest
  <2>5. CASE ~Routes!IsPrefix(base, text)
    <3>1. rest = << >> /\ << >> \in Seq(C)
      BY <2>4, <2>5, EmptySeq
    <3>2. Rested(text) = << >>
      BY <3>1, SegmentsEmpty DEF Rested, rest
    <3> QED
      BY <2>3, <3>1, <3>2 DEF rest, p
  <2>6. CASE Routes!IsPrefix(base, text)
    <3>1. Len(base) \in Nat /\ Len(base) <= Len(text)
          /\ Before(base, Len(base)) = Before(text, Len(base))
      BY <2>3, <2>6, LenProperties DEF Routes!IsPrefix, Before
    <3>2. Before(base, Len(base)) = base
      BY <2>3, SubSeqFull DEF Before
    <3>3. rest \in Seq(C) /\ text = base \o rest
      <4> DEFINE n == Len(base)
      <4>1. n \in Nat /\ n <= Len(text)
        BY <3>1
      <4>2. rest = Behind(text, n) /\ base = Before(text, n)
        BY <2>4, <2>6, <3>1, <3>2
      <4> HIDE DEF n
      <4>3. Behind(text, n) \in Seq(C) /\ text = Before(text, n) \o Behind(text, n)
        BY <4>1, Split
      <4> QED
        BY <4>2, <4>3
    <3>4. CASE base = << >>
      <4>1. p = << >>
        BY <2>3, <3>4, SegmentsEmpty
      <4>2. text = rest
        BY <3>3, <3>4, ConcatEmptySeq
      <4> DEFINE u == Routes!Segments(rest)
      <4>3. u \in Seq(Seq(C))
        BY <3>3, SegmentsType DEF Piecewise
      <4> HIDE DEF u
      <4>4. << >> \o u = u
        BY <4>3, ConcatEmptySeq
      <4> QED
        BY <2>3, <3>3, <4>1, <4>2, <4>4 DEF BelowBase, Rested, rest, p, u
    <3>5. CASE Ends(base) /\ rest # << >> /\ rest[1] = Routes!Slash
      <4>1. Routes!Segments(base \o rest) = Routes!Segments(base) \o Routes!Segments(rest)
        BY <2>3, <3>3, <3>5, SlashKeeps
      <4>2. Routes!Segments(text) = p \o Routes!Segments(rest)
        BY <2>3, <3>3, <4>1
      <4> QED
        BY <2>3, <3>3, <4>2 DEF BelowBase, Rested, rest, p
    <3>6. CASE Ends(base) /\ rest # << >> /\ rest[1] # Routes!Slash
      <4>1. Merges(base, rest)
        BY <2>3, <3>3, <3>6, WithinMerges
      <4> DEFINE s == Rested(text)
                 u == Routes!Segments(text)
      <4>2. /\ s # << >> /\ Len(u) = Len(p) + Len(s) - 1
            /\ \A k \in 1..(Len(p) - 1) : u[k] = p[k]
            /\ u[Len(p)] = p[Len(p)] \o s[1]
        BY <2>3, <3>3, <4>1 DEF Merges, Rested, rest
      <4>3. p # << >>
        BY <2>3, <3>6, SegmentsType DEF Piecewise
      <4>4. Len(p) \in Nat \ {0}
        BY <2>3, <4>3, LenProperties, EmptySeq
      <4>5. s[1] # << >>
        <5>1. s \in Seq(Seq(C)) /\ \A k \in 1..Len(s) : s[k] # << >>
          BY <3>3, SegmentsType DEF Piecewise, Rested, rest
        <5>2. Len(s) \in Nat /\ Len(s) # 0
          BY <4>2, <5>1, LenProperties, EmptySeq
        <5>3. 1 \in 1..Len(s)
          BY <5>2
        <5> QED
          BY <5>1, <5>3
      <4> HIDE DEF s, u
      <4>6. WithinSegment(text)
        BY <4>2, <4>4, <4>5 DEF WithinSegment, s, u, p
      <4> QED
        BY <2>3, <3>3, <4>6 DEF rest, p
    <3>7. CASE rest = << >>
      <4>1. Rested(text) = << >>
        BY <3>7, SegmentsEmpty DEF Rested, rest
      <4> QED
        BY <2>3, <3>3, <4>1 DEF rest, p
    <3> QED
      BY <2>3, <3>4, <3>5, <3>6, <3>7
  <2> QED
    BY <2>5, <2>6
<1> QED
  BY <1>1, <1>2

-----------------------------------------------------------------------------
(* Services and routes *)

LEMMA LeastIs ==
    ASSUME NEW I \in SUBSET Nat, I # {}
    PROVE  Routes!Min(I) \in I
BY LeastOf DEF Least, Routes!Min

(* The first element at one of some places. *)
At(seq, I) ==
    LET k == IF I # {} THEN Routes!Min(I) ELSE 0
    IN  IF k = 0 THEN Routes!None ELSE Routes!Some(seq[k])

LEMMA AtIs ==
    ASSUME NEW C, NEW seq \in Seq(C), NEW I \in SUBSET (1..Len(seq))
    PROVE  /\ I = {} => At(seq, I) = Routes!None
           /\ I # {} => \E i \in I : At(seq, I) = Routes!Some(seq[i])
           /\ I # {} => At(seq, I) # Routes!None
<1>1. CASE I = {}
  BY <1>1 DEF At
<1>2. CASE I # {}
  <2>1. I \in SUBSET Nat /\ \A i \in I : i # 0
    BY LenProperties
  <2>2. Routes!Min(I) \in I /\ Routes!Min(I) # 0
    BY <1>2, <2>1, LeastIs
  <2>3. At(seq, I) = Routes!Some(seq[Routes!Min(I)])
    BY <1>2, <2>2 DEF At
  <2>4. \A x : Routes!Some(x) # Routes!None
    BY DEF Routes!Some, Routes!None
  <2> QED
    BY <1>2, <2>2, <2>3, <2>4
<1> QED
  BY <1>1, <1>2

Named(id) == {i \in 1..Len(config.services) : config.services[i].id = id}

Fitting(service, rest) ==
    {i \in 1..Len(service.routes) :
        Routes!PathMatches(service.routes[i].path, rest)}

Admitting(service, m, rest) ==
    {i \in 1..Len(service.routes) :
        /\ Routes!Admits(service.routes[i], m)
        /\ Routes!PathMatches(service.routes[i].path, rest)}

LEMMA ServiceAt ==
    ASSUME NEW id
    PROVE  Routes!ServiceOf(config, id) = At(config.services, Named(id))
BY DEF Routes!ServiceOf, Routes!FirstOf, Routes!SelectInSeq, At, Named

LEMMA RouteAt ==
    ASSUME NEW service, NEW m, NEW rest
    PROVE  Routes!RouteOf(service, m, rest) =
             IF At(service.routes, Admitting(service, m, rest)) = Routes!None /\ m = "POST"
             THEN At(service.routes, Fitting(service, rest))
             ELSE At(service.routes, Admitting(service, m, rest))
BY DEF Routes!RouteOf, Routes!FirstOf, Routes!SelectInSeq, At, Admitting, Fitting

(* What match_route finds, as the properties put it. *)
Matched(f, m, segments) ==
    /\ segments # << >>
    /\ f.service.id = Head(segments) /\ f.upstream = Tail(segments)
    /\ Routes!PathMatches(f.route.path, Tail(segments))
    /\ \/ Routes!Admits(f.route, m)
       \/ m = "POST" /\ \A k \in DOMAIN f.service.routes :
             LET r == f.service.routes[k]
             IN  Routes!PathMatches(r.path, Tail(segments)) => ~Routes!Admits(r, m)

LEMMA MatchIs ==
    ASSUME Routes!ProxyAssumption, config \in Configs, NEW m, NEW text,
           Routes!MatchRoute(config, m, text) # Routes!None
    PROVE  \E f : /\ Routes!MatchRoute(config, m, text) = Routes!Some(f)
                  /\ Matched(f, m, Rested(text))
<1> DEFINE segments == Rested(text)
           rest == Tail(segments)
           services == Routes!ServiceOf(config, Head(segments))
           service == services[1]
           routes == Routes!RouteOf(service, m, rest)
           f == [service |-> service, route |-> routes[1], upstream |-> rest]
<1>1. /\ segments # << >> /\ services # Routes!None /\ routes # Routes!None
      /\ Routes!MatchRoute(config, m, text) = Routes!Some(f)
  BY DEF Routes!MatchRoute, Rested, Routes!None
<1>2. /\ f.service = service /\ f.route = routes[1] /\ f.upstream = rest
  OBVIOUS
<1> HIDE DEF f, segments, rest
<1>3. /\ config.services \in Seq(Routes!ToSet(config.services))
      /\ \A s \in Routes!ToSet(config.services) : s.routes \in Seq(Routes!ToSet(s.routes))
  BY DEF Routes!ProxyAssumption
<1>4. service.id = Head(segments) /\ service \in Routes!ToSet(config.services)
  <2> DEFINE id == Head(segments)
             I == Named(id)
  <2>1. I \in SUBSET (1..Len(config.services))
    BY DEF Named
  <2>2. services = At(config.services, I)
    BY ServiceAt
  <2> HIDE DEF I, services
  <2>3. PICK i \in I : services = Routes!Some(config.services[i])
    BY <1>1, <1>3, <2>1, <2>2, AtIs
  <2>4. services[1] = config.services[i]
    BY <2>3 DEF Routes!Some
  <2>5. i \in DOMAIN config.services
    BY <1>3, <2>1, LenProperties
  <2>6. config.services[i].id = id
    BY <2>3 DEF I, Named
  <2> QED
    BY <2>4, <2>5, <2>6 DEF Routes!ToSet, services
<1> HIDE DEF services, service
<1>5. service.routes \in Seq(Routes!ToSet(service.routes))
  BY <1>3, <1>4
<1> DEFINE A == Admitting(service, m, rest)
           F == Fitting(service, rest)
<1>6. /\ A \in SUBSET (1..Len(service.routes)) /\ F \in SUBSET (1..Len(service.routes))
      /\ DOMAIN service.routes = 1..Len(service.routes)
  BY <1>5, LenProperties DEF Admitting, Fitting
<1>7. routes = IF At(service.routes, A) = Routes!None /\ m = "POST"
               THEN At(service.routes, F) ELSE At(service.routes, A)
  BY RouteAt
<1> HIDE DEF routes, A, F
<1>8. CASE A # {}
  <2>1. PICK i \in A : At(service.routes, A) = Routes!Some(service.routes[i])
    BY <1>5, <1>6, <1>8, AtIs
  <2>2. At(service.routes, A) # Routes!None
    BY <1>5, <1>6, <1>8, AtIs
  <2>3. routes[1] = service.routes[i]
    BY <1>7, <2>1, <2>2 DEF Routes!Some
  <2>4. /\ Routes!Admits(service.routes[i], m)
        /\ Routes!PathMatches(service.routes[i].path, rest)
    BY DEF A, Admitting
  <2> QED
    BY <1>1, <1>2, <1>4, <2>3, <2>4 DEF Matched, segments, rest
<1>9. CASE A = {}
  <2>1. At(service.routes, A) = Routes!None
    BY <1>5, <1>6, <1>9, AtIs
  <2>2. m = "POST" /\ routes = At(service.routes, F)
    BY <1>1, <1>7, <2>1
  <2>3. F # {}
    BY <1>1, <1>5, <1>6, <2>2, AtIs
  <2>4. PICK i \in F : At(service.routes, F) = Routes!Some(service.routes[i])
    BY <1>5, <1>6, <2>3, AtIs
  <2>5. routes[1] = service.routes[i] /\ Routes!PathMatches(service.routes[i].path, rest)
    BY <2>2, <2>4 DEF Routes!Some, F, Fitting
  <2>6. \A k \in DOMAIN service.routes :
          Routes!PathMatches(service.routes[k].path, rest) =>
              ~Routes!Admits(service.routes[k], m)
    BY <1>6, <1>9 DEF A, Admitting
  <2> QED
    BY <1>1, <1>2, <1>4, <2>2, <2>5, <2>6 DEF Matched, segments, rest
<1> QED
  BY <1>8, <1>9

(* The head by its place. *)
LEMMA HeadIs ==
    ASSUME NEW S, NEW s \in Seq(S), s # << >>
    PROVE  Head(s) = s[1]
OBVIOUS

(* What is found below the base fits, and what is found elsewhere is where *)
(* the base ends within a segment.                                         *)
LEMMA RoutedShows ==
    ASSUME Routes!ProxyAssumption, config \in Configs, path \in Seq(Characters),
           NEW f, Matched(f, method, Rested(path))
    PROVE  /\ Routes!Below =>
               /\ Routes!Rest # << >> /\ Head(Routes!Rest) = f.service.id
               /\ f.upstream = Tail(Routes!Rest)
               /\ Matched(f, method, Routes!Rest)
           /\ ~Routes!Below =>
               LET k == Len(Routes!Base)
               IN  /\ k > 0 /\ Len(Routes!Segments(path)) >= k
                   /\ SubSeq(Routes!Segments(path), 1, k - 1) =
                        SubSeq(Routes!Base, 1, k - 1)
                   /\ Routes!Segments(path)[k] = Routes!Base[k] \o f.service.id
<1> DEFINE S == Seq(Characters)
           p == Routes!Base
           s == Rested(path)
           u == Routes!Segments(path)
           k == Len(p)
<1>1. s # << >> /\ f.service.id = Head(s) /\ f.upstream = Tail(s)
  BY DEF Matched
<1>2. p \in Seq(S) /\ s \in Seq(S) /\ u \in Seq(S) /\ (BelowBase(path) \/ WithinSegment(path))
  <2>1. /\ Routes!Stripped(config, path) \in Seq(Characters) /\ p \in Seq(S)
        /\ (BelowBase(path) \/ WithinSegment(path))
    BY <1>1, BelowOrWithin
  <2>2. s \in Seq(S) /\ u \in Seq(S)
    BY <2>1, SegmentsType DEF Piecewise, Rested
  <2> QED
    BY <2>1, <2>2
<1>3. Routes!Below <=> Routes!IsPrefix(p, u)
  BY DEF Routes!Below
<1>4. Routes!Rest = SubSeq(u, k + 1, Len(u))
  BY DEF Routes!Rest
<1>5. k \in Nat /\ Len(s) \in Nat /\ Len(s) # 0 /\ Len(u) \in Nat
  BY <1>1, <1>2, LenProperties, EmptySeq
<1>6. CASE BelowBase(path)
  <2>1. u = p \o s
    BY <1>6 DEF BelowBase
  <2> HIDE DEF p, s, u, S
  <2>2. /\ Len(u) = k + Len(s)
        /\ \A i \in 1..(k + Len(s)) : u[i] = IF i <= k THEN p[i] ELSE s[i - k]
    BY <1>2, <2>1, ConcatProperties
  <2>3. Before(u, k) = p
    <3>1. /\ Before(u, k) \in Seq(S) /\ Len(Before(u, k)) = k
          /\ \A i \in 1..k : Before(u, k)[i] = u[i]
      <4> DEFINE n == k
      <4>1. n \in Nat /\ n <= Len(u)
        BY <1>5, <2>2
      <4> HIDE DEF n
      <4>2. /\ Before(u, n) \in Seq(S) /\ Len(Before(u, n)) = n
            /\ \A i \in 1..n : Before(u, n)[i] = u[i]
        BY <1>2, <4>1, Split
      <4> QED
        BY <4>2 DEF n
    <3>2. \A i \in 1..k : u[i] = p[i]
      BY <1>5, <2>2
    <3>3. \A i \in 1..k : Before(u, k)[i] = p[i]
      BY <3>1, <3>2
    <3> QED
      BY <1>2, <3>1, <3>3, SeqEqual
  <2>4. Routes!Rest = s
    <3>1. \A i \in (k + 1)..Len(u) : u[i] \in S
      <4>1. \A i \in (k + 1)..Len(u) : i \in 1..Len(u)
        BY <1>5
      <4> QED
        BY <1>2, <4>1, ElementOfSeq
    <3>2. /\ Behind(u, k) \in Seq(S) /\ Len(Behind(u, k)) = Len(s)
          /\ \A i \in 1..Len(s) : Behind(u, k)[i] = u[k + i]
      <4>1. /\ Behind(u, k) \in Seq(S)
            /\ Len(Behind(u, k)) = IF k + 1 <= Len(u) THEN Len(u) - (k + 1) + 1 ELSE 0
            /\ \A i \in 1..(Len(u) - (k + 1) + 1) : Behind(u, k)[i] = u[(k + 1) + i - 1]
        BY <1>5, <3>1, SubSeqProperties DEF Behind
      <4>2. Len(u) - (k + 1) + 1 = Len(s) /\ k + 1 <= Len(u)
        BY <1>5, <2>2
      <4>3. \A i \in 1..Len(s) : (k + 1) + i - 1 = k + i
        BY <1>5
      <4> QED
        BY <4>1, <4>2, <4>3
    <3>3. \A i \in 1..Len(s) : u[k + i] = s[i]
      BY <1>5, <2>2
    <3>4. \A i \in 1..Len(s) : Behind(u, k)[i] = s[i]
      BY <3>2, <3>3
    <3>5. Behind(u, k) = s
      BY <1>2, <3>2, <3>4, SeqEqual
    <3> QED
      BY <1>4, <3>5 DEF Behind
  <2>5. Routes!Below
    <3>1. Before(p, k) = p
      BY <1>2, SubSeqFull DEF Before
    <3> QED
      BY <1>3, <1>5, <2>2, <2>3, <3>1 DEF Routes!IsPrefix, Before
  <2> QED
    BY <1>1, <2>4, <2>5 DEF s
<1>7. CASE WithinSegment(path)
  <2>1. /\ k # 0 /\ s[1] # << >> /\ Len(u) = k + Len(s) - 1
        /\ \A i \in 1..(k - 1) : u[i] = p[i]
        /\ u[k] = p[k] \o s[1]
    BY <1>7 DEF WithinSegment
  <2>2. Head(s) = s[1]
    BY <1>1, <1>2, HeadIs
  <2> HIDE DEF p, s, u, S
  <2>3. Len(u) >= k /\ k > 0 /\ k \in 1..k /\ k - 1 \in Nat
    BY <1>5, <2>1
  <2>4. s[1] \in S /\ p[k] \in S
    <3>1. 1 \in 1..Len(s) /\ k \in 1..Len(p)
      BY <1>5, <2>3
    <3> QED
      BY <1>2, <3>1, ElementOfSeq
  <2>5. Before(u, k - 1) = Before(p, k - 1)
    <3>1. k - 1 \in Nat /\ k - 1 <= Len(u) /\ k - 1 <= Len(p)
      BY <1>5, <2>1
    <3> DEFINE l == k - 1
    <3>2. \A i \in 1..l : u[i] = p[i]
      BY <2>1
    <3>3. l \in Nat /\ l <= Len(u) /\ l <= Len(p)
      BY <3>1
    <3> HIDE DEF l
    <3>4. /\ Before(u, l) \in Seq(S) /\ Len(Before(u, l)) = l
          /\ \A i \in 1..l : Before(u, l)[i] = u[i]
      BY <1>2, <3>3, Split
    <3>5. /\ Before(p, l) \in Seq(S) /\ Len(Before(p, l)) = l
          /\ \A i \in 1..l : Before(p, l)[i] = p[i]
      BY <1>2, <3>3, Split
    <3>6. \A i \in 1..l : Before(u, l)[i] = Before(p, l)[i]
      BY <3>2, <3>4, <3>5
    <3>7. Before(u, l) = Before(p, l)
      BY <3>4, <3>5, <3>6, SeqEqual
    <3> QED
      BY <3>7 DEF l
  <2>6. ~Routes!Below
    <3>1. ASSUME Before(p, k) = Before(u, k) PROVE FALSE
      <4>1. Before(u, k)[k] = u[k] /\ Before(p, k)[k] = p[k]
        <5> DEFINE n == k
        <5>1. n \in Nat /\ n <= Len(u) /\ n <= Len(p) /\ n \in 1..n
          BY <1>5, <2>3
        <5> HIDE DEF n
        <5>2. \A i \in 1..n : Before(u, n)[i] = u[i]
          BY <1>2, <5>1, Split
        <5>3. \A i \in 1..n : Before(p, n)[i] = p[i]
          BY <1>2, <5>1, Split
        <5>4. Before(u, n)[n] = u[n] /\ Before(p, n)[n] = p[n]
          BY <5>1, <5>2, <5>3
        <5> QED
          BY <5>4 DEF n
      <4>2. u[k] = p[k]
        BY <3>1, <4>1
      <4> DEFINE h == s[1]
                 g == p[k]
      <4>3. h \in Seq(Characters) /\ g \in Seq(Characters) /\ h # << >>
        BY <2>1, <2>4 DEF S
      <4>4. g \o h = g
        BY <2>1, <4>2
      <4> HIDE DEF h, g
      <4> QED
        BY <4>3, <4>4, ConcatEqualIffEmpty
    <3> QED
      BY <1>3, <3>1 DEF Routes!IsPrefix, Before
  <2>7. SubSeq(u, 1, k - 1) = SubSeq(p, 1, k - 1)
    BY <2>5 DEF Before
  <2>8. u[k] = p[k] \o f.service.id
    BY <1>1, <2>1, <2>2
  <2> QED
    BY <2>3, <2>6, <2>7, <2>8 DEF u, p
<1> QED
  BY <1>2, <1>6, <1>7

(* Tuples that grow. *)
LEMMA Pair ==
    ASSUME NEW a, NEW b
    PROVE  Append(<<a>>, b) = <<a, b>> /\ Append(<<a, b>>, a) = <<a, b, a>>
<1> DEFINE C == {a, b}
           one == <<a>>
           two == <<a, b>>
           more == <<a, b, a>>
<1>1. /\ one \in Seq(C) /\ Len(one) = 1 /\ one[1] = a
      /\ two \in Seq(C) /\ Len(two) = 2 /\ two[1] = a /\ two[2] = b
      /\ more \in Seq(C) /\ Len(more) = 3 /\ more[1] = a /\ more[2] = b /\ more[3] = a
  OBVIOUS
<1>2. a \in C /\ b \in C
  OBVIOUS
<1> HIDE DEF C, one, two, more
<1>6. one \in Seq(C) /\ two \in Seq(C)
  BY <1>1
<1> DEFINE x == Append(one, b)
           y == Append(two, a)
<1>3. /\ x \in Seq(C) /\ Len(x) = 2 /\ x[1] = a /\ x[2] = b
      /\ y \in Seq(C) /\ Len(y) = 3 /\ y[1] = a /\ y[2] = b /\ y[3] = a
  <2>1. /\ x \in Seq(C) /\ Len(x) = Len(one) + 1 /\ x[Len(one) + 1] = b
        /\ \A i \in 1..Len(one) : x[i] = one[i]
    BY <1>2, <1>6, AppendProperties
  <2>2. /\ y \in Seq(C) /\ Len(y) = Len(two) + 1 /\ y[Len(two) + 1] = a
        /\ \A i \in 1..Len(two) : y[i] = two[i]
    BY <1>2, <1>6, AppendProperties
  <2> HIDE DEF x, y
  <2> QED
    BY <1>1, <2>1, <2>2
<1> HIDE DEF x, y
<1>4. x = two
  <2>1. \A i \in 1..2 : x[i] = two[i]
    BY <1>1, <1>3
  <2> QED
    BY <1>1, <1>3, <2>1, SeqEqual
<1>5. y = more
  <2>1. \A i \in 1..3 : y[i] = more[i]
    BY <1>1, <1>3
  <2> QED
    BY <1>1, <1>3, <2>1, SeqEqual
<1> QED
  BY <1>4, <1>5 DEF x, y, one, two, more

(* What asks for the services names nothing else. *)
LEMMA AskedBegin ==
    ASSUME NEW C, NEW rest \in Seq(C), NEW w \in {"s", "l"}, Routes!Slash # w,
           \/ rest = <<Routes!Slash, w>>
           \/ Routes!IsPrefix(<<Routes!Slash, w, Routes!Slash>>, rest)
    PROVE  Head(Routes!Segments(rest)) = <<w>>
<1> DEFINE c == Routes!Slash
           one == Append(Append(<< >>, c), w)
           two == Append(one, c)
<1>1. one = <<c, w>> /\ two = <<c, w, c>> /\ Len(one) = 2 /\ Len(two) = 3
  <2>1. Append(<< >>, c) = <<c>>
    OBVIOUS
  <2>2. Append(<<c>>, w) = <<c, w>>
    BY Pair
  <2>3. Append(<<c, w>>, c) = <<c, w, c>>
    BY Pair
  <2>4. Len(<<c, w>>) = 2 /\ Len(<<c, w, c>>) = 3
    OBVIOUS
  <2> QED
    BY <2>1, <2>2, <2>3, <2>4
<1>2. c \in C /\ w \in C
  <2>1. CASE rest = <<c, w>>
    <3>1. Len(rest) = 2 /\ rest[1] = c /\ rest[2] = w /\ 1 \in 1..2 /\ 2 \in 1..2
      BY <2>1
    <3> QED
      BY <3>1, ElementOfSeq
  <2>2. CASE Routes!IsPrefix(<<c, w, c>>, rest)
    <3> DEFINE q == <<c, w, c>>
    <3>1. Len(q) = 3 /\ q[1] = c /\ q[2] = w /\ q \in Seq({c, w})
      OBVIOUS
    <3> HIDE DEF q
    <3>2. Before(q, 3) = Before(rest, 3) /\ 3 <= Len(rest)
      BY <2>2, <3>1 DEF q, Routes!IsPrefix, Before
    <3>3. 3 \in Nat /\ 1 \in 1..3 /\ 2 \in 1..3 /\ 3 <= Len(q)
      BY <3>1
    <3>4. Before(q, 3)[1] = c /\ Before(q, 3)[2] = w
      <4>1. \A i \in 1..3 : Before(q, 3)[i] = q[i]
        <5> DEFINE n == 3
                   D == {c, w}
        <5>1. q \in Seq(D) /\ n \in Nat /\ n <= Len(q)
          BY <3>1, <3>3
        <5> HIDE DEF n, D
        <5>2. \A i \in 1..n : Before(q, n)[i] = q[i]
          BY <5>1, Split
        <5> QED
          BY <5>2 DEF n
      <4> QED
        BY <3>1, <3>3, <4>1
    <3>5. Before(rest, 3)[1] = rest[1] /\ Before(rest, 3)[2] = rest[2]
      <4>1. \A i \in 1..3 : Before(rest, 3)[i] = rest[i]
        <5> DEFINE n == 3
        <5>1. n \in Nat /\ n <= Len(rest)
          BY <3>2, <3>3
        <5> HIDE DEF n
        <5>2. \A i \in 1..n : Before(rest, n)[i] = rest[i]
          BY <5>1, Split
        <5> QED
          BY <5>2 DEF n
      <4> QED
        BY <3>3, <4>1
    <3>6. 1 \in 1..Len(rest) /\ 2 \in 1..Len(rest)
      BY <3>2, LenProperties
    <3> QED
      BY <3>2, <3>4, <3>5, <3>6, ElementOfSeq
  <2> QED
    BY <2>1, <2>2
<1>3. /\ << >> \in Seq(C) /\ Append(<< >>, c) \in Seq(C) /\ one \in Seq(C) /\ two \in Seq(C)
  BY <1>2, EmptySeq, AppendProperties
<1>4. Routes!Segments(one) = Append(<< >>, <<w>>)
  <2>1. Routes!Segments(Append(<< >>, c)) = << >>
    BY <1>2, <1>3, SegmentsAppend, SegmentsEmpty
  <2> DEFINE d == Append(<< >>, c)
  <2>2. d[Len(d)] = c /\ d \in Seq(C) /\ w # c
    BY <1>3
  <2> HIDE DEF d
  <2>3. Routes!Segments(Append(d, w)) = Append(Routes!Segments(d), <<w>>)
    BY <1>2, <2>2, SegmentsAppend
  <2> QED
    BY <2>1, <2>3 DEF d
<1>5. Routes!Segments(two) = Append(<< >>, <<w>>)
  BY <1>2, <1>3, <1>4, SegmentsAppend
<1>6. Head(Append(<< >>, <<w>>)) = <<w>>
  OBVIOUS
<1>7. CASE rest = <<c, w>>
  BY <1>1, <1>4, <1>6, <1>7
<1>8. CASE Routes!IsPrefix(<<c, w, c>>, rest)
  <2> HIDE DEF one, two
  <2>1. 3 <= Len(rest) /\ Before(two, 3) = Before(rest, 3)
    BY <1>1, <1>8 DEF Routes!IsPrefix, Before
  <2>2. Before(two, 3) = two
    BY <1>1, <1>3, SubSeqFull DEF Before
  <2>3. Behind(rest, 3) \in Seq(C) /\ rest = two \o Behind(rest, 3)
    BY <2>1, <2>2, Split
  <2> DEFINE t == Behind(rest, 3)
             q == Append(<< >>, <<w>>)
  <2>4. ~Ends(two)
    BY <1>1 DEF Ends, two
  <2> HIDE DEF t
  <2>5. Routes!Segments(two \o t) = Routes!Segments(two) \o Routes!Segments(t)
    BY <1>3, <2>3, <2>4, ApartKeeps DEF t
  <2>6. Routes!Segments(t) \in Seq(Seq(C))
    BY <2>3, SegmentsType DEF Piecewise, t
  <2> DEFINE v == Routes!Segments(t)
  <2>7. q \in Seq(Seq(C)) /\ Len(q) = 1 /\ q[1] = <<w>>
    BY <1>2
  <2> HIDE DEF v, q
  <2>8. q \o v \in Seq(Seq(C)) /\ Len(q \o v) = 1 + Len(v) /\ (q \o v)[1] = <<w>>
        /\ q \o v # << >>
    <3>4. v \in Seq(Seq(C))
      BY <2>6 DEF v
    <3>1. Len(v) \in Nat
      BY <3>4, LenProperties
    <3>2. 1 \in 1..(1 + Len(v))
      BY <3>1
    <3>3. /\ q \o v \in Seq(Seq(C)) /\ Len(q \o v) = 1 + Len(v) /\ (q \o v)[1] = <<w>>
      <4>1. /\ q \o v \in Seq(Seq(C)) /\ Len(q \o v) = Len(q) + Len(v)
            /\ \A i \in 1..(Len(q) + Len(v)) :
                 (q \o v)[i] = IF i <= Len(q) THEN q[i] ELSE v[i - Len(q)]
        BY <2>7, <3>4, ConcatProperties
      <4> QED
        BY <2>7, <3>2, <4>1
    <3> QED
      BY <3>1, <3>3, EmptySeq
  <2>9. Head(q \o v) = <<w>>
    BY <2>8, HeadIs
  <2>10. Routes!Segments(rest) = q \o v
    BY <1>5, <2>3, <2>5 DEF q, v, t
  <2> QED
    BY <2>9, <2>10
<1> QED
  BY <1>7, <1>8

LEMMA DiscoveryShows ==
    ASSUME Routes!ProxyAssumption, config \in Configs, path \in Seq(Characters),
           Routes!Discovery(config, method, path) # Routes!None
    PROVE  Head(Rested(path)) \in {<<"s">>, <<"l">>}
<1> DEFINE rest == Routes!Stripped(config, path)
           c == Routes!Slash
<1>1. rest \in Seq(Characters)
  BY BelowOrWithin
<1>2. c # "s" /\ c # "l"
  BY DEF Routes!Slash
<1> HIDE DEF rest
<1>3. \/ rest = <<c, "l">> \/ rest = <<c, "s">> \/ rest = <<c, "s", c>>
      \/ Routes!IsPrefix(<<c, "s", c>>, rest)
  BY DEF Routes!Discovery, rest
<1>4. rest = <<c, "s", c>> => Routes!IsPrefix(<<c, "s", c>>, rest)
  BY DEF Routes!IsPrefix
<1>5. CASE rest = <<c, "l">>
  <2>1. Head(Routes!Segments(rest)) = <<"l">>
    BY <1>1, <1>2, <1>5, AskedBegin
  <2> QED
    BY <2>1 DEF Rested, rest
<1>6. CASE rest # <<c, "l">>
  <2>1. Head(Routes!Segments(rest)) = <<"s">>
    BY <1>1, <1>2, <1>3, <1>4, <1>6, AskedBegin
  <2> QED
    BY <2>1 DEF Rested, rest
<1> QED
  BY <1>5, <1>6

-----------------------------------------------------------------------------
ProxyInv ==
    /\ config \in Configs /\ path \in Seq(Characters)
    /\ found \in {Routes!None, Routes!MatchRoute(config, method, path)}
    /\ discovered \in {Routes!None, Routes!Discovery(config, method, path)}

LEMMA ProxyStart ==
    ASSUME Routes!ProxyAssumption
    PROVE  Routes!Init => ProxyInv
<1>1. ASSUME NEW t \in Routes!Paths PROVE t \in Seq(Characters)
  <2>1. PICK n \in 0..MaxLength : t \in [1..n -> Characters]
    BY <1>1 DEF Routes!Paths
  <2>2. n \in Nat
    BY DEF Routes!ProxyAssumption
  <2> QED
    BY <2>1, <2>2, SeqDef
<1>2. ASSUME Routes!Init PROVE ProxyInv
  <2>1. config \in Configs /\ path \in Seq(Characters)
    BY <1>1, <1>2 DEF Routes!Init
  <2>2. found = Routes!None /\ discovered = Routes!None
    BY <1>2 DEF Routes!Init
  <2> QED
    BY <2>1, <2>2 DEF ProxyInv
<1> QED
  BY <1>2

LEMMA ProxyStep ==
    ProxyInv /\ [Routes!Next]_(Routes!vars) => ProxyInv'
<1>1. ASSUME ProxyInv, Routes!Look PROVE ProxyInv'
  BY <1>1 DEF ProxyInv, Routes!Look
<1>2. ASSUME ProxyInv, UNCHANGED Routes!vars PROVE ProxyInv'
  BY <1>2 DEF ProxyInv, Routes!vars
<1> QED
  BY <1>1, <1>2 DEF Routes!Next

LEMMA ProxyInvShows ==
    ASSUME Routes!ProxyAssumption, ProxyInv
    PROVE  /\ Routes!RoutedAsAddressed
           /\ Routes!OthersAreRefused
           /\ Routes!DiscoveryIsApart
<1>1. ASSUME NEW f \in Routes!ToSet(found)
      PROVE  Matched(f, method, Rested(path))
  <2>1. found # << >>
    <3>1. DOMAIN << >> = {}
      OBVIOUS
    <3> QED
      BY <3>1 DEF Routes!ToSet
  <2>2. found = Routes!MatchRoute(config, method, path) /\ found # Routes!None
    BY <2>1 DEF ProxyInv, Routes!None
  <2>3. PICK g : found = Routes!Some(g) /\ Matched(g, method, Rested(path))
    BY <2>2, MatchIs DEF ProxyInv
  <2>4. f = g
    BY <2>3 DEF Routes!ToSet, Routes!Some
  <2> QED
    BY <2>3, <2>4
<1>2. Routes!RoutedAsAddressed
  BY <1>1, RoutedShows DEF ProxyInv, Routes!RoutedAsAddressed, Matched
<1>3. Routes!OthersAreRefused
  BY <1>1, RoutedShows DEF ProxyInv, Routes!OthersAreRefused
<1>4. Routes!DiscoveryIsApart
  <2>1. ASSUME NEW f \in Routes!ToSet(found), discovered # Routes!None
        PROVE  f.service.id \in {<<"s">>, <<"l">>}
    <3>1. Head(Rested(path)) \in {<<"s">>, <<"l">>}
      BY <2>1, DiscoveryShows DEF ProxyInv
    <3> QED
      BY <1>1, <3>1 DEF Matched
  <2> QED
    BY <2>1 DEF Routes!DiscoveryIsApart
<1> QED
  BY <1>2, <1>3, <1>4

(* A request goes where its path says and nowhere else, for any base, any  *)
(* services with any routes, and paths of any length.                      *)
THEOREM RequestsAreRouted ==
    ASSUME Routes!ProxyAssumption
    PROVE  Routes!Spec => [](/\ Routes!RoutedAsAddressed
                             /\ Routes!OthersAreRefused
                             /\ Routes!DiscoveryIsApart)
<1>1. Routes!Init => ProxyInv
  BY ProxyStart
<1>2. ProxyInv /\ [Routes!Next]_(Routes!vars) => ProxyInv'
  BY ProxyStep
<1>3. ProxyInv =>
        Routes!RoutedAsAddressed /\ Routes!OthersAreRefused /\ Routes!DiscoveryIsApart
  BY ProxyInvShows
<1> QED
  BY <1>1, <1>2, <1>3, PTL DEF Routes!Spec

-----------------------------------------------------------------------------
(* Amounts *)

(* The value of a numeral, digit by digit, and the powers of ten. *)
Counts(t, f, n) ==
    f = [k \in 0..n |-> IF k = 0 THEN 0 ELSE 10 * f[k - 1] + Numbers!Digit[t[k]]]

CountsOn(t, f, n) ==
    f[0] = 0 /\ \A k \in 1..n : f[k] = 10 * f[k - 1] + Numbers!Digit[t[k]]

LEMMA CountsAt ==
    ASSUME NEW t, NEW n \in Nat, NEW f, Counts(t, f, n)
    PROVE  CountsOn(t, f, n)
<1> DEFINE g == [k \in 0..n |-> IF k = 0 THEN 0 ELSE 10 * f[k - 1] + Numbers!Digit[t[k]]]
<1>1. g[0] = 0 /\ \A k \in 1..n : g[k] = 10 * f[k - 1] + Numbers!Digit[t[k]]
  OBVIOUS
<1>2. f = g
  BY DEF Counts
<1> HIDE DEF g
<1> QED
  BY <1>1, <1>2 DEF CountsOn

LEMMA CountsExists ==
    ASSUME NEW t
    PROVE  \A n \in Nat : \E f : Counts(t, f, n)
<1> DEFINE T == {n \in Nat : \E f : Counts(t, f, n)}
<1>1. ASSUME NEW n \in Nat, \A m \in Nat : m < n => m \in T
      PROVE  \E f : Counts(t, f, n)
  <2>1. CASE n = 0
    <3> DEFINE g == [k \in 0..n |-> 0]
    <3>1. g = [k \in 0..n |-> IF k = 0 THEN 0 ELSE 10 * g[k - 1] + Numbers!Digit[t[k]]]
      BY <2>1
    <3> QED
      BY <3>1 DEF Counts
  <2>2. CASE n # 0
    <3>1. PICK f : Counts(t, f, n - 1)
      BY <1>1, <2>2
    <3>2. f[0] = 0 /\ \A k \in 1..(n - 1) : f[k] = 10 * f[k - 1] + Numbers!Digit[t[k]]
      <4>1. n - 1 \in Nat
        BY <2>2
      <4>2. CountsOn(t, f, n - 1)
        BY <3>1, <4>1, CountsAt
      <4> QED
        BY <4>2 DEF CountsOn
    <3> DEFINE last == 10 * f[n - 1] + Numbers!Digit[t[n]]
               g == [k \in 0..n |-> IF k = n THEN last ELSE f[k]]
    <3>3. ASSUME NEW k \in 0..n
          PROVE  g[k] = IF k = 0 THEN 0 ELSE 10 * g[k - 1] + Numbers!Digit[t[k]]
      <4>1. CASE k = 0
        BY <2>2, <3>2, <4>1
      <4>2. CASE k # 0
        <5>1. g[k - 1] = f[k - 1]
          <6> HIDE DEF last
          <6> QED
            BY <4>2
        <5>2. g[k] = 10 * f[k - 1] + Numbers!Digit[t[k]]
          <6>1. CASE k = n
            <7>1. g[n] = last
              <8> HIDE DEF last
              <8> QED
                OBVIOUS
            <7> QED
              BY <6>1, <7>1
          <6>2. CASE k # n
            <7>1. g[k] = f[k] /\ k \in 1..(n - 1)
              <8> HIDE DEF last
              <8> QED
                BY <4>2, <6>2
            <7> QED
              BY <3>2, <7>1
          <6> QED
            BY <6>1, <6>2
        <5> HIDE DEF g
        <5> QED
          BY <4>2, <5>1, <5>2
      <4> QED
        BY <4>1, <4>2
    <3>4. g = [k \in 0..n |-> g[k]]
      OBVIOUS
    <3> HIDE DEF g
    <3> QED
      BY <3>3, <3>4 DEF Counts
  <2> QED
    BY <2>1, <2>2
<1>2. \A n \in Nat : (\A m \in Nat : m < n => m \in T) => n \in T
  BY <1>1
<1> HIDE DEF T
<1>3. \A n \in Nat : n \in T
  BY <1>2, Induct
<1> QED
  BY <1>3 DEF T

LEMMA ValueCounts ==
    ASSUME NEW C, NEW t \in Seq(C)
    PROVE  \E f : Counts(t, f, Len(t)) /\ Numbers!Value(t) = f[Len(t)]
<1>1. Len(t) \in Nat
  BY LenProperties
<1>2. \E f : Counts(t, f, Len(t))
  BY <1>1, CountsExists
<1> QED
  BY <1>2 DEF Counts, Numbers!Value

LEMMA CountsOnce ==
    ASSUME NEW C, NEW t \in Seq(C), NEW c \in C, NEW f, NEW g,
           Counts(t, f, Len(t)), Counts(Append(t, c), g, Len(t) + 1)
    PROVE  f[Len(t)] = g[Len(t)]
<1> DEFINE T == {k \in Nat : k <= Len(t) => f[k] = g[k]}
<1>1. /\ Len(t) \in Nat
      /\ \A k \in 1..Len(t) : Append(t, c)[k] = t[k]
  BY LenProperties, AppendProperties
<1>2. /\ f[0] = 0 /\ \A k \in 1..Len(t) : f[k] = 10 * f[k - 1] + Numbers!Digit[t[k]]
      /\ g[0] = 0
      /\ \A k \in 1..(Len(t) + 1) :
           g[k] = 10 * g[k - 1] + Numbers!Digit[Append(t, c)[k]]
  <2>1. Len(t) \in Nat /\ Len(t) + 1 \in Nat
    BY <1>1
  <2>2. CountsOn(t, f, Len(t)) /\ CountsOn(Append(t, c), g, Len(t) + 1)
    BY <2>1, CountsAt
  <2> QED
    BY <2>2 DEF CountsOn
<1>3. ASSUME NEW k \in Nat, \A j \in Nat : j < k => j \in T, k <= Len(t)
      PROVE  f[k] = g[k]
  <2>1. CASE k = 0
    BY <1>2, <2>1
  <2>2. CASE k # 0
    <3>1. k \in 1..Len(t) /\ k \in 1..(Len(t) + 1) /\ f[k - 1] = g[k - 1]
      BY <1>1, <1>3, <2>2
    <3>2. Append(t, c)[k] = t[k]
      BY <1>1, <3>1
    <3>3. /\ f[k] = 10 * f[k - 1] + Numbers!Digit[t[k]]
          /\ g[k] = 10 * g[k - 1] + Numbers!Digit[Append(t, c)[k]]
      BY <1>2, <3>1
    <3> QED
      BY <3>1, <3>2, <3>3
  <2> QED
    BY <2>1, <2>2
<1>4. \A k \in Nat : (\A j \in Nat : j < k => j \in T) => k \in T
  BY <1>3
<1>5. Len(t) \in T
  <2> HIDE DEF T
  <2> QED
    BY <1>1, <1>4, Induct
<1> QED
  BY <1>5

LEMMA ValueEmpty == Numbers!Value(<< >>) = 0
<1>1. PICK f : Counts(<< >>, f, Len(<< >>)) /\ Numbers!Value(<< >>) = f[Len(<< >>)]
  <2>1. << >> \in Seq({})
    OBVIOUS
  <2> QED
    BY <2>1, ValueCounts
<1>2. Len(<< >>) = 0
  OBVIOUS
<1>3. f[0] = 0
  BY <1>1, <1>2, CountsAt DEF CountsOn
<1> QED
  BY <1>1, <1>2, <1>3

LEMMA ValueAppend ==
    ASSUME NEW C, NEW t \in Seq(C), NEW c \in C
    PROVE  Numbers!Value(Append(t, c)) = 10 * Numbers!Value(t) + Numbers!Digit[c]
<1> DEFINE u == Append(t, c)
<1>1. /\ Len(t) \in Nat /\ u \in Seq(C) /\ Len(u) = Len(t) + 1 /\ u[Len(u)] = c
  BY LenProperties, AppendProperties
<1> HIDE DEF u
<1>2. PICK f : Counts(t, f, Len(t)) /\ Numbers!Value(t) = f[Len(t)]
  BY ValueCounts
<1>3. PICK g : Counts(u, g, Len(u)) /\ Numbers!Value(u) = g[Len(u)]
  BY <1>1, ValueCounts
<1>4. f[Len(t)] = g[Len(t)]
  BY <1>1, <1>2, <1>3, CountsOnce DEF u
<1>5. g[Len(u)] = 10 * g[Len(u) - 1] + Numbers!Digit[u[Len(u)]]
  <2>1. Len(u) \in Nat /\ Len(u) \in 1..Len(u)
    BY <1>1
  <2>2. CountsOn(u, g, Len(u))
    BY <1>3, <2>1, CountsAt
  <2> QED
    BY <2>1, <2>2 DEF CountsOn
<1>6. Len(u) - 1 = Len(t)
  BY <1>1
<1> QED
  BY <1>1, <1>2, <1>3, <1>4, <1>5, <1>6 DEF u

Tens(f, n) == f = [k \in 0..n |-> IF k = 0 THEN 1 ELSE 10 * f[k - 1]]

LEMMA TensAt ==
    ASSUME NEW n \in Nat, NEW f, Tens(f, n)
    PROVE  f[0] = 1 /\ \A k \in 1..n : f[k] = 10 * f[k - 1]
<1> DEFINE g == [k \in 0..n |-> IF k = 0 THEN 1 ELSE 10 * f[k - 1]]
<1>1. g[0] = 1 /\ \A k \in 1..n : g[k] = 10 * f[k - 1]
  OBVIOUS
<1>2. f = g
  BY DEF Tens
<1> HIDE DEF g
<1> QED
  BY <1>1, <1>2

LEMMA TensExist == \A n \in Nat : \E f : Tens(f, n)
<1> DEFINE T == {n \in Nat : \E f : Tens(f, n)}
<1>1. ASSUME NEW n \in Nat, \A m \in Nat : m < n => m \in T
      PROVE  \E f : Tens(f, n)
  <2>1. CASE n = 0
    <3> DEFINE g == [k \in 0..n |-> 1]
    <3>1. g = [k \in 0..n |-> IF k = 0 THEN 1 ELSE 10 * g[k - 1]]
      BY <2>1
    <3> QED
      BY <3>1 DEF Tens
  <2>2. CASE n # 0
    <3>1. PICK f : Tens(f, n - 1)
      BY <1>1, <2>2
    <3>2. f[0] = 1 /\ \A k \in 1..(n - 1) : f[k] = 10 * f[k - 1]
      <4>1. n - 1 \in Nat
        BY <2>2
      <4> QED
        BY <3>1, <4>1, TensAt
    <3> DEFINE last == 10 * f[n - 1]
               g == [k \in 0..n |-> IF k = n THEN last ELSE f[k]]
    <3>3. ASSUME NEW k \in 0..n
          PROVE  g[k] = IF k = 0 THEN 1 ELSE 10 * g[k - 1]
      <4>1. CASE k = 0
        BY <2>2, <3>2, <4>1
      <4>2. CASE k # 0
        <5>1. g[k - 1] = f[k - 1] /\ g[n] = last /\ (k # n => g[k] = f[k] /\ k \in 1..(n - 1))
          <6> HIDE DEF last
          <6> QED
            BY <4>2
        <5>2. g[k] = 10 * f[k - 1]
          <6> HIDE DEF g
          <6> QED
            BY <3>2, <5>1
        <5> HIDE DEF g
        <5> QED
          BY <4>2, <5>1, <5>2
      <4> QED
        BY <4>1, <4>2
    <3>4. g = [k \in 0..n |-> g[k]]
      OBVIOUS
    <3> HIDE DEF g
    <3> QED
      BY <3>3, <3>4 DEF Tens
  <2> QED
    BY <2>1, <2>2
<1>2. \A n \in Nat : (\A m \in Nat : m < n => m \in T) => n \in T
  BY <1>1
<1> HIDE DEF T
<1>3. \A n \in Nat : n \in T
  BY <1>2, Induct
<1> QED
  BY <1>3 DEF T

LEMMA TenToTens ==
    ASSUME NEW n \in Nat
    PROVE  \E f : Tens(f, n) /\ Numbers!TenTo(n) = f[n]
BY TensExist DEF Tens, Numbers!TenTo

LEMMA TenToIs ==
    /\ Numbers!TenTo(0) = 1
    /\ \A n \in Nat : Numbers!TenTo(n + 1) = 10 * Numbers!TenTo(n)
<1>1. Numbers!TenTo(0) = 1
  <2>1. PICK f : Tens(f, 0) /\ Numbers!TenTo(0) = f[0]
    BY TenToTens
  <2> QED
    BY <2>1, TensAt
<1>2. ASSUME NEW n \in Nat
      PROVE  Numbers!TenTo(n + 1) = 10 * Numbers!TenTo(n)
  <2>1. PICK f : Tens(f, n) /\ Numbers!TenTo(n) = f[n]
    BY TenToTens
  <2>2. PICK g : Tens(g, n + 1) /\ Numbers!TenTo(n + 1) = g[n + 1]
    BY TenToTens
  <2>3. /\ f[0] = 1 /\ \A k \in 1..n : f[k] = 10 * f[k - 1]
        /\ g[0] = 1 /\ \A k \in 1..(n + 1) : g[k] = 10 * g[k - 1]
    BY <2>1, <2>2, TensAt
  <2> DEFINE T == {k \in Nat : k <= n => f[k] = g[k]}
  <2>4. ASSUME NEW k \in Nat, \A j \in Nat : j < k => j \in T, k <= n
        PROVE  f[k] = g[k]
    <3>1. CASE k = 0
      BY <2>3, <3>1
    <3>2. CASE k # 0
      <4>1. k \in 1..n /\ k \in 1..(n + 1) /\ f[k - 1] = g[k - 1]
        BY <2>4, <3>2
      <4> QED
        BY <2>3, <4>1
    <3> QED
      BY <3>1, <3>2
  <2>5. \A k \in Nat : (\A j \in Nat : j < k => j \in T) => k \in T
    BY <2>4
  <2>6. n \in T
    <3> HIDE DEF T
    <3> QED
      BY <2>5, Induct
  <2>7. g[n + 1] = 10 * g[n]
    <3>1. n + 1 \in 1..(n + 1) /\ (n + 1) - 1 = n
      OBVIOUS
    <3> QED
      BY <2>3, <3>1
  <2> QED
    BY <2>1, <2>2, <2>6, <2>7
<1> QED
  BY <1>1, <1>2

LEMMA TenToType ==
    \A n \in Nat : Numbers!TenTo(n) \in Nat /\ Numbers!TenTo(n) >= 1
<1> DEFINE T == {n \in Nat : Numbers!TenTo(n) \in Nat /\ Numbers!TenTo(n) >= 1}
<1>1. ASSUME NEW n \in Nat, \A m \in Nat : m < n => m \in T
      PROVE  n \in T
  <2>1. CASE n = 0
    BY <2>1, TenToIs
  <2>2. CASE n # 0
    <3>1. n - 1 \in Nat /\ n - 1 < n /\ (n - 1) + 1 = n
      BY <2>2
    <3>2. Numbers!TenTo(n) = 10 * Numbers!TenTo(n - 1)
      BY <3>1, TenToIs
    <3> QED
      BY <1>1, <3>1, <3>2
  <2> QED
    BY <2>1, <2>2
<1>2. \A n \in Nat : (\A m \in Nat : m < n => m \in T) => n \in T
  BY <1>1
<1> HIDE DEF T
<1>3. \A n \in Nat : n \in T
  BY <1>2, Induct
<1> QED
  BY <1>3 DEF T

LEMMA TenToSum ==
    ASSUME NEW m \in Nat
    PROVE  \A n \in Nat : Numbers!TenTo(m + n) = Numbers!TenTo(m) * Numbers!TenTo(n)
<1> DEFINE T == {n \in Nat : Numbers!TenTo(m + n) = Numbers!TenTo(m) * Numbers!TenTo(n)}
<1>1. ASSUME NEW n \in Nat, \A i \in Nat : i < n => i \in T
      PROVE  n \in T
  <2>1. CASE n = 0
    <3>1. m + n = m /\ Numbers!TenTo(n) = 1 /\ Numbers!TenTo(m) \in Nat
      BY <2>1, TenToIs, TenToType
    <3> QED
      BY <3>1
  <2>2. CASE n # 0
    <3>1. /\ n - 1 \in Nat /\ n - 1 < n /\ (n - 1) + 1 = n
          /\ m + (n - 1) \in Nat /\ (m + (n - 1)) + 1 = m + n
      BY <2>2
    <3>2. /\ Numbers!TenTo(n) = 10 * Numbers!TenTo(n - 1)
          /\ Numbers!TenTo(m + n) = 10 * Numbers!TenTo(m + (n - 1))
      BY <3>1, TenToIs
    <3>3. Numbers!TenTo(m + (n - 1)) = Numbers!TenTo(m) * Numbers!TenTo(n - 1)
      BY <1>1, <3>1
    <3>4. Numbers!TenTo(m) \in Nat /\ Numbers!TenTo(n - 1) \in Nat
      BY <3>1, TenToType
    <3>5. \A a, b \in Nat : 10 * (a * b) = a * (10 * b)
      OBVIOUS
    <3> QED
      BY <3>2, <3>3, <3>4, <3>5
  <2> QED
    BY <2>1, <2>2
<1>2. \A n \in Nat : (\A i \in Nat : i < n => i \in T) => n \in T
  BY <1>1
<1> HIDE DEF T
<1>3. \A n \in Nat : n \in T
  BY <1>2, Induct
<1> QED
  BY <1>3 DEF T

(* What two numerals are together, and zeros in front or behind. *)
LEMMA DigitIs ==
    ASSUME Numbers!AmountsAssumption
    PROVE  /\ \A d \in Digits : Numbers!Digit[d] \in 0..9
           /\ Numbers!Digit["0"] = 0
           /\ "0" \in Digits
           /\ \A c \in {".", "-", "+", Numbers!Blank} : c \notin Digits
<1> DEFINE N == Numbers!Numerals
<1>1. Numbers!ToSet(N) = {"0", "1", "2", "3", "4", "5", "6", "7", "8", "9"}
  BY DEF Numbers!ToSet, Numbers!Numerals
<1>2. ASSUME NEW d \in Digits
      PROVE  Numbers!Digit[d] \in 0..9
  <2>1. d \in Numbers!ToSet(N)
    BY DEF Numbers!AmountsAssumption
  <2>2. \E n \in 0..9 : d = N[n + 1]
    BY <1>1, <2>1 DEF Numbers!Numerals
  <2>3. Numbers!Digit[d] = CHOOSE n \in 0..9 : d = N[n + 1]
    BY <2>1 DEF Numbers!Digit
  <2> HIDE DEF N
  <2> QED
    BY <2>2, <2>3
<1>3. Numbers!Digit["0"] = 0
  <2>1. Numbers!Digit["0"] = CHOOSE n \in 0..9 : "0" = N[n + 1]
    BY <1>1 DEF Numbers!Digit
  <2>2. \A n \in 0..9 : "0" = N[n + 1] <=> n = 0
    BY DEF Numbers!Numerals
  <2> HIDE DEF N
  <2> QED
    BY <2>1, <2>2
<1>4. "0" \in Digits /\ \A c \in {".", "-", "+", Numbers!Blank} : c \notin Digits
  BY <1>1 DEF Numbers!AmountsAssumption, Numbers!Blank
<1> QED
  BY <1>2, <1>3, <1>4

LEMMA ValueType ==
    ASSUME Numbers!AmountsAssumption
    PROVE  \A t \in Seq(Digits) : Numbers!Value(t) \in Nat
<1> DEFINE T == {t \in Seq(Digits) : Numbers!Value(t) \in Nat}
<1>1. << >> \in T
  BY ValueEmpty, EmptySeq
<1>2. ASSUME NEW t \in Seq(Digits), NEW c \in Digits, t \in T
      PROVE  Append(t, c) \in T
  <2>1. Numbers!Value(Append(t, c)) = 10 * Numbers!Value(t) + Numbers!Digit[c]
    BY ValueAppend
  <2>2. Append(t, c) \in Seq(Digits) /\ Numbers!Digit[c] \in 0..9
    BY DigitIs, AppendProperties
  <2> QED
    BY <1>2, <2>1, <2>2
<1> HIDE DEF T
<1>3. \A t \in Seq(Digits) : t \in T
  BY <1>1, <1>2, SeqInduct
<1> QED
  BY <1>3 DEF T

LEMMA AppendBehind ==
    ASSUME NEW C, NEW s \in Seq(C), NEW t \in Seq(C), NEW c \in C
    PROVE  s \o Append(t, c) = Append(s \o t, c)
<1>1. <<c>> \in Seq(C) /\ s \o t \in Seq(C)
  BY ConcatProperties
<1>2. Append(t, c) = t \o <<c>> /\ Append(s \o t, c) = (s \o t) \o <<c>>
  BY <1>1, AppendIsConcat
<1>3. (s \o t) \o <<c>> = s \o (t \o <<c>>)
  BY <1>1, ConcatAssociative
<1> QED
  BY <1>2, <1>3

LEMMA ValueConcat ==
    ASSUME Numbers!AmountsAssumption, NEW s \in Seq(Digits)
    PROVE  \A t \in Seq(Digits) :
             Numbers!Value(s \o t) =
               Numbers!Value(s) * Numbers!TenTo(Len(t)) + Numbers!Value(t)
<1> DEFINE OK(t) == Numbers!Value(s \o t) =
                      Numbers!Value(s) * Numbers!TenTo(Len(t)) + Numbers!Value(t)
           T == {t \in Seq(Digits) : OK(t)}
<1>1. << >> \in T
  <2>1. s \o << >> = s /\ Len(<< >>) = 0 /\ << >> \in Seq(Digits)
    BY ConcatEmptySeq, EmptySeq
  <2>2. Numbers!Value(s) \in Nat /\ Numbers!TenTo(0) = 1 /\ Numbers!Value(<< >>) = 0
    BY ValueType, ValueEmpty, TenToIs
  <2>3. OK(<< >>)
    BY <2>1, <2>2
  <2> QED
    BY <2>1, <2>3
<1>2. ASSUME NEW t \in Seq(Digits), NEW c \in Digits, t \in T
      PROVE  Append(t, c) \in T
  <2> DEFINE u == Append(t, c)
             a == Numbers!Value(s)
             b == Numbers!Value(t)
             p == Numbers!TenTo(Len(t))
             d == Numbers!Digit[c]
  <2>1. s \o t \in Seq(Digits) /\ s \o u = Append(s \o t, c)
    BY ConcatProperties, AppendBehind
  <2>2. /\ Numbers!Value(u) = 10 * b + d
        /\ Numbers!Value(s \o u) = 10 * Numbers!Value(s \o t) + d
    BY <2>1, ValueAppend
  <2>3. Len(t) \in Nat /\ Len(u) = Len(t) + 1 /\ u \in Seq(Digits)
    BY LenProperties, AppendProperties
  <2>4. Numbers!TenTo(Len(u)) = 10 * p /\ p \in Nat
    BY <2>3, TenToIs, TenToType
  <2>5. a \in Nat /\ b \in Nat /\ d \in Nat
    BY ValueType, DigitIs
  <2>6. Numbers!Value(s \o t) = a * p + b
    BY <1>2
  <2> HIDE DEF u, a, b, p, d
  <2>7. 10 * (a * p + b) + d = a * (10 * p) + (10 * b + d)
    BY <2>4, <2>5
  <2>8. Numbers!Value(s \o u) = a * Numbers!TenTo(Len(u)) + Numbers!Value(u)
    BY <2>2, <2>4, <2>6, <2>7
  <2> QED
    BY <2>3, <2>8 DEF a, u
<1> HIDE DEF T
<1>3. \A t \in Seq(Digits) : t \in T
  BY <1>1, <1>2, SeqInduct
<1> QED
  BY <1>3 DEF T

LEMMA ZerosAreNothing ==
    ASSUME Numbers!AmountsAssumption
    PROVE  \A t \in Seq({"0"}) : t \in Seq(Digits) /\ Numbers!Value(t) = 0
<1> DEFINE T == {t \in Seq({"0"}) : Numbers!Value(t) = 0}
<1>1. << >> \in T
  BY ValueEmpty, EmptySeq
<1>2. ASSUME NEW t \in Seq({"0"}), NEW c \in {"0"}, t \in T
      PROVE  Append(t, c) \in T
  <2>1. Numbers!Value(Append(t, c)) = 10 * Numbers!Value(t) + Numbers!Digit[c]
    BY ValueAppend
  <2>2. Append(t, c) \in Seq({"0"}) /\ Numbers!Digit[c] = 0
    BY DigitIs, AppendProperties
  <2> QED
    BY <1>2, <2>1, <2>2
<1>3. \A t \in Seq({"0"}) : t \in T
  <2> HIDE DEF T
  <2> QED
    BY <1>1, <1>2, SeqInduct
<1>4. {"0"} \subseteq Digits
  BY DigitIs
<1> QED
  BY <1>3, <1>4, SeqMonotonic

(* The texts on both sides of the first point. *)
WholePart(t) == Numbers!Split(t).whole
FractionPart(t) == Numbers!Split(t).fraction
Point == "."

LEMMA PointsAre ==
    ASSUME NEW C, NEW t \in Seq(C)
    PROVE  /\ Numbers!Points(t) = {k \in 1..Len(t) : t[k] = Point}
           /\ Numbers!Points(t) = {} => WholePart(t) = t /\ FractionPart(t) = << >>
           /\ Numbers!Points(t) # {} =>
                LET p == Least(Numbers!Points(t))
                IN  /\ WholePart(t) = Before(t, p - 1)
                    /\ FractionPart(t) = Behind(t, p)
<1>1. DOMAIN t = 1..Len(t)
  BY LenProperties
<1> QED
  BY <1>1 DEF Numbers!Points, Numbers!Split, WholePart, FractionPart, Point, Least, Before, Behind

LEMMA SidesAre ==
    ASSUME NEW C, NEW t \in Seq(C)
    PROVE  /\ WholePart(t) \in Seq(C) /\ FractionPart(t) \in Seq(C)
           /\ \A k \in 1..Len(WholePart(t)) : WholePart(t)[k] # Point
           /\ \/ WholePart(t) = t /\ FractionPart(t) = << >>
              \/ /\ Len(t) = Len(WholePart(t)) + 1 + Len(FractionPart(t))
                 /\ t[Len(WholePart(t)) + 1] = Point
                 /\ \A k \in 1..Len(WholePart(t)) : WholePart(t)[k] = t[k]
                 /\ \A k \in 1..Len(FractionPart(t)) :
                      FractionPart(t)[k] = t[Len(WholePart(t)) + 1 + k]
<1>1. Len(t) \in Nat
  BY LenProperties
<1>2. CASE Numbers!Points(t) = {}
  <2>1. WholePart(t) = t /\ FractionPart(t) = << >>
    BY <1>2, PointsAre
  <2>2. \A k \in 1..Len(t) : t[k] # Point
    BY <1>2, PointsAre
  <2>3. << >> \in Seq(C)
    BY EmptySeq
  <2> QED
    BY <2>1, <2>2, <2>3
<1>3. CASE Numbers!Points(t) # {}
  <2> DEFINE K == Numbers!Points(t)
             p == Least(K)
             w == Before(t, p - 1)
             f == Behind(t, p)
  <2>1. K = {k \in 1..Len(t) : t[k] = Point}
    BY PointsAre
  <2>2. p \in 1..Len(t) /\ t[p] = Point /\ \A k \in 1..Len(t) : t[k] = Point => p <= k
    <3>1. K \in SUBSET Nat /\ K # {}
      BY <1>3, <2>1
    <3>2. p \in K /\ \A j \in K : p <= j
      <4> HIDE DEF K
      <4> QED
        BY <3>1, LeastOf
    <3> HIDE DEF p
    <3> QED
      BY <2>1, <3>2
  <2>3. WholePart(t) = w /\ FractionPart(t) = f
    BY <1>3, PointsAre
  <2> HIDE DEF p
  <2>4. /\ p - 1 \in Nat /\ p - 1 <= Len(t) /\ p \in Nat /\ p <= Len(t)
    BY <1>1, <2>2
  <2>5. /\ w \in Seq(C) /\ f \in Seq(C) /\ Len(w) = p - 1
        /\ \A k \in 1..(p - 1) : w[k] = t[k]
    BY <2>4, Split
  <2>6. Len(f) = Len(t) - p /\ \A k \in 1..Len(f) : f[k] = t[p + k]
    <3>1. \A i \in (p + 1)..Len(t) : t[i] \in C
      BY <2>4, ElementOfSeq
    <3>2. Len(f) = (IF p + 1 <= Len(t) THEN Len(t) - (p + 1) + 1 ELSE 0)
          /\ \A i \in 1..(Len(t) - (p + 1) + 1) : f[i] = t[(p + 1) + i - 1]
      BY <1>1, <2>4, <3>1, SubSeqProperties DEF Behind
    <3> HIDE DEF f
    <3>3. Len(f) = Len(t) - p
      <4>1. CASE p + 1 <= Len(t)
        <5>1. Len(f) = Len(t) - (p + 1) + 1
          BY <3>2, <4>1
        <5> QED
          BY <1>1, <2>4, <5>1
      <4>2. CASE ~(p + 1 <= Len(t))
        <5>1. Len(f) = 0
          BY <3>2, <4>2
        <5> QED
          BY <1>1, <2>4, <4>2, <5>1
      <4> QED
        BY <4>1, <4>2
    <3>4. Len(t) - (p + 1) + 1 = Len(t) - p
      BY <1>1, <2>4
    <3>5. ASSUME NEW i \in 1..(Len(t) - p) PROVE (p + 1) + i - 1 = p + i
      BY <1>1, <2>4
    <3> QED
      BY <3>2, <3>3, <3>4, <3>5
  <2> HIDE DEF w, f
  <2>7. ASSUME NEW k \in 1..(p - 1) PROVE w[k] # Point
    <3>1. k \in 1..Len(t) /\ k < p
      BY <1>1, <2>4
    <3> QED
      BY <2>2, <2>4, <2>5, <3>1
  <2>8. Len(t) = Len(w) + 1 + Len(f) /\ Len(w) + 1 = p
    BY <1>1, <2>4, <2>5, <2>6
  <2>9. /\ \A k \in 1..Len(w) : w[k] # Point /\ w[k] = t[k]
        /\ \A k \in 1..Len(f) : f[k] = t[Len(w) + 1 + k]
        /\ t[Len(w) + 1] = Point
    BY <2>2, <2>5, <2>6, <2>7, <2>8
  <2> QED
    BY <2>3, <2>5, <2>8, <2>9
<1> QED
  BY <1>2, <1>3

(* A decimal numeral is one whose sides are numerals. *)
LEMMA NumeralIs ==
    ASSUME NEW C, NEW t \in Seq(C)
    PROVE  Numbers!Numeral(t) <=> t \in Seq(Digits)
<1>1. Len(t) \in Nat /\ DOMAIN t = 1..Len(t) /\ t \in [1..Len(t) -> C]
  BY LenProperties
<1>2. ASSUME \A k \in 1..Len(t) : t[k] \in Digits
      PROVE  t \in Seq(Digits)
  <2>1. t \in [1..Len(t) -> Digits]
    BY <1>1, <1>2
  <2> QED
    BY <1>1, <2>1, SeqDef
<1>3. ASSUME t \in Seq(Digits)
      PROVE  \A k \in 1..Len(t) : t[k] \in Digits
  BY <1>3, ElementOfSeq
<1> QED
  BY <1>1, <1>2, <1>3 DEF Numbers!Numeral

LEMMA SidesJoined ==
    ASSUME NEW C, NEW s \in Seq(C), NEW t \in Seq(C)
    PROVE  s \o t \in Seq(Digits) <=> s \in Seq(Digits) /\ t \in Seq(Digits)
<1>1. /\ s \o t \in Seq(C) /\ Len(s) \in Nat /\ Len(t) \in Nat
      /\ Len(s \o t) = Len(s) + Len(t)
      /\ \A i \in 1..(Len(s) + Len(t)) :
           (s \o t)[i] = IF i <= Len(s) THEN s[i] ELSE t[i - Len(s)]
  BY ConcatProperties, LenProperties
<1>2. ASSUME s \o t \in Seq(Digits)
      PROVE  s \in Seq(Digits) /\ t \in Seq(Digits)
  <2>1. \A i \in 1..(Len(s) + Len(t)) : (s \o t)[i] \in Digits
    BY <1>1, <1>2, ElementOfSeq
  <2>2. ASSUME NEW i \in 1..Len(s) PROVE s[i] \in Digits
    <3>1. i \in 1..(Len(s) + Len(t)) /\ i <= Len(s)
      BY <1>1
    <3> QED
      BY <1>1, <2>1, <3>1
  <2>3. ASSUME NEW i \in 1..Len(t) PROVE t[i] \in Digits
    <3>1. /\ Len(s) + i \in 1..(Len(s) + Len(t)) /\ ~(Len(s) + i <= Len(s))
          /\ (Len(s) + i) - Len(s) = i
      BY <1>1
    <3> QED
      BY <1>1, <2>1, <3>1
  <2>4. DOMAIN s = 1..Len(s) /\ DOMAIN t = 1..Len(t)
    BY LenProperties
  <2>5. Numbers!Numeral(s) /\ Numbers!Numeral(t)
    BY <2>2, <2>3, <2>4 DEF Numbers!Numeral
  <2> QED
    BY <2>5, NumeralIs
<1>3. s \in Seq(Digits) /\ t \in Seq(Digits) => s \o t \in Seq(Digits)
  BY ConcatProperties
<1> QED
  BY <1>2, <1>3

LEMMA DecimalIs ==
    ASSUME Numbers!AmountsAssumption, NEW C, NEW t \in Seq(C), t # << >>
    PROVE  Numbers!Decimal(t) <=>
             /\ WholePart(t) \in Seq(Digits) /\ FractionPart(t) \in Seq(Digits)
             /\ WholePart(t) \o FractionPart(t) # << >>
<1> DEFINE w == WholePart(t)
           f == FractionPart(t)
<1>1. /\ w \in Seq(C) /\ f \in Seq(C)
      /\ Len(w) \in Nat /\ Len(f) \in Nat /\ Len(t) \in Nat /\ Len(t) # 0
      /\ DOMAIN w = 1..Len(w) /\ DOMAIN f = 1..Len(f) /\ DOMAIN t = 1..Len(t)
  BY SidesAre, LenProperties, EmptySeq
<1>2. /\ \A k \in 1..Len(w) : w[k] # Point
      /\ \/ w = t /\ f = << >>
         \/ /\ Len(t) = Len(w) + 1 + Len(f)
            /\ t[Len(w) + 1] = Point
            /\ \A k \in 1..Len(w) : w[k] = t[k]
            /\ \A k \in 1..Len(f) : f[k] = t[Len(w) + 1 + k]
  BY SidesAre
<1>12. w # t \/ f # << >> =>
         /\ Len(t) = Len(w) + 1 + Len(f)
         /\ t[Len(w) + 1] = Point
         /\ \A k \in 1..Len(w) : w[k] = t[k]
         /\ \A k \in 1..Len(f) : f[k] = t[Len(w) + 1 + k]
  BY <1>2
<1>11. /\ \A k \in 1..Len(w) : k \in 1..Len(t) /\ w[k] = t[k]
       /\ \A k \in 1..Len(f) :
             Len(w) + 1 + k \in 1..Len(t) /\ f[k] = t[Len(w) + 1 + k]
  <2>1. CASE w = t /\ f = << >>
    <3>1. Len(w) = Len(t) /\ Len(f) = 0
      BY <2>1, EmptySeq
    <3> HIDE DEF w, f
    <3> QED
      BY <2>1, <3>1
  <2>2. CASE ~(w = t /\ f = << >>)
    <3>1. /\ Len(t) = Len(w) + 1 + Len(f)
          /\ \A k \in 1..Len(w) : w[k] = t[k]
          /\ \A k \in 1..Len(f) : f[k] = t[Len(w) + 1 + k]
      BY <1>12, <2>2
    <3> HIDE DEF w, f
    <3>2. /\ \A k \in 1..Len(w) : k \in 1..Len(t)
          /\ \A k \in 1..Len(f) : Len(w) + 1 + k \in 1..Len(t)
      BY <1>1, <3>1
    <3> QED
      BY <3>1, <3>2
  <2> QED
    BY <2>1, <2>2
<1>3. Numbers!Points(f) = {k \in 1..Len(f) : f[k] = Point}
  BY <1>1, PointsAre
<1>4. w \o f = << >> <=> w = << >> /\ f = << >>
  BY <1>1, ConcatEqualIffEmpty
<1>5. Point \notin Digits
  BY DigitIs DEF Point
<1>6. /\ Numbers!Numeral(w) <=> w \in Seq(Digits)
      /\ Numbers!Numeral(f) <=> f \in Seq(Digits)
  BY <1>1, NumeralIs
<1>7. Numbers!Decimal(t) <=>
        /\ t # << >> /\ t # <<Point>>
        /\ \A k \in 1..Len(t) : t[k] \in Digits \union {Point}
        /\ Numbers!Points(f) = {}
  BY <1>1 DEF Numbers!Decimal, Point, FractionPart
<1> HIDE DEF w, f
<1>8. (t = <<Point>>) <=> (Len(t) = 1 /\ t[1] = Point)
  <2>1. ASSUME Len(t) = 1, t[1] = Point PROVE t = <<Point>>
    <3>1. t = [i \in 1..1 |-> t[i]]
      BY <1>1, <2>1
    <3>2. <<Point>> = [i \in 1..1 |-> Point]
      OBVIOUS
    <3> QED
      BY <2>1, <3>1, <3>2
  <2> QED
    BY <2>1
<1>9. ASSUME Numbers!Decimal(t)
      PROVE  w \in Seq(Digits) /\ f \in Seq(Digits) /\ w \o f # << >>
  <2>1. ASSUME NEW k \in 1..Len(w) PROVE w[k] \in Digits
    <3>1. k \in 1..Len(t) /\ w[k] = t[k]
      BY <1>11
    <3> QED
      BY <1>2, <1>7, <1>9, <3>1
  <2>2. ASSUME NEW k \in 1..Len(f) PROVE f[k] \in Digits
    <3>1. Len(w) + 1 + k \in 1..Len(t) /\ f[k] = t[Len(w) + 1 + k]
      BY <1>11
    <3> QED
      BY <1>3, <1>7, <1>9, <3>1
  <2>3. Numbers!Numeral(w) /\ Numbers!Numeral(f)
    BY <1>1, <2>1, <2>2 DEF Numbers!Numeral
  <2>4. ASSUME w = << >>, f = << >> PROVE FALSE
    <3>1. Len(w) = 0 /\ Len(f) = 0
      BY <2>4
    <3>3. w # t
      BY <2>4
    <3>4. Len(t) = Len(w) + 1 + Len(f) /\ t[Len(w) + 1] = Point
      BY <1>12, <3>3
    <3>2. Len(t) = 1 /\ t[1] = Point
      BY <3>1, <3>4
    <3> QED
      BY <1>7, <1>8, <1>9, <3>2
  <2> QED
    BY <1>4, <1>6, <2>3, <2>4
<1>10. ASSUME w \in Seq(Digits), f \in Seq(Digits), w \o f # << >>
       PROVE  Numbers!Decimal(t)
  <2>1. /\ \A k \in 1..Len(w) : w[k] \in Digits
        /\ \A k \in 1..Len(f) : f[k] \in Digits
    BY <1>10, ElementOfSeq
  <2>2. Numbers!Points(f) = {}
    BY <1>3, <1>5, <2>1
  <2>3. ASSUME NEW k \in 1..Len(t) PROVE t[k] \in Digits \union {Point}
    <3>1. CASE w = t
      BY <2>1, <3>1
    <3>2. CASE w # t
      <4>1. CASE k <= Len(w)
        <5>1. k \in 1..Len(w)
          BY <1>1, <4>1
        <5> QED
          BY <1>12, <2>1, <3>2, <5>1
      <4>2. CASE k = Len(w) + 1
        BY <1>12, <3>2, <4>2
      <4>3. CASE k > Len(w) + 1
        <5> DEFINE j == k - (Len(w) + 1)
        <5>1. j \in 1..Len(f) /\ Len(w) + 1 + j = k
          <6>1. Len(t) = Len(w) + 1 + Len(f)
            BY <1>12, <3>2
          <6>2. Len(w) \in Nat /\ Len(f) \in Nat /\ k \in Nat /\ k <= Len(t)
            BY <1>1
          <6> QED
            BY <4>3, <6>1, <6>2
        <5> HIDE DEF j
        <5> QED
          BY <1>12, <2>1, <3>2, <5>1
      <4> QED
        BY <1>1, <4>1, <4>2, <4>3
    <3> QED
      BY <3>1, <3>2
  <2>4. ASSUME t = <<Point>> PROVE FALSE
    <3>1. Len(t) = 1 /\ t[1] = Point
      BY <1>8, <2>4
    <3>2. w # t
      <4>1. ASSUME w = t PROVE FALSE
        <5>1. 1 \in 1..Len(w) /\ w[1] = Point
          BY <3>1, <4>1
        <5> QED
          BY <1>2, <5>1
      <4> QED
        BY <4>1
    <3>3. Len(w) = 0 /\ Len(f) = 0
      BY <1>1, <1>12, <3>1, <3>2
    <3>4. w = << >> /\ f = << >>
      BY <1>1, <3>3, EmptySeq
    <3> QED
      BY <1>4, <1>10, <3>4
  <2> QED
    BY <1>7, <2>2, <2>3, <2>4
<1> QED
  BY <1>9, <1>10 DEF w, f

LEMMA AtLeastOnce ==
    ASSUME NEW a \in Nat, NEW p \in Nat, p >= 1
    PROVE  a * p \in Nat /\ a <= a * p
<1>1. PICK q \in Nat : p = q + 1
  <2>1. p - 1 \in Nat /\ p = (p - 1) + 1
    OBVIOUS
  <2> QED
    BY <2>1
<1>2. a * q \in Nat /\ a * (q + 1) = a * q + a
  OBVIOUS
<1> QED
  BY <1>1, <1>2

LEMMA PaddingIs ==
    ASSUME NEW C, NEW f \in Seq(C), NEW d \in Nat, Len(f) <= d
    PROVE  /\ Numbers!Padding(f, d) \in Seq({"0"})
           /\ Len(Numbers!Padding(f, d)) = d - Len(f)
<1>1. d - Len(f) \in Nat
  BY LenProperties
<1> DEFINE n == d - Len(f)
<1>2. Numbers!Padding(f, d) = [k \in 1..n |-> "0"]
  BY DEF Numbers!Padding
<1> HIDE DEF n
<1>3. [k \in 1..n |-> "0"] \in [1..n -> {"0"}] /\ n \in Nat
  BY <1>1 DEF n
<1>4. [k \in 1..n |-> "0"] \in Seq({"0"}) /\ Len([k \in 1..n |-> "0"]) = n
  BY <1>3, SeqDef
<1> QED
  BY <1>2, <1>4 DEF n

(* Moving the point is the arithmetic of the parser. *)
LEMMA ScaledIs ==
    ASSUME Numbers!AmountsAssumption, NEW w \in Seq(Digits), NEW f \in Seq(Digits),
           NEW d \in Nat, Len(f) <= d
    PROVE  /\ Numbers!Scaled(w, f, d) \in Nat
           /\ Numbers!Value(w \o f \o Numbers!Padding(f, d)) = Numbers!Scaled(w, f, d)
           /\ Numbers!Value(w) \in Nat /\ Numbers!Value(f) \in Nat
           /\ Numbers!Value(w) <= Numbers!Scaled(w, f, d)
           /\ Numbers!Value(f) <= Numbers!Scaled(w, f, d)
<1> DEFINE z == Numbers!Padding(f, d)
           a == Numbers!Value(w)
           b == Numbers!Value(f)
           p == Numbers!TenTo(Len(f))
           q == Numbers!TenTo(d - Len(f))
           r == Numbers!TenTo(d)
<1>1. Len(f) \in Nat /\ d - Len(f) \in Nat /\ Len(f) + (d - Len(f)) = d
  BY LenProperties
<1>2. z \in Seq(Digits) /\ Numbers!Value(z) = 0 /\ Len(z) = d - Len(f)
  BY PaddingIs, ZerosAreNothing
<1>3. w \o f \in Seq(Digits)
  BY ConcatProperties
<1>4. /\ a \in Nat /\ b \in Nat
      /\ p \in Nat /\ q \in Nat /\ r \in Nat /\ q >= 1 /\ r >= 1
  BY <1>1, ValueType, TenToType
<1>5. r = p * q
  BY <1>1, TenToSum
<1>6. Numbers!Value(w \o f) = a * p + b
  BY ValueConcat
<1>7. Numbers!Value((w \o f) \o z) = Numbers!Value(w \o f) * Numbers!TenTo(Len(z)) + 0
  BY <1>2, <1>3, ValueConcat
<1>8. Numbers!TenTo(Len(z)) = q
  BY <1>2
<1>9. Numbers!Scaled(w, f, d) = a * r + b * q
  BY DEF Numbers!Scaled
<1> HIDE DEF z, a, b, p, q, r
<1>10. /\ a * r \in Nat /\ b * q \in Nat /\ a <= a * r /\ b <= b * q
  BY <1>4, AtLeastOnce
<1>11. (a * p + b) * q + 0 = a * (p * q) + b * q
  BY <1>4
<1>12. Numbers!Value((w \o f) \o z) = a * r + b * q
  BY <1>5, <1>6, <1>7, <1>8, <1>11
<1>13. a * r + b * q \in Nat /\ a <= a * r + b * q /\ b <= a * r + b * q
  BY <1>4, <1>10
<1> QED
  BY <1>4, <1>9, <1>12, <1>13 DEF z, a, b

(* What parse_dollar_amount says, by what is asked of it. *)
Fits(t, d) ==
    /\ Numbers!Decimal(t) /\ Len(FractionPart(t)) <= d /\ d <= MaxPlaces
    /\ Numbers!Shifted(t, d) \in 1..Wide

LEMMA DollarsAre ==
    ASSUME Numbers!AmountsAssumption, NEW C, NEW a, NEW d \in Nat,
           Numbers!Trim(a) \in Seq(C)
    PROVE  /\ Fits(Numbers!Trim(a), d) =>
                Numbers!ParseDollarAmount(a, d) =
                  Numbers!Accepted(Numbers!Shifted(Numbers!Trim(a), d))
           /\ ~Fits(Numbers!Trim(a), d) =>
                Numbers!ParseDollarAmount(a, d).said = "refused"
<1> DEFINE t == Numbers!Trim(a)
           w == WholePart(t)
           f == FractionPart(t)
           Said == Numbers!ParseDollarAmount(a, d)
<1>1. Said =
        IF t = << >> THEN Numbers!Refused("Empty")
        ELSE IF Head(t) = "-" THEN Numbers!Refused("ZeroOrNegative")
        ELSE IF w \o f = << >> \/ ~Numbers!Numeral(w \o f)
             THEN Numbers!Refused("InvalidFormat")
        ELSE IF Len(f) > d THEN Numbers!Refused("TooManyDecimals")
        ELSE IF Numbers!Value(w) > Wide \/ Numbers!Value(f) > Wide
             THEN Numbers!Refused("InvalidFormat")
        ELSE IF d > MaxPlaces THEN Numbers!Refused("Overflow")
        ELSE IF Numbers!Scaled(w, f, d) > Wide THEN Numbers!Refused("Overflow")
        ELSE IF Numbers!Scaled(w, f, d) = 0 THEN Numbers!Refused("ZeroOrNegative")
        ELSE Numbers!Accepted(Numbers!Scaled(w, f, d))
  BY DEF Numbers!ParseDollarAmount, WholePart, FractionPart
<1>2. /\ t \in Seq(C) /\ w \in Seq(C) /\ f \in Seq(C) /\ w \o f \in Seq(C)
      /\ Len(f) \in Nat
  BY SidesAre, ConcatProperties, LenProperties
<1>3. Numbers!Decimal(t) => t # << >>
  BY DEF Numbers!Decimal
<1>4. t # << >> =>
        (Numbers!Decimal(t) <=> w \o f # << >> /\ Numbers!Numeral(w \o f))
  BY <1>2, DecimalIs, SidesJoined, NumeralIs
<1>5. Numbers!Decimal(t) => w \in Seq(Digits) /\ f \in Seq(Digits)
  BY <1>2, <1>3, DecimalIs
<1>6. ASSUME Numbers!Decimal(t) PROVE Head(t) # "-"
  <2>1. Len(t) \in Nat /\ Len(t) # 0 /\ DOMAIN t = 1..Len(t) /\ Head(t) = t[1]
    BY <1>2, <1>3, <1>6, LenProperties, EmptySeq, HeadIs
  <2>2. t[1] \in Digits \union {Point}
    BY <1>6, <2>1 DEF Numbers!Decimal, Point
  <2>3. Point # "-" /\ "-" \notin Digits
    BY DigitIs DEF Point
  <2> QED
    BY <2>1, <2>2, <2>3
<1>7. Numbers!Shifted(t, d) = Numbers!Value(w \o f \o Numbers!Padding(f, d))
  BY DEF Numbers!Shifted, WholePart, FractionPart
<1>8. Numbers!Decimal(t) /\ Len(f) <= d =>
        LET n == Numbers!Scaled(w, f, d)
        IN  /\ n \in Nat /\ Numbers!Shifted(t, d) = n
            /\ Numbers!Value(w) \in Nat /\ Numbers!Value(f) \in Nat
            /\ Numbers!Value(w) <= n /\ Numbers!Value(f) <= n
  <2> SUFFICES ASSUME Numbers!Decimal(t), Len(f) <= d
               PROVE  LET n == Numbers!Scaled(w, f, d)
                      IN  /\ n \in Nat /\ Numbers!Shifted(t, d) = n
                          /\ Numbers!Value(w) \in Nat /\ Numbers!Value(f) \in Nat
                          /\ Numbers!Value(w) <= n /\ Numbers!Value(f) <= n
    OBVIOUS
  <2>1. w \in Seq(Digits) /\ f \in Seq(Digits)
    BY <1>5
  <2> HIDE DEF t, w, f
  <2> QED
    BY <1>7, <2>1, ScaledIs
<1>9. Fits(t, d) <=> /\ Numbers!Decimal(t) /\ Len(f) <= d /\ d <= MaxPlaces
                     /\ Numbers!Shifted(t, d) \in 1..Wide
  BY DEF Fits
<1>10. Wide \in Nat /\ MaxPlaces \in Nat
  BY DEF Numbers!AmountsAssumption
<1> HIDE DEF t, w, f, Said
<1>11. ASSUME Fits(t, d)
       PROVE  Said = Numbers!Accepted(Numbers!Shifted(t, d))
  <2>1. /\ t # << >> /\ Head(t) # "-"
        /\ w \o f # << >> /\ Numbers!Numeral(w \o f)
        /\ ~(Len(f) > d) /\ ~(d > MaxPlaces)
    BY <1>2, <1>3, <1>4, <1>6, <1>9, <1>10, <1>11
  <2>2. /\ Numbers!Scaled(w, f, d) = Numbers!Shifted(t, d)
        /\ ~(Numbers!Value(w) > Wide) /\ ~(Numbers!Value(f) > Wide)
        /\ ~(Numbers!Scaled(w, f, d) > Wide) /\ Numbers!Scaled(w, f, d) # 0
    BY <1>8, <1>9, <1>10, <1>11
  <2> QED
    BY <1>1, <2>1, <2>2
<1>12. ASSUME ~Fits(t, d)
       PROVE  Said.said = "refused"
  <2>1. \A why : Numbers!Refused(why).said = "refused"
    BY DEF Numbers!Refused
  <2>2. CASE ~Numbers!Decimal(t)
    BY <1>1, <1>4, <2>1, <2>2
  <2>3. CASE Numbers!Decimal(t) /\ ~(Len(f) <= d)
    <3>1. Len(f) > d
      BY <1>2, <2>3
    <3> QED
      BY <1>1, <2>1, <3>1
  <2>4. CASE Numbers!Decimal(t) /\ Len(f) <= d /\ ~(d <= MaxPlaces)
    <3>1. d > MaxPlaces
      BY <1>10, <2>4
    <3> QED
      BY <1>1, <2>1, <3>1
  <2>5. CASE /\ Numbers!Decimal(t) /\ Len(f) <= d
             /\ ~(Numbers!Shifted(t, d) \in 1..Wide)
    <3>1. Numbers!Scaled(w, f, d) > Wide \/ Numbers!Scaled(w, f, d) = 0
      BY <1>8, <1>10, <2>5
    <3> QED
      BY <1>1, <2>1, <3>1
  <2> QED
    BY <1>9, <1>12, <2>2, <2>3, <2>4, <2>5
<1> QED
  BY <1>11, <1>12 DEF t, Said

(* The zeros in front of a numeral do not count.                           *)
LEMMA StripIs ==
    ASSUME Numbers!AmountsAssumption, NEW C, NEW x \in Seq(C), "0" \in C
    PROVE  LET y == Numbers!StripZeros(x)
           IN  /\ y \in Seq(C) /\ y # << >>
               /\ \A j \in 1..Len(y) :
                    y[j] = "0" \/ \E k \in 1..Len(x) : y[j] = x[k]
               /\ \A k \in 1..Len(x) :
                    x[k] = "0" \/ \E j \in 1..Len(y) : x[k] = y[j]
               /\ x \in Seq(Digits) =>
                    y \in Seq(Digits) /\ Numbers!Value(y) = Numbers!Value(x)
<1> DEFINE y == Numbers!StripZeros(x)
           K == {k \in 1..Len(x) : x[k] # "0"}
           m == Least(K)
<1>1. Len(x) \in Nat /\ DOMAIN x = 1..Len(x)
  BY LenProperties
<1>2. y = IF K = {} THEN <<"0">> ELSE SubSeq(x, m, Len(x))
  BY <1>1 DEF Numbers!StripZeros, Least
<1>3. CASE K = {}
  <2> DEFINE z == <<"0">>
  <2>1. /\ z \in Seq(C) /\ z # << >> /\ z \in Seq({"0"})
        /\ Len(z) = 1 /\ z[1] = "0"
    OBVIOUS
  <2>2. \A k \in 1..Len(x) : x[k] = "0"
    BY <1>3
  <2>3. x \in Seq({"0"})
    <3>1. x \in [1..Len(x) -> {"0"}]
      BY <1>1, <2>2, LenProperties
    <3> QED
      BY <1>1, <3>1, SeqDef
  <2>4. Numbers!Value(x) = 0 /\ Numbers!Value(z) = 0 /\ z \in Seq(Digits)
    BY <2>1, <2>3, ZerosAreNothing
  <2>5. y = z
    BY <1>2, <1>3
  <2> HIDE DEF y, z, K
  <2>6. \A j \in 1..Len(z) : z[j] = "0"
    BY <2>1
  <2> QED
    BY <2>1, <2>2, <2>4, <2>5, <2>6 DEF y
<1>4. CASE K # {}
  <2>1. m \in K /\ \A j \in K : m <= j
    <3>1. K \in SUBSET Nat
      OBVIOUS
    <3> HIDE DEF K
    <3> QED
      BY <1>4, <3>1, LeastOf
  <2>2. m \in 1..Len(x)
    BY <2>1
  <2> HIDE DEF m
  <2>3. \A k \in 1..(m - 1) : x[k] = "0"
    <3>1. ASSUME NEW k \in 1..(m - 1), x[k] # "0" PROVE FALSE
      <4>1. k \in 1..Len(x) /\ k < m
        BY <1>1, <2>2
      <4>2. k \in K
        BY <3>1, <4>1
      <4> HIDE DEF K
      <4> QED
        BY <2>1, <2>2, <4>1, <4>2
    <3> QED
      BY <3>1
  <2>4. m - 1 \in Nat /\ m - 1 <= Len(x) /\ (m - 1) + 1 = m
    BY <1>1, <2>2
  <2> DEFINE b == Before(x, m - 1)
  <2>5. y = Behind(x, m - 1)
    BY <1>2, <1>4, <2>4 DEF Behind
  <2>6. \A D : x \in Seq(D) =>
          /\ b \in Seq(D) /\ y \in Seq(D) /\ Len(b) = m - 1
          /\ \A i \in 1..(m - 1) : b[i] = x[i]
          /\ x = b \o y
    <3> DEFINE n == m - 1
    <3>1. n \in Nat /\ n <= Len(x) /\ y = Behind(x, n)
      BY <2>4, <2>5
    <3> HIDE DEF n, y
    <3>2. \A D : x \in Seq(D) =>
            /\ Before(x, n) \in Seq(D) /\ Behind(x, n) \in Seq(D)
            /\ Len(Before(x, n)) = n
            /\ \A i \in 1..n : Before(x, n)[i] = x[i]
            /\ x = Before(x, n) \o Behind(x, n)
      BY <3>1, Split
    <3> QED
      BY <3>1, <3>2, Zenon DEF n
  <2>7. /\ b \in Seq(C) /\ y \in Seq(C) /\ Len(b) = m - 1
        /\ \A i \in 1..(m - 1) : b[i] = x[i]
        /\ x = b \o y
    BY <2>6
  <2> HIDE DEF b, y
  <2>8. /\ Len(b) \in Nat /\ Len(y) \in Nat /\ Len(x) = Len(b) + Len(y)
        /\ \A i \in 1..(Len(b) + Len(y)) :
             x[i] = IF i <= Len(b) THEN b[i] ELSE y[i - Len(b)]
    BY <2>7, ConcatProperties, LenProperties
  <2>9. y # << >>
    <3>1. Len(y) # 0
      BY <2>2, <2>4, <2>7, <2>8
    <3> QED
      BY <2>7, <3>1, EmptySeq
  <2>10. ASSUME NEW j \in 1..Len(y) PROVE \E k \in 1..Len(x) : y[j] = x[k]
    <3>1. /\ Len(b) + j \in 1..(Len(b) + Len(y)) /\ ~(Len(b) + j <= Len(b))
          /\ (Len(b) + j) - Len(b) = j
      BY <2>8
    <3>2. y[j] = x[Len(b) + j] /\ Len(b) + j \in 1..Len(x)
      BY <2>8, <3>1
    <3> QED
      BY <3>2
  <2>11. ASSUME NEW k \in 1..Len(x)
         PROVE  x[k] = "0" \/ \E j \in 1..Len(y) : x[k] = y[j]
    <3>1. CASE k <= Len(b)
      <4>1. k \in 1..(m - 1)
        BY <2>4, <2>7, <2>8, <3>1
      <4> QED
        BY <2>3, <4>1
    <3>2. CASE ~(k <= Len(b))
      <4>1. k \in 1..(Len(b) + Len(y)) /\ k - Len(b) \in 1..Len(y)
        BY <2>8, <3>2
      <4>2. x[k] = y[k - Len(b)]
        BY <2>8, <3>2, <4>1
      <4> QED
        BY <4>1, <4>2
    <3> QED
      BY <3>1, <3>2
  <2>12. ASSUME x \in Seq(Digits)
         PROVE  y \in Seq(Digits) /\ Numbers!Value(y) = Numbers!Value(x)
    <3>1. b \in Seq(Digits) /\ y \in Seq(Digits)
      BY <2>6, <2>12
    <3>2. Numbers!Value(b) = 0
      <4>1. Len(b) \in Nat /\ DOMAIN b = 1..Len(b)
        BY <2>7, LenProperties
      <4>2. \A i \in 1..Len(b) : b[i] = "0"
        BY <2>3, <2>7
      <4>3. b \in [1..Len(b) -> {"0"}]
        BY <2>7, <4>1, <4>2, LenProperties
      <4>4. b \in Seq({"0"})
        BY <4>1, <4>3, SeqDef
      <4> QED
        BY <4>4, ZerosAreNothing
    <3>3. Numbers!Value(x) = Numbers!Value(b) * Numbers!TenTo(Len(y)) + Numbers!Value(y)
      BY <2>7, <3>1, ValueConcat
    <3>4. Numbers!TenTo(Len(y)) \in Nat /\ Numbers!Value(y) \in Nat
      BY <2>8, <3>1, TenToType, ValueType
    <3> QED
      BY <3>1, <3>2, <3>3, <3>4
  <2> QED
    BY <2>7, <2>9, <2>10, <2>11, <2>12 DEF y
<1> QED
  BY <1>3, <1>4

(* Blanks around an amount.                                                *)
LEMMA TrimIs ==
    ASSUME NEW C, NEW t \in Seq(C)
    PROVE  /\ Numbers!Trim(t) \in Seq(C)
           /\ (\A k \in 1..Len(t) : t[k] # Numbers!Blank) => Numbers!Trim(t) = t
<1> DEFINE K == {k \in 1..Len(t) : t[k] # Numbers!Blank}
           m == Least(K)
           n == Greatest(K)
<1>1. Len(t) \in Nat /\ DOMAIN t = 1..Len(t)
  BY LenProperties
<1>2. Numbers!Trim(t) = IF K = {} THEN << >> ELSE SubSeq(t, m, n)
  BY <1>1 DEF Numbers!Trim, Least, Greatest
<1>3. K \in SUBSET (1..Len(t)) /\ K \in SUBSET Nat
  OBVIOUS
<1>4. CASE K = {}
  <2>1. (\A k \in 1..Len(t) : t[k] # Numbers!Blank) => t = << >>
    <3>1. ASSUME \A k \in 1..Len(t) : t[k] # Numbers!Blank, Len(t) # 0 PROVE FALSE
      <4>1. 1 \in 1..Len(t)
        BY <1>1, <3>1
      <4>2. 1 \in K
        BY <3>1, <4>1
      <4> QED
        BY <1>4, <4>2
    <3> QED
      BY <3>1, EmptySeq
  <2>2. << >> \in Seq(C)
    BY EmptySeq
  <2> QED
    BY <1>2, <1>4, <2>1, <2>2
<1>5. CASE K # {}
  <2>1. /\ m \in K /\ \A j \in K : m <= j
        /\ n \in K /\ \A j \in K : j <= n
    <3> HIDE DEF K
    <3> QED
      BY <1>1, <1>3, <1>5, LeastOf, GreatestIs
  <2>2. m \in 1..Len(t) /\ n \in 1..Len(t)
    BY <2>1
  <2> HIDE DEF m, n
  <2>3. SubSeq(t, m, n) \in Seq(C)
    <3>1. ASSUME NEW i \in m..n PROVE t[i] \in C
      <4>1. i \in 1..Len(t)
        BY <1>1, <2>2
      <4> QED
        BY <4>1, ElementOfSeq
    <3>2. m \in Int /\ n \in Int
      BY <1>1, <2>2
    <3> QED
      BY <3>1, <3>2, SubSeqProperties
  <2>4. ASSUME \A k \in 1..Len(t) : t[k] # Numbers!Blank
        PROVE  SubSeq(t, m, n) = t
    <3>1. 1 \in 1..Len(t) /\ Len(t) \in 1..Len(t)
      BY <1>1, <2>2
    <3>2. 1 \in K /\ Len(t) \in K
      BY <2>4, <3>1
    <3> HIDE DEF K
    <3>4. m <= 1 /\ Len(t) <= n
      BY <2>1, <3>2
    <3>5. m = 1
      BY <2>2, <3>4
    <3>6. n = Len(t)
      <4> DEFINE l == Len(t)
      <4>1. l \in Nat /\ n \in 1..l /\ l <= n
        BY <1>1, <2>2, <3>4
      <4> HIDE DEF l
      <4>2. n = l
        BY <4>1
      <4> QED
        BY <4>2 DEF l
    <3> QED
      BY <3>5, <3>6, SubSeqFull
  <2> QED
    BY <1>2, <1>5, <2>3, <2>4
<1> QED
  BY <1>4, <1>5

(* Reading an integer. *)
LEMMA ReadIs ==
    ASSUME Numbers!AmountsAssumption, NEW C, NEW y \in Seq(C), y # << >>, NEW max
    PROVE  /\ y \in Seq(Digits) =>
                Numbers!ReadInteger(y, max) =
                  IF Numbers!Value(y) <= max THEN Numbers!Accepted(Numbers!Value(y))
                  ELSE Numbers!Refused("InvalidAmount")
           /\ Numbers!ReadInteger(y, max).said = "accepted" /\ y[1] # "+" =>
                y \in Seq(Digits)
<1> DEFINE digits == IF y # << >> /\ Head(y) = "+" THEN Tail(y) ELSE y
<1>1. Numbers!ReadInteger(y, max) =
        IF digits # << >> /\ Numbers!Numeral(digits) /\ Numbers!Value(digits) <= max
        THEN Numbers!Accepted(Numbers!Value(digits)) ELSE Numbers!Refused("InvalidAmount")
  BY DEF Numbers!ReadInteger
<1>2. Head(y) = y[1] /\ Len(y) \in Nat /\ Len(y) # 0
  BY HeadIs, LenProperties, EmptySeq
<1>3. y[1] # "+" => digits = y
  BY <1>2
<1>4. Numbers!Numeral(y) <=> y \in Seq(Digits)
  BY NumeralIs
<1> HIDE DEF digits
<1>5. ASSUME y \in Seq(Digits)
      PROVE  Numbers!ReadInteger(y, max) =
               IF Numbers!Value(y) <= max THEN Numbers!Accepted(Numbers!Value(y))
               ELSE Numbers!Refused("InvalidAmount")
  <2>1. y[1] \in Digits
    <3>1. 1 \in 1..Len(y)
      BY <1>2
    <3> QED
      BY <1>5, <3>1, ElementOfSeq
  <2>2. y[1] # "+"
    BY <2>1, DigitIs
  <2> QED
    BY <1>1, <1>3, <1>4, <1>5, <2>2
<1>6. ASSUME Numbers!ReadInteger(y, max).said = "accepted", y[1] # "+"
      PROVE  y \in Seq(Digits)
  <2>1. Numbers!Refused("InvalidAmount").said # "accepted"
    BY DEF Numbers!Refused
  <2> QED
    BY <1>1, <1>3, <1>4, <1>6, <2>1
<1> QED
  BY <1>5, <1>6

(* What parse_units says. *)
LEMMA UnitsAre ==
    ASSUME Numbers!AmountsAssumption, NEW C, NEW t \in Seq(C), "0" \in C, NEW d \in Nat
    PROVE  LET w == WholePart(t)
               f == FractionPart(t)
               x == w \o f \o Numbers!Padding(f, d)
               u == Numbers!ParseUnits(t, d)
           IN  IF t = << >> \/ Numbers!Points(f) # {} \/ Len(f) > d
               THEN u.said = "refused"
               ELSE /\ u = Numbers!Accepted(Numbers!StripZeros(x))
                    /\ x \in Seq(C) /\ w \o f \in Seq(C)
                    /\ x \in Seq(Digits) <=> w \o f \in Seq(Digits)
                    /\ w \o f = << >> => Numbers!Value(x) = 0
<1> DEFINE w == WholePart(t)
           f == FractionPart(t)
           z == Numbers!Padding(f, d)
           u == Numbers!ParseUnits(t, d)
<1>1. u = IF t = << >> \/ Numbers!Points(f) # {} \/ Len(f) > d
          THEN Numbers!Refused("InvalidAmount")
          ELSE Numbers!Accepted(Numbers!StripZeros(w \o f \o z))
  BY DEF Numbers!ParseUnits, WholePart, FractionPart
<1>2. Numbers!Refused("InvalidAmount").said = "refused"
  BY DEF Numbers!Refused
<1>3. w \in Seq(C) /\ f \in Seq(C) /\ w \o f \in Seq(C) /\ Len(f) \in Nat
  BY SidesAre, ConcatProperties, LenProperties
<1>4. ASSUME ~(Len(f) > d)
      PROVE  /\ (w \o f) \o z \in Seq(C)
             /\ (w \o f) \o z \in Seq(Digits) <=> w \o f \in Seq(Digits)
             /\ w \o f = << >> => Numbers!Value((w \o f) \o z) = 0
  <2>1. Len(f) <= d
    BY <1>3, <1>4
  <2>2. z \in Seq({"0"})
    <3> HIDE DEF f
    <3> QED
      BY <1>3, <2>1, PaddingIs
  <2>3. z \in Seq(Digits) /\ Numbers!Value(z) = 0
    BY <2>2, ZerosAreNothing
  <2>4. z \in Seq(C)
    <3>1. {"0"} \subseteq C
      OBVIOUS
    <3> HIDE DEF z
    <3> QED
      BY <2>2, <3>1, SeqMonotonic
  <2> HIDE DEF w, f, z
  <2>5. (w \o f) \o z \in Seq(C)
    BY <1>3, <2>4, ConcatProperties
  <2>6. (w \o f) \o z \in Seq(Digits) <=> w \o f \in Seq(Digits)
    BY <1>3, <2>3, <2>4, SidesJoined
  <2>7. << >> \o z = z
    BY <2>4, ConcatEmptySeq
  <2>8. w \o f = << >> => Numbers!Value((w \o f) \o z) = 0
    BY <2>3, <2>7
  <2> QED
    BY <2>5, <2>6, <2>8
<1> HIDE DEF w, f, z, u
<1>5. IF t = << >> \/ Numbers!Points(f) # {} \/ Len(f) > d
      THEN u.said = "refused"
      ELSE /\ u = Numbers!Accepted(Numbers!StripZeros((w \o f) \o z))
           /\ (w \o f) \o z \in Seq(C) /\ w \o f \in Seq(C)
           /\ (w \o f) \o z \in Seq(Digits) <=> w \o f \in Seq(Digits)
           /\ w \o f = << >> => Numbers!Value((w \o f) \o z) = 0
  BY <1>1, <1>2, <1>3, <1>4
<1> QED
  BY <1>5 DEF w, f, z, u

-----------------------------------------------------------------------------
Converting ==
    /\ dollars = Numbers!ParseDollarAmount(amount, places)
    /\ units = Numbers!ParseUnits(amount, places)

NumbersInv ==
    /\ amount \in Seq(Signs \union Digits)
    /\ places \in Nat
    /\ Numbers!Converted => Converting

LEMMA NumbersStart ==
    ASSUME Numbers!AmountsAssumption
    PROVE  Numbers!Init => NumbersInv
<1> SUFFICES ASSUME Numbers!Init PROVE NumbersInv
  OBVIOUS
<1>1. PICK n \in 0..Longest : amount \in [1..n -> Signs \union Digits]
  BY DEF Numbers!Init, Numbers!Texts
<1>2. n \in Nat
  BY DEF Numbers!AmountsAssumption
<1>3. amount \in Seq(Signs \union Digits)
  BY <1>1, <1>2, SeqDef
<1>4. places \in Nat /\ ~Numbers!Converted
  BY DEF Numbers!Init, Numbers!AmountsAssumption, Numbers!Converted
<1> QED
  BY <1>3, <1>4 DEF NumbersInv

LEMMA NumbersStep ==
    NumbersInv /\ [Numbers!Next]_(Numbers!vars) => NumbersInv'
BY DEF NumbersInv, Converting, Numbers!Next, Numbers!Convert, Numbers!vars,
       Numbers!Converted

LEMMA Exact ==
    ASSUME Numbers!AmountsAssumption, NumbersInv
    PROVE  /\ Numbers!DollarsAreExact
           /\ Numbers!Converted =>
                (dollars.said = "accepted" <=> Fits(Numbers!Trim(amount), places))
<1>1. Numbers!Trim(amount) \in Seq(Signs \union Digits) /\ places \in Nat
  BY TrimIs DEF NumbersInv
<1> DEFINE t == Numbers!Trim(amount)
<1>2. /\ Fits(t, places) =>
           Numbers!ParseDollarAmount(amount, places) =
             Numbers!Accepted(Numbers!Shifted(t, places))
      /\ ~Fits(t, places) =>
           Numbers!ParseDollarAmount(amount, places).said = "refused"
  BY <1>1, DollarsAre
<1>3. \A n : /\ Numbers!Accepted(n).said = "accepted"
             /\ Numbers!Accepted(n).value = n
  BY DEF Numbers!Accepted
<1>4. ASSUME Numbers!Converted
      PROVE  /\ dollars.said = "accepted" <=> Fits(t, places)
             /\ Fits(t, places) => dollars.value = Numbers!Shifted(t, places)
  <2>1. dollars = Numbers!ParseDollarAmount(amount, places)
    BY <1>4 DEF NumbersInv, Converting
  <2> HIDE DEF t
  <2> QED
    BY <1>2, <1>3, <2>1
<1>5. Fits(t, places) <=> /\ Numbers!Decimal(t)
                          /\ Len(Numbers!Split(t).fraction) <= places
                          /\ places <= MaxPlaces
                          /\ Numbers!Shifted(t, places) \in 1..Wide
  BY DEF Fits, FractionPart
<1>6. Numbers!DollarsAreExact
  BY <1>4, <1>5 DEF Numbers!DollarsAreExact
<1> QED
  BY <1>4, <1>6

LEMMA Agree ==
    ASSUME Numbers!AmountsAssumption, NumbersInv
    PROVE  Numbers!BothAgree
<1> SUFFICES ASSUME Numbers!Converted, dollars.said = "accepted",
                    Numbers!Trim(amount) = amount
             PROVE  /\ Numbers!UnitsRead(Wide) = dollars
                    /\ Numbers!UnitsRead(Narrow) =
                         IF dollars.value <= Narrow THEN dollars
                         ELSE Numbers!Refused("InvalidAmount")
  BY DEF Numbers!BothAgree
<1> DEFINE C == Signs \union Digits
           w == WholePart(amount)
           f == FractionPart(amount)
           x == w \o f \o Numbers!Padding(f, places)
           y == Numbers!StripZeros(x)
<1>1. /\ amount \in Seq(C) /\ places \in Nat /\ "0" \in C
      /\ dollars = Numbers!ParseDollarAmount(amount, places)
      /\ units = Numbers!ParseUnits(amount, places)
  BY DigitIs DEF NumbersInv, Converting
<1>2. /\ Fits(amount, places)
      /\ dollars = Numbers!Accepted(Numbers!Shifted(amount, places))
  <2>1. Fits(amount, places)
    BY Exact
  <2> QED
    BY <1>1, <2>1, DollarsAre
<1>3. Numbers!Shifted(amount, places) = Numbers!Value(x)
  BY DEF Numbers!Shifted, WholePart, FractionPart
<1>4. /\ Numbers!Decimal(amount) /\ Len(f) <= places
      /\ Numbers!Value(x) \in 1..Wide
  BY <1>2, <1>3 DEF Fits
<1>5. amount # << >> /\ Numbers!Points(f) = {}
  BY <1>4 DEF Numbers!Decimal, FractionPart
<1>6. w \in Seq(Digits) /\ f \in Seq(Digits)
  BY <1>1, <1>4, <1>5, DecimalIs
<1>7. /\ units = Numbers!Accepted(y) /\ x \in Seq(C)
      /\ x \in Seq(Digits)
  <2>1. ~(Len(f) > places) /\ w \o f \in Seq(Digits)
    BY <1>1, <1>4, <1>6, ConcatProperties, LenProperties
  <2> HIDE DEF w, f, x, y, C
  <2> QED
    BY <1>1, <1>5, <2>1, UnitsAre DEF w, f, x, y
<1>8. y \in Seq(Digits) /\ y # << >> /\ Numbers!Value(y) = Numbers!Value(x)
  <2> HIDE DEF x, C
  <2> QED
    BY <1>1, <1>7, StripIs
<1>9. \A max : Numbers!UnitsRead(max) = Numbers!ReadInteger(y, max)
  <2>1. units.said # "refused" /\ units.value = y
    BY <1>7 DEF Numbers!Accepted
  <2> QED
    BY <2>1 DEF Numbers!UnitsRead
<1> HIDE DEF x, y
<1>10. \A max : Numbers!ReadInteger(y, max) =
                  IF Numbers!Value(y) <= max THEN Numbers!Accepted(Numbers!Value(y))
                  ELSE Numbers!Refused("InvalidAmount")
  BY <1>8, ReadIs
<1>11. dollars = Numbers!Accepted(Numbers!Value(y)) /\ dollars.value = Numbers!Value(y)
  BY <1>2, <1>3, <1>8 DEF Numbers!Accepted
<1>12. Numbers!Value(y) <= Wide
  BY <1>4, <1>8 DEF Numbers!AmountsAssumption
<1> QED
  BY <1>9, <1>10, <1>11, <1>12

LEMMA NothingElse ==
    ASSUME Numbers!AmountsAssumption, NumbersInv
    PROVE  Numbers!NothingElseIsRead
<1> SUFFICES ASSUME Numbers!Converted, Numbers!UnitsRead(Wide).said = "accepted",
                    places <= MaxPlaces,
                    ~(\E k \in DOMAIN amount : amount[k] = "+"),
                    Numbers!UnitsRead(Wide).value # 0
             PROVE  dollars = Numbers!UnitsRead(Wide)
  BY DEF Numbers!NothingElseIsRead
<1> DEFINE C == (Signs \union Digits) \ {"+"}
           w == WholePart(amount)
           f == FractionPart(amount)
           x == w \o f \o Numbers!Padding(f, places)
           y == Numbers!StripZeros(x)
<1>1. /\ amount \in Seq(C) /\ places \in Nat /\ "0" \in C
      /\ dollars = Numbers!ParseDollarAmount(amount, places)
      /\ units = Numbers!ParseUnits(amount, places)
  <2>1. amount \in Seq(Signs \union Digits)
    BY DEF NumbersInv
  <2>2. Len(amount) \in Nat /\ DOMAIN amount = 1..Len(amount)
    BY <2>1, LenProperties
  <2>3. \A k \in 1..Len(amount) : amount[k] \in C
    BY <2>1, <2>2, ElementOfSeq
  <2>4. amount \in [1..Len(amount) -> C]
    BY <2>1, <2>3, LenProperties
  <2>5. amount \in Seq(C)
    <3> HIDE DEF C
    <3> QED
      BY <2>2, <2>4, SeqDef
  <2>6. "0" \in C
    BY DigitIs
  <2>7. /\ places \in Nat
        /\ dollars = Numbers!ParseDollarAmount(amount, places)
        /\ units = Numbers!ParseUnits(amount, places)
    BY DEF NumbersInv, Converting
  <2> QED
    BY <2>5, <2>6, <2>7
<1>2. units.said # "refused"
  BY DEF Numbers!UnitsRead
<1>3. /\ amount # << >> /\ Numbers!Points(f) = {} /\ ~(Len(f) > places)
      /\ units = Numbers!Accepted(y) /\ x \in Seq(C) /\ w \o f \in Seq(C)
      /\ x \in Seq(Digits) <=> w \o f \in Seq(Digits)
      /\ w \o f = << >> => Numbers!Value(x) = 0
  <2> HIDE DEF w, f, x, y, C
  <2> QED
    BY <1>1, <1>2, UnitsAre DEF w, f, x, y
<1>4. Numbers!UnitsRead(Wide) = Numbers!ReadInteger(y, Wide)
  <2>1. units.said # "refused" /\ units.value = y
    BY <1>3 DEF Numbers!Accepted
  <2> QED
    BY <2>1 DEF Numbers!UnitsRead
<1>5. /\ y \in Seq(C) /\ y # << >>
      /\ \A j \in 1..Len(y) : y[j] = "0" \/ \E k \in 1..Len(x) : y[j] = x[k]
      /\ \A k \in 1..Len(x) : x[k] = "0" \/ \E j \in 1..Len(y) : x[k] = y[j]
      /\ x \in Seq(Digits) =>
           y \in Seq(Digits) /\ Numbers!Value(y) = Numbers!Value(x)
  <2> HIDE DEF x, C
  <2> QED
    BY <1>1, <1>3, StripIs
<1>6. y[1] # "+"
  <2>1. 1 \in 1..Len(y)
    BY <1>5, LenProperties, EmptySeq
  <2>2. y[1] \in C
    <3> HIDE DEF C, y
    <3> QED
      BY <1>5, <2>1, ElementOfSeq
  <2> QED
    BY <2>2
<1>7. y \in Seq(Digits)
  <2> HIDE DEF y, C
  <2> QED
    BY <1>4, <1>5, <1>6, ReadIs
<1>8. x \in Seq(Digits)
  <2> HIDE DEF x, y, C
  <2>1. Len(x) \in Nat
    BY <1>3, LenProperties
  <2>2. \A k \in 1..Len(x) : x[k] \in Digits
    BY <1>5, <1>7, ElementOfSeq, DigitIs
  <2>3. x \in [1..Len(x) -> Digits]
    BY <1>3, <2>2, LenProperties
  <2> QED
    BY <2>1, <2>3, SeqDef
<1>9. Numbers!Value(y) = Numbers!Value(x) /\ Numbers!Value(x) \in Nat
  <2> HIDE DEF x, y, C
  <2> QED
    BY <1>5, <1>8, ValueType
<1>10. Numbers!UnitsRead(Wide) =
         IF Numbers!Value(x) <= Wide THEN Numbers!Accepted(Numbers!Value(x))
         ELSE Numbers!Refused("InvalidAmount")
  <2> HIDE DEF x, y, C
  <2> QED
    BY <1>4, <1>5, <1>7, <1>9, ReadIs
<1>11. /\ Numbers!UnitsRead(Wide) = Numbers!Accepted(Numbers!Value(x))
       /\ Numbers!Value(x) <= Wide /\ Numbers!Value(x) # 0
  <2>1. Numbers!Refused("InvalidAmount").said # "accepted"
    BY DEF Numbers!Refused
  <2>2. Numbers!Accepted(Numbers!Value(x)).value = Numbers!Value(x)
    BY DEF Numbers!Accepted
  <2> HIDE DEF x, y
  <2> QED
    BY <1>10, <2>1, <2>2
<1>12. Numbers!Decimal(amount)
  <2>1. w \o f # << >> /\ w \o f \in Seq(Digits)
    BY <1>3, <1>8, <1>11
  <2>2. w \in Seq(C) /\ f \in Seq(C)
    <3> HIDE DEF C
    <3> QED
      BY <1>1, SidesAre
  <2>3. w \in Seq(Digits) /\ f \in Seq(Digits)
    <3> HIDE DEF w, f, C
    <3> QED
      BY <2>1, <2>2, SidesJoined
  <2> HIDE DEF C
  <2> QED
    BY <1>1, <1>3, <2>1, <2>3, DecimalIs
<1>13. Numbers!Trim(amount) = amount
  <2>1. Len(amount) \in Nat /\ DOMAIN amount = 1..Len(amount)
    BY <1>1, LenProperties
  <2>2. \A k \in 1..Len(amount) : amount[k] \in Digits \union {"."}
    BY <1>12, <2>1 DEF Numbers!Decimal
  <2>3. Numbers!Blank \notin Digits /\ Numbers!Blank # "."
    BY DigitIs DEF Numbers!Blank
  <2>4. \A k \in 1..Len(amount) : amount[k] # Numbers!Blank
    BY <2>2, <2>3
  <2> HIDE DEF C
  <2> QED
    BY <1>1, <2>4, TrimIs
<1>14. Numbers!Shifted(amount, places) = Numbers!Value(x)
  BY DEF Numbers!Shifted, WholePart, FractionPart
<1>15. Fits(amount, places)
  <2>1. Len(f) <= places
    <3>1. Len(f) \in Nat
      BY <1>1, SidesAre, LenProperties
    <3> QED
      BY <1>1, <1>3, <3>1
  <2>2. Numbers!Value(x) \in 1..Wide
    BY <1>9, <1>11 DEF Numbers!AmountsAssumption
  <2> HIDE DEF x
  <2> QED
    BY <1>12, <1>14, <2>1, <2>2 DEF Fits
<1>16. dollars = Numbers!Accepted(Numbers!Value(x))
  <2> HIDE DEF x, C
  <2> QED
    BY <1>1, <1>13, <1>14, <1>15, DollarsAre
<1> QED
  BY <1>11, <1>16

(* parse_dollar_amount accepts exactly the positive decimals that the      *)
(* places and the width can hold, with their exact value; parse_units and  *)
(* the integers read from it say the same of them, and accept nothing else *)
(* but zeros and texts with a plus: for amounts of any length, any number  *)
(* of places and integers of any width.                                    *)
THEOREM AmountsAreConverted ==
    ASSUME Numbers!AmountsAssumption
    PROVE  Numbers!Spec => [](/\ Numbers!DollarsAreExact
                              /\ Numbers!BothAgree
                              /\ Numbers!NothingElseIsRead)
<1>1. Numbers!Init => NumbersInv
  BY NumbersStart
<1>2. NumbersInv /\ [Numbers!Next]_(Numbers!vars) => NumbersInv'
  BY NumbersStep
<1>3. NumbersInv => /\ Numbers!DollarsAreExact
                    /\ Numbers!BothAgree
                    /\ Numbers!NothingElseIsRead
  BY Exact, Agree, NothingElse
<1> QED
  BY <1>1, <1>2, <1>3, PTL DEF Numbers!Spec
=============================================================================
