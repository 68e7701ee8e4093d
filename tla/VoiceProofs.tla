------------------------------ MODULE VoiceProofs ------------------------------
(***************************************************************************)
(* The promises of VoiceCall, for any number of hosts, calls and           *)
(* connections.                                                            *)
(***************************************************************************)
EXTENDS VoiceCallSafety, TLAPS

-----------------------------------------------------------------------------
(* How a step changes one host or one call *)

HostState == HostInfo \cup {NoHost}
CallState == ActiveCall \cup {NoCall}
Phases == {"checked", "marked", "active", "removed", "ended"}

Started(c) == call[c].phase \in Phases

LEMMA StartedCall == ASSUME TypeOK, NEW c \in Calls, Started(c)
                     PROVE  call[c] \in ActiveCall
BY DEF TypeOK, Started, Phases, NoCall

(* A call that moves on, or leaves the map, keeps its host. *)
Moves(c, p) ==
    /\ call' \in [Calls -> CallState]
    /\ call'[c].phase = p
    /\ call'[c].host = call[c].host
    /\ \A d \in Calls \ {c} : call'[d] = call[d]

LEMMA CallMoves ==
    ASSUME TypeOK, NEW c \in Calls, Started(c), NEW p \in Phases, Goto(c, p)
    PROVE  /\ Moves(c, p)
           /\ call'[c].age = call[c].age
           /\ call'[c].condemned = call[c].condemned
<1>1. PICK q \in Phases, h \in Hosts, a \in 0..2, w \in Condemners :
        call[c] = [phase |-> q, host |-> h, age |-> a, condemned |-> w]
  BY StartedCall DEF ActiveCall, Phases
<1>2. [call[c] EXCEPT !.phase = p] =
        [phase |-> p, host |-> h, age |-> a, condemned |-> w]
  BY <1>1
<1>3. call' = [call EXCEPT ![c] =
        [phase |-> p, host |-> h, age |-> a, condemned |-> w]]
  BY <1>2 DEF Goto
<1>4. [phase |-> p, host |-> h, age |-> a, condemned |-> w] \in ActiveCall
  BY DEF ActiveCall, Phases
<1> QED
  BY <1>1, <1>3, <1>4 DEF TypeOK, CallState, Moves

LEMMA CallLeaves ==
    ASSUME TypeOK, NEW c \in Calls, Started(c), NEW p \in Phases, Leave(c, p)
    PROVE  Moves(c, p) /\ call'[c].condemned = "nobody"
<1> DEFINE e == [phase |-> p, host |-> call[c].host, age |-> 0,
                 condemned |-> "nobody"]
<1>1. call[c].host \in Hosts
  BY StartedCall DEF ActiveCall
<1>2. e \in ActiveCall
  BY <1>1 DEF ActiveCall, Phases, Condemners
<1>3. e.phase = p /\ e.host = call[c].host /\ e.condemned = "nobody"
  OBVIOUS
<1>4. call' = [call EXCEPT ![c] = e]
  BY DEF Leave
<1> HIDE DEF e
<1> QED
  BY <1>2, <1>3, <1>4 DEF TypeOK, CallState, Moves

(* Its age and who condemned it change nothing else. *)
Marked(c) == \E a \in 0..2, w \in Condemners :
    call' = [call EXCEPT ![c] = [@ EXCEPT !.age = a, !.condemned = w]]

LEMMA MarkedKeeps ==
    ASSUME TypeOK, NEW c \in Calls, Started(c), Marked(c)
    PROVE  /\ call' \in [Calls -> CallState]
           /\ \A d \in Calls :
                  call'[d].phase = call[d].phase /\ call'[d].host = call[d].host
           /\ \A d \in Calls \ {c} : call'[d] = call[d]
           /\ call'[c] \in ActiveCall
<1>1. PICK a \in 0..2, w \in Condemners :
        call' = [call EXCEPT ![c] = [@ EXCEPT !.age = a, !.condemned = w]]
  BY DEF Marked
<1> DEFINE e == [call[c] EXCEPT !.age = a, !.condemned = w]
<1>2. call[c] \in ActiveCall
  BY StartedCall
<1>3. e \in ActiveCall /\ e.phase = call[c].phase /\ e.host = call[c].host
  BY <1>2 DEF ActiveCall
<1>4. call' = [call EXCEPT ![c] = e]
  BY <1>1
<1> HIDE DEF e
<1> QED
  BY <1>3, <1>4 DEF TypeOK, CallState

(* An entry of a known host, edited. *)
LEMMA KnownHost == ASSUME TypeOK, NEW h \in Hosts, host[h].known
                   PROVE  host[h] \in HostInfo
BY DEF TypeOK, NoHost

LEMMA Edits ==
    ASSUME NEW e \in HostInfo, NEW b \in BOOLEAN
    PROVE  /\ [e EXCEPT !.busy = b] \in HostInfo
           /\ [e EXCEPT !.busy = b].busy = b
           /\ [e EXCEPT !.online = FALSE] \in HostInfo
           /\ [e EXCEPT !.online = FALSE].busy = e.busy
           /\ [e EXCEPT !.quiet = b] \in HostInfo
           /\ [e EXCEPT !.quiet = b].busy = e.busy
           /\ [e EXCEPT !.online = FALSE, !.busy = FALSE] \in HostInfo
           /\ [e EXCEPT !.online = FALSE, !.busy = FALSE].busy = FALSE
BY DEF HostInfo

LEMMA HostBecomes ==
    ASSUME TypeOK, NEW h \in Hosts, NEW e \in HostInfo,
           host' = [host EXCEPT ![h] = e]
    PROVE  /\ host' \in [Hosts -> HostState]
           /\ host'[h].known
           /\ host'[h] = e
           /\ \A g \in Hosts \ {h} : host'[g] = host[g]
<1>1. e.known
  BY DEF HostInfo
<1> QED
  BY <1>1 DEF TypeOK, HostState

LEMMA BusySet ==
    ASSUME TypeOK, NEW h \in Hosts, host[h].known, NEW b \in BOOLEAN, SetBusy(h, b)
    PROVE  /\ host' \in [Hosts -> HostState]
           /\ host'[h].known
           /\ host'[h].busy = b
           /\ \A g \in Hosts \ {h} : host'[g] = host[g]
<1> DEFINE e == [host[h] EXCEPT !.busy = b]
<1>0. host[h] \in HostInfo
  BY KnownHost
<1>1. e \in HostInfo
  BY <1>0, Edits
<1>3. e.busy = b
  BY <1>0 DEF HostInfo
<1>2. host' = [host EXCEPT ![h] = e]
  BY DEF SetBusy
<1> HIDE DEF e
<1> QED
  BY <1>1, <1>2, <1>3, HostBecomes

(* What a host does never makes it busy. *)
LEMMA HostSteps ==
    ASSUME TypeOK, NEW h \in Hosts, HostStep(h)
    PROVE  /\ host' \in [Hosts -> HostState]
           /\ host'[h].known
           /\ host'[h].busy => host[h].known /\ host[h].busy
           /\ \A g \in Hosts \ {h} : host'[g] = host[g]
           /\ call' = call
           /\ socket' = socket
<1>1. CASE GoLive(h)
  <2> DEFINE e == [known |-> TRUE, online |-> TRUE, busy |-> FALSE, quiet |-> FALSE]
  <2>1. e \in HostInfo /\ ~e.busy
    BY DEF HostInfo
  <2>2. host' = [host EXCEPT ![h] = e] /\ call' = call /\ socket' = socket
    BY <1>1 DEF GoLive
  <2> HIDE DEF e
  <2> QED
    BY <2>1, <2>2, HostBecomes
<1>2. CASE GoOffline(h)
  <2> DEFINE e == [host[h] EXCEPT !.online = FALSE]
  <2>1. host[h].known /\ e \in HostInfo /\ e.busy = host[h].busy
    BY <1>2, KnownHost, Edits DEF GoOffline
  <2>2. host' = [host EXCEPT ![h] = e] /\ call' = call /\ socket' = socket
    BY <1>2 DEF GoOffline
  <2> HIDE DEF e
  <2> QED
    BY <2>1, <2>2, HostBecomes
<1>3. ASSUME NEW b \in BOOLEAN, host[h].known,
             host' = [host EXCEPT ![h].quiet = b], call' = call, socket' = socket
      PROVE  /\ host' \in [Hosts -> HostState]
             /\ host'[h].known
             /\ host'[h].busy => host[h].busy
             /\ \A g \in Hosts \ {h} : host'[g] = host[g]
  <2> DEFINE e == [host[h] EXCEPT !.quiet = b]
  <2>1. e \in HostInfo /\ e.busy = host[h].busy
    BY ZenonT(40), <1>3, KnownHost, Edits
  <2>2. host' = [host EXCEPT ![h] = e]
    BY <1>3
  <2> HIDE DEF e
  <2> QED
    BY <2>1, <2>2, HostBecomes
<1>4. CASE SweepHost(h)
  <2> DEFINE e == [host[h] EXCEPT !.online = FALSE, !.busy = FALSE]
  <2>1. e \in HostInfo /\ e.busy = FALSE
    BY <1>4, KnownHost, Edits DEF SweepHost
  <2>2. host' = [host EXCEPT ![h] = e] /\ call' = call /\ socket' = socket
    BY <1>4 DEF SweepHost
  <2> HIDE DEF e
  <2> QED
    BY <2>1, <2>2, HostBecomes
<1>5. CASE Poll(h)
  BY <1>5, <1>3 DEF Poll
<1>6. CASE FallQuiet(h)
  BY <1>6, <1>3 DEF FallQuiet
<1> QED
  BY <1>1, <1>2, <1>4, <1>5, <1>6 DEF HostStep

(* An engaged host takes no calls as long as it is busy or offline; only   *)
(* registering makes it neither.                                           *)
Taken(e) == e.busy \/ ~e.online

LEMMA HostFreed ==
    ASSUME TypeOK, NEW h \in Hosts, HostStep(h), host[h].known, Taken(host[h])
    PROVE  Taken(host'[h]) \/ GoLive(h)
<1>1. host[h] \in HostInfo
  BY KnownHost
<1>2. CASE GoOffline(h)
  <2>1. host'[h] = [host[h] EXCEPT !.online = FALSE]
    BY <1>2 DEF GoOffline, TypeOK
  <2> QED
    BY <1>1, <2>1 DEF HostInfo, Taken
<1>3. CASE Poll(h)
  <2>1. host'[h] = [host[h] EXCEPT !.quiet = FALSE]
    BY <1>3 DEF Poll, TypeOK
  <2> QED
    BY <1>1, <2>1 DEF HostInfo, Taken
<1>4. CASE FallQuiet(h)
  <2>1. host'[h] = [host[h] EXCEPT !.quiet = TRUE]
    BY <1>4 DEF FallQuiet, TypeOK
  <2> QED
    BY <1>1, <2>1 DEF HostInfo, Taken
<1>5. CASE SweepHost(h)
  <2>1. host'[h] = [host[h] EXCEPT !.online = FALSE, !.busy = FALSE]
    BY <1>5 DEF SweepHost, TypeOK
  <2> QED
    BY <1>1, <2>1 DEF HostInfo, Taken
<1> QED
  BY <1>2, <1>3, <1>4, <1>5 DEF HostStep

(* What a call does: begin, move on, be freed, or grow old.                *)
Begins(c) == call[c].phase = "idle" /\ \E h \in Hosts :
    /\ Available(h)
    /\ call' = [call EXCEPT ![c] =
           [phase |-> "checked", host |-> h, age |-> 0, condemned |-> "nobody"]]
    /\ UNCHANGED <<host, socket>>

GoesOn(c) ==
    /\ call[c].phase \in {"marked", "active"}
    /\ Goto(c, "active") \/ Leave(c, "removed")
    /\ UNCHANGED <<host, socket>>

Ages(c) == Started(c) /\ Marked(c) /\ UNCHANGED <<host, socket>>

LEMMA CallSteps ==
    ASSUME TypeOK, NEW c \in Calls, CallStep(c)
    PROVE  Begins(c) \/ StartMark(c) \/ GoesOn(c) \/ FreeHost(c) \/ Ages(c)
<1>1. StartCheck(c) => Begins(c)
  BY DEF StartCheck, Begins
<1>2. StartInsert(c) \/ Hangup(c) \/ Remove(c) => GoesOn(c)
  BY DEF StartInsert, Hangup, Remove, GoesOn, Active
<1>3. Active(c) => Started(c) /\ call[c] \in ActiveCall
  BY StartedCall DEF Active, Started, Phases
<1>4. ASSUME Age(c) PROVE Ages(c)
  <2> DEFINE a == call[c].age + 1
  <2>1. call[c] \in ActiveCall
    BY <1>3, <1>4 DEF Age
  <2>2. a \in 0..2 /\ call[c].condemned \in Condemners
    BY <2>1, <1>4 DEF Age, ActiveCall
  <2>3. [call[c] EXCEPT !.age = a] =
        [call[c] EXCEPT !.age = a, !.condemned = call[c].condemned]
    BY <2>1 DEF ActiveCall
  <2>4. call' = [call EXCEPT ![c] = [@ EXCEPT !.age = a]]
    BY <1>4 DEF Age
  <2> HIDE DEF a
  <2>5. call' = [call EXCEPT ![c] =
        [@ EXCEPT !.age = a, !.condemned = call[c].condemned]]
    BY <2>3, <2>4
  <2> QED
    BY <1>3, <1>4, <2>2, <2>5 DEF Age, Ages, Marked
<1>5. ASSUME Active(c), NEW who \in Condemners, Condemn(c, who),
             UNCHANGED <<host, socket>>
      PROVE  Ages(c)
  <2>1. call[c] \in ActiveCall
    BY <1>3, <1>5
  <2>2. call[c].age \in 0..2
    BY <2>1 DEF ActiveCall
  <2>3. [call[c] EXCEPT !.condemned = who] =
        [call[c] EXCEPT !.age = call[c].age, !.condemned = who]
    BY <2>1 DEF ActiveCall
  <2>4. call' = [call EXCEPT ![c] = [@ EXCEPT !.age = call[c].age, !.condemned = who]]
    BY <1>5, <2>3 DEF Condemn
  <2> QED
    BY <1>3, <1>5, <2>2, <2>4 DEF Ages, Marked
<1>6. PollCondemns(c) \/ PollSpares(c) \/ SweepCondemns(c) => Ages(c)
  BY <1>5 DEF PollCondemns, PollSpares, SweepCondemns, Stale, Condemners
<1> QED
  BY <1>1, <1>2, <1>4, <1>6 DEF CallStep

(* Connections leave hosts and calls alone. *)
LEMMA SocketSteps ==
    ASSUME TypeOK, NEW s \in Sockets, SocketStep(s)
    PROVE  /\ socket' \in [Sockets -> Socket \cup {NoSocket, ClosedSocket}]
           /\ UNCHANGED <<host, call>>
<1>1. ASSUME NEW p \in {"open", "left", "deaf"}, Turn(s, p),
             socket[s].phase \in {"upgrading", "open", "left"}
      PROVE  socket' \in [Sockets -> Socket \cup {NoSocket, ClosedSocket}]
  <2> DEFINE e == [socket[s] EXCEPT !.phase = p]
  <2>1. socket[s] \in Socket
    BY <1>1 DEF TypeOK, NoSocket, ClosedSocket
  <2>2. e \in Socket
    BY <2>1 DEF Socket
  <2>3. socket' = [socket EXCEPT ![s] = e]
    BY <1>1 DEF Turn
  <2> HIDE DEF e
  <2> QED
    BY <2>2, <2>3 DEF TypeOK
<1>2. CASE Upgrade(s)
  <2>1. PICK c \in Calls, role \in Roles : socket' = [socket EXCEPT ![s] =
                [phase |-> "upgrading", call |-> c, role |-> role]]
    BY <1>2 DEF Upgrade, Admitted
  <2>2. [phase |-> "upgrading", call |-> c, role |-> role] \in Socket
    BY DEF Socket
  <2> QED
    BY <1>2, <2>1, <2>2 DEF Upgrade, TypeOK
<1>3. CASE Close(s)
  BY <1>3 DEF Close, TypeOK
<1> QED
  BY <1>1, <1>2, <1>3 DEF SocketStep, UpgradeFails, Subscribe, Disconnect,
     FallBehind, DisconnectDeaf, SendFails, SendersGone, Turn, Close

-----------------------------------------------------------------------------
(* The invariant of every behaviour *)

(* The host of a call was registered once; no host is busy for nothing. *)
HostsKnown == \A c \in Calls : Started(c) => host[call[c].host].known

IInv == TypeOK /\ HostsKnown /\ BusyForAReason

LEMMA InitIInv == Init => IInv
BY DEF Init, IInv, TypeOK, HostsKnown, BusyForAReason, Started, Phases,
       NoHost, NoCall, NoSocket

LEMMA StartedHost == ASSUME IInv, NEW c \in Calls, Started(c)
                     PROVE  call[c].host \in Hosts /\ host[call[c].host].known
BY StartedCall DEF IInv, HostsKnown, ActiveCall

LEMMA HostIInv ==
    ASSUME IInv, NEW h \in Hosts, HostStep(h)
    PROVE  IInv'
<1>1. /\ host' \in [Hosts -> HostState]
      /\ host'[h].known
      /\ host'[h].busy => host[h].known /\ host[h].busy
      /\ \A g \in Hosts \ {h} : host'[g] = host[g]
      /\ call' = call
      /\ socket' = socket
  BY HostSteps DEF IInv
<1>2. TypeOK'
  BY <1>1 DEF IInv, TypeOK, HostState
<1>3. HostsKnown'
  <2> SUFFICES ASSUME NEW c \in Calls, Started(c)'
               PROVE  host'[call'[c].host].known
    BY DEF HostsKnown
  <2>1. Started(c) /\ call'[c] = call[c]
    BY <1>1 DEF Started
  <2> QED
    BY <1>1, <2>1, StartedHost
<1>4. BusyForAReason'
  BY <1>1 DEF IInv, BusyForAReason, Engaged
<1> QED
  BY <1>2, <1>3, <1>4 DEF IInv

LEMMA BeginsIInv ==
    ASSUME IInv, NEW c \in Calls, Begins(c)
    PROVE  IInv'
<1>1. PICK h \in Hosts :
        /\ Available(h)
        /\ call' = [call EXCEPT ![c] =
               [phase |-> "checked", host |-> h, age |-> 0, condemned |-> "nobody"]]
        /\ UNCHANGED <<host, socket>>
  BY DEF Begins
<1>2. [phase |-> "checked", host |-> h, age |-> 0, condemned |-> "nobody"]
        \in ActiveCall
  BY DEF ActiveCall, Condemners
<1>3. /\ call'[c].host = h
      /\ \A d \in Calls \ {c} : call'[d] = call[d]
  BY <1>1 DEF IInv, TypeOK
<1>4. TypeOK'
  BY <1>1, <1>2 DEF IInv, TypeOK
<1>5. HostsKnown'
  <2> SUFFICES ASSUME NEW d \in Calls, Started(d)'
               PROVE  host'[call'[d].host].known
    BY DEF HostsKnown
  <2>1. CASE d = c
    BY <1>1, <1>3, <2>1 DEF Available
  <2>2. CASE d # c
    BY <1>1, <1>3, <2>2, StartedHost DEF Started
  <2> QED
    BY <2>1, <2>2
<1>6. BusyForAReason'
  <2>1. call[c].phase = "idle"
    BY DEF Begins
  <2>2. \A g \in Hosts : Engaged(g) => Engaged(g)'
    BY <1>3, <2>1 DEF Engaged
  <2> QED
    BY <1>1, <2>2 DEF IInv, BusyForAReason
<1> QED
  BY <1>4, <1>5, <1>6 DEF IInv

(* A call that moves on, with or without a word to its host. *)
LEMMA MovesIInv ==
    ASSUME IInv, NEW c \in Calls, Started(c), NEW p \in Phases, Moves(c, p),
           UNCHANGED socket,
           \/ /\ UNCHANGED host
              /\ call[c].phase \in {"marked", "active", "removed"}
                   => p \in {"marked", "active", "removed"}
           \/ p = "marked" /\ SetBusy(call[c].host, TRUE)
           \/ p = "ended" /\ SetBusy(call[c].host, FALSE)
    PROVE  IInv'
<1> DEFINE h == call[c].host
<1>1. /\ call' \in [Calls -> CallState]
      /\ call'[c].phase = p
      /\ call'[c].host = h
      /\ \A d \in Calls \ {c} : call'[d] = call[d]
  BY DEF Moves
<1>2. h \in Hosts /\ host[h].known
  BY StartedHost
<1>3. /\ host' \in [Hosts -> HostState]
      /\ host'[h].known
      /\ \A g \in Hosts \ {h} : host'[g] = host[g]
  <2>1. CASE UNCHANGED host
    BY <1>2, <2>1 DEF IInv, TypeOK, HostState
  <2>2. CASE SetBusy(h, TRUE)
    BY <1>2, <2>2, BusySet DEF IInv
  <2>3. CASE SetBusy(h, FALSE)
    BY <1>2, <2>3, BusySet DEF IInv
  <2> QED
    BY <2>1, <2>2, <2>3
<1>4. host'[h].busy =>
        p \in {"marked", "active", "removed"} \/ UNCHANGED host
  BY <1>2, BusySet DEF IInv
<1>5. TypeOK'
  BY <1>1, <1>3 DEF IInv, TypeOK, HostState, CallState
<1>6. HostsKnown'
  <2> SUFFICES ASSUME NEW d \in Calls, Started(d)'
               PROVE  host'[call'[d].host].known
    BY DEF HostsKnown
  <2>1. CASE d = c
    BY <1>1, <1>3, <2>1
  <2>2. CASE d # c
    BY <1>1, <1>3, <2>2, StartedHost DEF Started
  <2> QED
    BY <2>1, <2>2
<1>7. BusyForAReason'
  <2> SUFFICES ASSUME NEW g \in Hosts, host'[g].known, host'[g].busy
               PROVE  Engaged(g)'
    BY DEF BusyForAReason
  <2>1. CASE g = h /\ p \in {"marked", "active", "removed"}
    BY <1>1, <2>1 DEF Engaged
  <2>2. CASE g # h
    <3>1. Engaged(g)
      BY <1>3, <2>2 DEF IInv, BusyForAReason
    <3> QED
      BY <1>1, <2>2, <3>1 DEF Engaged
  <2>3. CASE g = h /\ p \notin {"marked", "active", "removed"}
    <3>1. UNCHANGED host
      BY <1>4, <2>3
    <3>2. Engaged(g)
      BY <3>1, <2>3 DEF IInv, BusyForAReason
    <3>3. p # "ended" \/ ~SetBusy(h, FALSE)
      <4>1. SetBusy(h, FALSE) => ~host'[h].busy
        BY <1>2, BusySet DEF IInv
      <4> QED
        BY <4>1, <2>3
    <3>4. call[c].phase \notin {"marked", "active", "removed"}
      BY <2>3, <3>3
    <3> QED
      BY <1>1, <3>2, <3>4 DEF Engaged
  <2> QED
    BY <2>1, <2>2, <2>3
<1> QED
  BY <1>5, <1>6, <1>7 DEF IInv

LEMMA AgesIInv ==
    ASSUME IInv, NEW c \in Calls, Ages(c)
    PROVE  IInv'
<1>1. /\ call' \in [Calls -> CallState]
      /\ \A d \in Calls :
             call'[d].phase = call[d].phase /\ call'[d].host = call[d].host
      /\ UNCHANGED <<host, socket>>
  BY MarkedKeeps DEF Ages, IInv
<1>2. TypeOK'
  BY <1>1 DEF IInv, TypeOK, CallState
<1>3. HostsKnown'
  BY <1>1 DEF IInv, HostsKnown, Started
<1>4. BusyForAReason'
  BY <1>1 DEF IInv, BusyForAReason, Engaged
<1> QED
  BY <1>2, <1>3, <1>4 DEF IInv

LEMMA CallIInv ==
    ASSUME IInv, NEW c \in Calls, CallStep(c)
    PROVE  IInv'
<1>1. CASE Begins(c)
  BY <1>1, BeginsIInv
<1>2. CASE StartMark(c)
  <2>1. Started(c) /\ Moves(c, "marked")
    BY <1>2, CallMoves DEF StartMark, Started, Phases, IInv
  <2> QED
    BY <1>2, <2>1, MovesIInv DEF StartMark, Phases
<1>3. CASE GoesOn(c)
  <2>1. Started(c) /\ (Moves(c, "active") \/ Moves(c, "removed"))
    BY <1>3, CallMoves, CallLeaves DEF GoesOn, Started, Phases, IInv
  <2> QED
    BY <1>3, <2>1, MovesIInv DEF GoesOn, Phases
<1>4. CASE FreeHost(c)
  <2>1. Started(c) /\ Moves(c, "ended")
    BY <1>4, CallMoves DEF FreeHost, Started, Phases, IInv
  <2> QED
    BY <1>4, <2>1, MovesIInv DEF FreeHost, Phases
<1>5. CASE Ages(c)
  BY <1>5, AgesIInv
<1> QED
  BY <1>1, <1>2, <1>3, <1>4, <1>5, CallSteps DEF IInv

LEMMA SocketIInv ==
    ASSUME IInv, NEW s \in Sockets, SocketStep(s)
    PROVE  IInv'
<1>1. /\ socket' \in [Sockets -> Socket \cup {NoSocket, ClosedSocket}]
      /\ UNCHANGED <<host, call>>
  BY SocketSteps DEF IInv
<1> QED
  BY <1>1 DEF IInv, TypeOK, HostsKnown, Started, BusyForAReason, Engaged

LEMMA NextIInv == IInv /\ [Next]_vars => IInv'
<1> SUFFICES ASSUME IInv, [Next]_vars PROVE IInv'
  OBVIOUS
<1>1. CASE UNCHANGED vars
  BY <1>1 DEF vars, IInv, TypeOK, HostsKnown, Started, BusyForAReason, Engaged
<1>2. CASE Next
  BY <1>2, HostIInv, CallIInv, SocketIInv DEF Next
<1> QED
  BY <1>1, <1>2

LEMMA Invariance == Spec => []IInv
BY InitIInv, NextIInv, PTL DEF Spec

(* Hosts, calls and connections are of their types, whatever overlaps. *)
THEOREM TypeCorrect == Spec => []TypeOK
<1>1. IInv => TypeOK
  BY DEF IInv
<1> QED
  BY <1>1, Invariance, PTL

(* No host stays busy for nothing: the handlers that hang up, poll and     *)
(* sweep free the host of every call they remove, and no other one.        *)
THEOREM NobodyIsStuck == Spec => []BusyForAReason
<1>1. IInv => BusyForAReason
  BY DEF IInv
<1> QED
  BY <1>1, Invariance, PTL

-----------------------------------------------------------------------------
(* One call for each host *)

(* Where callers take turns and a host does not register during a call, it *)
(* has one call from the moment it is looked at to the moment it is freed, *)
(* and from the mark on it is busy, or it was swept and is offline.        *)
Occupies(c) == call[c].phase \in {"checked", "marked", "active", "removed"}

OneOccupies == \A c, d \in Calls :
    Occupies(c) /\ Occupies(d) /\ call[c].host = call[d].host => c = d

EngagedIsTaken == \A h \in Hosts : Engaged(h) => Taken(host[h])

OneInv == IInv /\ OneOccupies /\ EngagedIsTaken

Orderly == TakesTurns' /\ RegistersFree

LEMMA InitOne == Init => OneInv
<1> SUFFICES ASSUME Init PROVE OneInv
  OBVIOUS
<1>1. \A c \in Calls : call[c].phase = "idle"
  BY DEF Init, NoCall
<1> QED
  BY <1>1, InitIInv DEF OneInv, OneOccupies, Occupies, EngagedIsTaken, Engaged

(* Steps that leave the flag of engaged hosts, and phases, alone. *)
LEMMA KeepsOne ==
    ASSUME OneInv,
           \A c \in Calls :
               call'[c].phase = call[c].phase /\ call'[c].host = call[c].host,
           \A h \in Hosts : Engaged(h) => Taken(host'[h])
    PROVE  OneOccupies' /\ EngagedIsTaken'
BY DEF OneInv, OneOccupies, Occupies, EngagedIsTaken, Engaged

LEMMA HostOne ==
    ASSUME OneInv, NEW h \in Hosts, HostStep(h), Orderly
    PROVE  OneOccupies' /\ EngagedIsTaken'
<1>1. /\ \A g \in Hosts \ {h} : host'[g] = host[g]
      /\ call' = call
  BY HostSteps DEF OneInv, IInv
<1>2. ASSUME Engaged(h) PROVE Taken(host'[h])
  <2>1. host[h].known /\ Taken(host[h])
    BY <1>2, StartedHost DEF OneInv, EngagedIsTaken, Engaged, Started, Phases
  <2>2. ~GoLive(h)
    BY <1>2 DEF Orderly, RegistersFree
  <2> QED
    BY <2>1, <2>2, HostFreed DEF OneInv, IInv
<1>3. \A g \in Hosts : Engaged(g) => Taken(host'[g])
  BY <1>1, <1>2 DEF OneInv, EngagedIsTaken
<1> QED
  BY <1>1, <1>3, KeepsOne

LEMMA BeginsOne ==
    ASSUME OneInv, NEW c \in Calls, Begins(c), Orderly
    PROVE  OneOccupies' /\ EngagedIsTaken'
<1>1. PICK h \in Hosts :
        /\ Available(h)
        /\ call' = [call EXCEPT ![c] =
               [phase |-> "checked", host |-> h, age |-> 0, condemned |-> "nobody"]]
        /\ UNCHANGED <<host, socket>>
  BY DEF Begins
<1>2. /\ call'[c].phase = "checked"
      /\ call'[c].host = h
      /\ \A d \in Calls \ {c} : call'[d] = call[d]
  BY <1>1 DEF OneInv, IInv, TypeOK
<1>3. ~Engaged(h)
  BY <1>1 DEF Available, OneInv, EngagedIsTaken, Taken
<1>4. \A d \in Calls \ {c} : Occupies(d) => call[d].host # h
  <2> SUFFICES ASSUME NEW d \in Calls \ {c}, Occupies(d), call[d].host = h
               PROVE  FALSE
    OBVIOUS
  <2>1. call[d].phase = "checked"
    BY <1>3 DEF Occupies, Engaged
  <2> QED
    BY <1>2, <2>1 DEF Orderly, TakesTurns
<1>5. OneOccupies'
  BY <1>2, <1>4 DEF OneInv, OneOccupies, Occupies
<1>6. EngagedIsTaken'
  BY <1>1, <1>2 DEF OneInv, EngagedIsTaken, Engaged
<1> QED
  BY <1>5, <1>6

LEMMA MovesOne ==
    ASSUME OneInv, NEW c \in Calls, Occupies(c), NEW p \in Phases, Moves(c, p),
           \/ UNCHANGED host /\ p # "ended" /\ call[c].phase # "checked"
           \/ p = "marked" /\ SetBusy(call[c].host, TRUE)
           \/ p = "ended" /\ SetBusy(call[c].host, FALSE)
    PROVE  OneOccupies' /\ EngagedIsTaken'
<1>1. Started(c)
  BY DEF Occupies, Started, Phases
<1>3. PICK h \in Hosts : h = call[c].host /\ host[h].known
  BY <1>1, StartedHost DEF OneInv
<1>2. /\ call'[c].phase = p
      /\ call'[c].host = h
      /\ \A d \in Calls \ {c} : call'[d] = call[d]
  BY <1>3 DEF Moves
<1>4. OneOccupies'
  BY <1>2, <1>3 DEF OneInv, OneOccupies, Occupies
<1>5. \A g \in Hosts \ {h} : host'[g] = host[g]
  BY <1>3, BusySet DEF OneInv, IInv
<1>6. \A g \in Hosts \ {h} : Engaged(g)' => Taken(host'[g])
  BY <1>2, <1>5 DEF OneInv, EngagedIsTaken, Engaged
<1>7. Engaged(h)' => Taken(host'[h])
  <2>1. CASE UNCHANGED host /\ p # "ended" /\ call[c].phase # "checked"
    BY <2>1, <1>3 DEF OneInv, EngagedIsTaken, Engaged, Occupies
  <2>2. CASE p = "marked" /\ SetBusy(h, TRUE)
    BY <2>2, <1>3, BusySet DEF OneInv, IInv, Taken
  <2>3. CASE p = "ended"
    <3>1. \A d \in Calls \ {c} : Occupies(d) => call[d].host # h
      BY <1>3 DEF OneInv, OneOccupies
    <3> QED
      BY <1>2, <2>3, <3>1 DEF Engaged, Occupies
  <2> QED
    BY <1>3, <2>1, <2>2, <2>3
<1>8. \A g \in Hosts : Engaged(g)' => Taken(host'[g])
  BY <1>6, <1>7
<1> QED
  BY <1>4, <1>8 DEF EngagedIsTaken

LEMMA CallOne ==
    ASSUME OneInv, NEW c \in Calls, CallStep(c), Orderly
    PROVE  OneOccupies' /\ EngagedIsTaken'
<1>1. CASE Begins(c)
  BY <1>1, BeginsOne
<1>2. CASE StartMark(c)
  <2>1. Occupies(c) /\ Moves(c, "marked")
    BY <1>2, CallMoves
       DEF StartMark, Occupies, Started, Phases, OneInv, IInv
  <2> QED
    BY <1>2, <2>1, MovesOne DEF StartMark, Phases
<1>3. CASE GoesOn(c)
  <2>1. Occupies(c) /\ (Moves(c, "active") \/ Moves(c, "removed"))
    BY <1>3, CallMoves, CallLeaves
       DEF GoesOn, Occupies, Started, Phases, OneInv, IInv
  <2> QED
    BY <1>3, <2>1, MovesOne DEF GoesOn, Phases
<1>4. CASE FreeHost(c)
  <2>1. Occupies(c) /\ Moves(c, "ended")
    BY <1>4, CallMoves
       DEF FreeHost, Occupies, Started, Phases, OneInv, IInv
  <2> QED
    BY <1>4, <2>1, MovesOne DEF FreeHost, Phases
<1>5. CASE Ages(c)
  <2>1. /\ \A d \in Calls :
               call'[d].phase = call[d].phase /\ call'[d].host = call[d].host
        /\ host' = host
    BY <1>5, MarkedKeeps DEF Ages, OneInv, IInv
  <2>2. \A h \in Hosts : Engaged(h) => Taken(host'[h])
    BY <2>1 DEF OneInv, EngagedIsTaken
  <2> QED
    BY <2>1, <2>2, KeepsOne
<1> QED
  BY <1>1, <1>2, <1>3, <1>4, <1>5, CallSteps DEF OneInv, IInv

LEMMA NextOne == OneInv /\ [Next /\ Orderly]_vars => OneInv'
<1> SUFFICES ASSUME OneInv, [Next /\ Orderly]_vars PROVE OneInv'
  OBVIOUS
<1>1. IInv'
  BY NextIInv DEF OneInv
<1>2. CASE UNCHANGED vars
  <2>1. \A h \in Hosts : Engaged(h) => Taken(host'[h])
    BY <1>2 DEF vars, OneInv, EngagedIsTaken
  <2>2. OneOccupies' /\ EngagedIsTaken'
    BY <1>2, <2>1, KeepsOne DEF vars
  <2> QED
    BY <1>1, <2>2 DEF OneInv
<1>3. CASE Next /\ Orderly
  <2>1. OneOccupies' /\ EngagedIsTaken'
    <3>1. ASSUME NEW s \in Sockets, SocketStep(s)
          PROVE  OneOccupies' /\ EngagedIsTaken'
      <4>1. UNCHANGED <<host, call>>
        BY <3>1, SocketSteps DEF OneInv, IInv
      <4>2. \A h \in Hosts : Engaged(h) => Taken(host'[h])
        BY <4>1 DEF OneInv, EngagedIsTaken
      <4> QED
        BY <4>1, <4>2, KeepsOne
    <3> QED
      BY <1>3, <3>1, HostOne, CallOne DEF Next
  <2> QED
    BY <1>1, <2>1 DEF OneInv
<1> QED
  BY <1>2, <1>3

(* A host has one call at a time, where callers take turns and hosts do   *)
(* not register during their calls.                                        *)
THEOREM OneCallForEach == DeployedSpec => []OneCallEach
<1> DEFINE Premised == {"takes turns", "registers free"} \subseteq premises
           PInv == Premised => OneInv
<1>1. DeployedInit => PInv
  BY InitOne DEF DeployedInit
<1>2. PInv /\ [DeployedNext]_DeployedVars => PInv'
  <2> SUFFICES ASSUME PInv, [DeployedNext]_DeployedVars, Premised'
               PROVE  OneInv'
    OBVIOUS
  <2>1. Premised /\ OneInv
    BY DEF DeployedNext, DeployedVars, Rest
  <2>2. [Next /\ Orderly]_vars
    BY <2>1 DEF DeployedNext, DeployedVars, Rest, Observed, Orderly
  <2> QED
    BY <2>1, <2>2, NextOne
<1>3. PInv => OneCallEach
  BY DEF OneInv, OneOccupies, Occupies, OneCallEach, Active
<1> QED
  BY <1>1, <1>2, <1>3, PTL DEF DeployedSpec

-----------------------------------------------------------------------------
(* Calls that are condemned *)

(* A condemned call was old, and nobody was subscribed to it, when it was  *)
(* collected.  Whoever subscribed since came late.                         *)
OnlyLate(c) ==
    /\ Active(c)
    /\ call[c].age # 0
    /\ SocketsOf(c, {"open"}) \subseteq late

CondemnedOnlyLate == \A c \in Calls :
    Started(c) /\ call[c].condemned # "nobody" => OnlyLate(c)

LateInv == IInv /\ CondemnedOnlyLate

LEMMA InitLate == Init /\ late = {} => LateInv
<1> SUFFICES ASSUME Init, late = {} PROVE LateInv
  OBVIOUS
<1>1. \A c \in Calls : ~Started(c)
  BY DEF Init, NoCall, Started, Phases
<1> QED
  BY <1>1, InitIInv DEF LateInv, CondemnedOnlyLate

(* Where no connection moves, whoever was late stays so. *)
LEMMA LateStays ==
    ASSUME Noted, UNCHANGED socket, TypeOK
    PROVE  \A s \in Sockets : s \in late /\ socket[s].phase = "open" => s \in late'
BY DEF Noted

LEMMA OthersLate ==
    ASSUME LateInv, NEW c \in Calls, UNCHANGED socket, Noted,
           \A d \in Calls \ {c} : call'[d] = call[d],
           Started(c)' /\ call'[c].condemned # "nobody" =>
               /\ Active(c)' /\ call'[c].age # 0
               /\ SocketsOf(c, {"open"}) \subseteq late
    PROVE  CondemnedOnlyLate'
<1> SUFFICES ASSUME NEW d \in Calls, Started(d)', call'[d].condemned # "nobody"
             PROVE  OnlyLate(d)'
  BY DEF CondemnedOnlyLate
<1>1. /\ Active(d)' /\ call'[d].age # 0
      /\ SocketsOf(d, {"open"}) \subseteq late
  <2>1. CASE d = c
    BY <2>1
  <2>2. CASE d # c
    BY <2>2 DEF LateInv, CondemnedOnlyLate, OnlyLate, Started, Active
  <2> QED
    BY <2>1, <2>2
<1>2. SocketsOf(d, {"open"})' \subseteq late'
  BY <1>1, LateStays DEF SocketsOf, LateInv, IInv
<1> QED
  BY <1>1, <1>2 DEF OnlyLate

LEMMA AgesLate ==
    ASSUME LateInv, NEW c \in Calls, Noted,
           Age(c) \/ PollCondemns(c) \/ PollSpares(c) \/ SweepCondemns(c)
    PROVE  CondemnedOnlyLate'
<1>1. Active(c) /\ Started(c)
  BY DEF Age, PollCondemns, PollSpares, SweepCondemns, Stale, Active, Started,
         Phases
<1>2. /\ call[c] \in ActiveCall
      /\ call \in [Calls -> CallState]
      /\ UNCHANGED socket
  BY <1>1, StartedCall DEF LateInv, IInv, TypeOK, CallState,
         Age, PollCondemns, PollSpares, SweepCondemns
<1>3. CASE Age(c)
  <2> DEFINE e == [call[c] EXCEPT !.age = @ + 1]
  <2>1. /\ e.age # 0
        /\ e.phase = call[c].phase
        /\ e.condemned = call[c].condemned
    BY <1>2 DEF ActiveCall
  <2>2. call' = [call EXCEPT ![c] = e]
    BY <1>3 DEF Age
  <2> HIDE DEF e
  <2>3. call'[c] = e /\ \A d \in Calls \ {c} : call'[d] = call[d]
    BY <1>2, <2>2
  <2>4. Active(c)'
    BY <1>1, <2>1, <2>3 DEF Active
  <2>5. call'[c].condemned # "nobody" => SocketsOf(c, {"open"}) \subseteq late
    BY <1>1, <2>1, <2>3 DEF LateInv, CondemnedOnlyLate, OnlyLate
  <2> QED
    BY <1>2, <2>1, <2>3, <2>4, <2>5, OthersLate
<1>4. ASSUME NEW who \in Condemners, Condemn(c, who),
             \/ who = "nobody"
             \/ call[c].age # 0 /\ Receivers(c) = {}
      PROVE  CondemnedOnlyLate'
  <2> DEFINE e == [call[c] EXCEPT !.condemned = who]
  <2>1. /\ e.age = call[c].age
        /\ e.phase = call[c].phase
        /\ e.condemned = who
    BY <1>2 DEF ActiveCall
  <2>2. call' = [call EXCEPT ![c] = e]
    BY <1>4 DEF Condemn
  <2> HIDE DEF e
  <2>3. call'[c] = e /\ \A d \in Calls \ {c} : call'[d] = call[d]
    BY <1>2, <2>2
  <2>4. Active(c)'
    BY <1>1, <2>1, <2>3 DEF Active
  <2>5. who # "nobody" => SocketsOf(c, {"open"}) \subseteq late
    BY <1>4 DEF Receivers, SocketsOf
  <2> QED
    BY <1>2, <1>4, <2>1, <2>3, <2>4, <2>5, OthersLate
<1>5. \A age \in {1, 2} : Stale(c, age) => call[c].age # 0 /\ Receivers(c) = {}
  BY <1>2 DEF Stale, ActiveCall
<1> QED
  BY <1>3, <1>4, <1>5 DEF PollCondemns, PollSpares, SweepCondemns, Condemners

LEMMA CallLate ==
    ASSUME LateInv, NEW c \in Calls, CallStep(c), Noted
    PROVE  CondemnedOnlyLate'
<1>1. CASE StartCheck(c)
  <2>1. PICK h \in Hosts : call' = [call EXCEPT ![c] =
            [phase |-> "checked", host |-> h, age |-> 0, condemned |-> "nobody"]]
    BY <1>1 DEF StartCheck
  <2>2. /\ call'[c].condemned = "nobody"
        /\ \A d \in Calls \ {c} : call'[d] = call[d]
    BY <2>1 DEF LateInv, IInv, TypeOK
  <2> QED
    BY <1>1, <2>2, OthersLate DEF StartCheck
<1>2. ASSUME Started(c), ~Active(c), UNCHANGED socket, NEW p \in Phases, Goto(c, p)
      PROVE  CondemnedOnlyLate'
  <2>1. /\ call'[c].condemned = "nobody"
        /\ \A d \in Calls \ {c} : call'[d] = call[d]
    BY <1>2, CallMoves
       DEF LateInv, IInv, CondemnedOnlyLate, OnlyLate, Moves
  <2> QED
    BY <1>2, <2>1, OthersLate
<1>3. StartMark(c) \/ StartInsert(c) \/ FreeHost(c) => CondemnedOnlyLate'
  BY <1>2 DEF StartMark, StartInsert, FreeHost, Started, Phases, Active
<1>4. Hangup(c) \/ Remove(c) => CondemnedOnlyLate'
  <2> SUFFICES ASSUME Started(c), UNCHANGED socket, Leave(c, "removed")
               PROVE  CondemnedOnlyLate'
    BY DEF Hangup, Remove, Active, Started, Phases
  <2>1. /\ call'[c].condemned = "nobody"
        /\ \A d \in Calls \ {c} : call'[d] = call[d]
    BY CallLeaves DEF LateInv, IInv, Phases, Moves
  <2> QED
    BY <2>1, OthersLate
<1> QED
  BY <1>1, <1>3, <1>4, AgesLate DEF CallStep

(* A connection that is open now was so before, or subscribes; if its call *)
(* is condemned, it is old.                                                *)
LEMMA SocketLate ==
    ASSUME LateInv, NEW s \in Sockets, SocketStep(s), Noted
    PROVE  CondemnedOnlyLate'
<1>1. UNCHANGED call
  BY SocketSteps DEF LateInv, IInv
<1>2. \A r \in Sockets : socket'[r].phase = "open" =>
        \/ socket'[r] = socket[r]
        \/ Subscribe(r) /\ socket'[r].call = socket[r].call
  <2>1. ASSUME NEW p \in {"open", "left", "deaf"}, Turn(s, p),
               p = "open" => Subscribe(s),
               socket[s].phase \in {"upgrading", "open"}
        PROVE  \A r \in Sockets : socket'[r].phase = "open" =>
                 \/ socket'[r] = socket[r]
                 \/ Subscribe(r) /\ socket'[r].call = socket[r].call
    <3> DEFINE e == [socket[s] EXCEPT !.phase = p]
    <3>1. socket[s] \in Socket
      BY <2>1 DEF LateInv, IInv, TypeOK, NoSocket, ClosedSocket
    <3>2. e.phase = p /\ e.call = socket[s].call
      BY <3>1 DEF Socket
    <3>3. socket' = [socket EXCEPT ![s] = e]
      BY <2>1 DEF Turn
    <3> HIDE DEF e
    <3> QED
      BY <2>1, <3>2, <3>3 DEF LateInv, IInv, TypeOK
  <2>2. CASE Upgrade(s)
    <3>1. PICK c \in Calls, role \in Roles : socket' = [socket EXCEPT ![s] =
              [phase |-> "upgrading", call |-> c, role |-> role]]
      BY <2>2 DEF Upgrade, Admitted
    <3>2. /\ socket'[s].phase = "upgrading"
          /\ \A r \in Sockets \ {s} : socket'[r] = socket[r]
      BY <3>1 DEF LateInv, IInv, TypeOK
    <3> QED
      BY <3>2
  <2>3. CASE Close(s)
    <3>1. /\ socket'[s].phase = "closed"
          /\ \A r \in Sockets \ {s} : socket'[r] = socket[r]
      BY <2>3 DEF LateInv, IInv, TypeOK, Close, ClosedSocket
    <3> QED
      BY <3>1
  <2> QED
    BY <2>1, <2>2, <2>3 DEF SocketStep, UpgradeFails, Subscribe, Disconnect,
       FallBehind, DisconnectDeaf, SendFails, SendersGone
<1> SUFFICES ASSUME NEW c \in Calls, Started(c), call[c].condemned # "nobody",
                    NEW r \in Sockets,
                    socket'[r].phase = "open", socket'[r].call = c
             PROVE  r \in late'
  <2>1. \A c \in Calls : Started(c) /\ call[c].condemned # "nobody" =>
            Active(c) /\ call[c].age # 0
    BY DEF LateInv, CondemnedOnlyLate, OnlyLate
  <2> QED
    BY <1>1, <2>1 DEF CondemnedOnlyLate, OnlyLate, Active, Started, SocketsOf
<1>3. OnlyLate(c) /\ call[c] \in ActiveCall
  BY StartedCall DEF LateInv, CondemnedOnlyLate, IInv
<1>4. CASE socket'[r] = socket[r]
  BY <1>3, <1>4 DEF OnlyLate, SocketsOf, Noted
<1>5. CASE Subscribe(r) /\ socket'[r].call = socket[r].call
  <2>1. call[socket[r].call].age > 0
    BY <1>3, <1>5 DEF OnlyLate, ActiveCall
  <2> QED
    BY <1>5, <2>1 DEF Noted
<1> QED
  BY <1>2, <1>4, <1>5

LEMMA NextLate ==
    LateInv /\ [Next /\ Noted]_<<vars, late>> => LateInv'
<1> SUFFICES ASSUME LateInv, [Next /\ Noted]_<<vars, late>> PROVE LateInv'
  OBVIOUS
<1>1. IInv'
  BY NextIInv DEF LateInv, vars
<1>2. CASE UNCHANGED <<vars, late>>
  BY <1>1, <1>2 DEF vars, LateInv, CondemnedOnlyLate, OnlyLate, Started, Active,
     SocketsOf
<1>3. CASE Next /\ Noted
  <2>1. ASSUME NEW h \in Hosts, HostStep(h) PROVE CondemnedOnlyLate'
    <3>1. UNCHANGED <<call, socket>>
      BY <2>1, HostSteps DEF LateInv, IInv
    <3>2. \A c \in Calls : Started(c)' /\ call'[c].condemned # "nobody" =>
            /\ Active(c)' /\ call'[c].age # 0
            /\ SocketsOf(c, {"open"}) \subseteq late
      BY <3>1 DEF LateInv, CondemnedOnlyLate, OnlyLate, Active, Started
    <3>3. \A c \in Calls : call'[c] = call[c]
      BY <3>1
    <3> SUFFICES ASSUME NEW c \in Calls PROVE CondemnedOnlyLate'
      BY DEF CondemnedOnlyLate
    <3> QED
      BY <1>3, <3>1, <3>2, <3>3, OthersLate
  <2>2. CondemnedOnlyLate'
    BY <1>3, <2>1, CallLate, SocketLate DEF Next
  <2> QED
    BY <1>1, <2>2 DEF LateInv
<1> QED
  BY <1>2, <1>3

(* Polls and sweeps remove no call that a party is subscribed to, unless   *)
(* it subscribed late, though they collect calls some time before they     *)
(* remove them and look at nothing again.                                  *)
THEOREM SubscribedCallsAreKept == DeployedSpec => []SubscribedIsKept
<1>1. DeployedInit => LateInv
  BY InitLate DEF DeployedInit
<1>2. LateInv /\ [DeployedNext]_DeployedVars => LateInv'
  BY NextLate DEF DeployedNext, DeployedVars, Rest
<1>3. LateInv => SubscribedIsKept
  BY DEF LateInv, CondemnedOnlyLate, OnlyLate, SubscribedIsKept, Active, Started,
         Phases
<1> QED
  BY <1>1, <1>2, <1>3, PTL DEF DeployedSpec

=============================================================================
