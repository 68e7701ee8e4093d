------------------------------- MODULE VoiceCall -------------------------------
(***************************************************************************)
(* The server of the voice call example: hosts that register and poll,     *)
(* callers that start a call with a host, the WebSockets over which the    *)
(* two parties of a call signal, and the background sweep.                 *)
(*                                                                         *)
(* Handlers run in parallel threads.  The two maps are locked one entry at *)
(* a time, so a handler that touches an entry, then another one, may be    *)
(* overtaken in between: one action below is one such access.              *)
(*                                                                         *)
(* Left out: rates and 402 challenges, which depend on nothing here, the   *)
(* per-address rate limit, and the clean-up before the process exits.      *)
(***************************************************************************)
EXTENDS Naturals

CONSTANTS
    Hosts,        \* addresses that may go live
    Calls,        \* ids drawn by start_call, one for each paid request
    Sockets       \* connections to /ws/signal, each made once

VARIABLES
    host,         \* state.hosts
    call,         \* state.calls, and the handlers that add and remove its entries
    socket        \* handle_ws: its two tasks

vars == <<host, call, socket>>

-----------------------------------------------------------------------------
(* Data *)

(* HostInfo; "quiet" is last_seen more than two minutes ago. *)
NoHost == [known |-> FALSE]
HostInfo == [known : {TRUE}, online : BOOLEAN, busy : BOOLEAN, quiet : BOOLEAN]

(* start_call has found the host free, has marked it busy, has inserted    *)
(* the call; the call was removed, and its host was freed.  The age of a   *)
(* call is 1 after 30 seconds and 2 after five minutes.                    *)
NoCall == [phase |-> "idle"]
Condemners == {"nobody", "host_poll", "sweep_stale"}
ActiveCall == [
    phase : {"checked", "marked", "active", "removed", "ended"},
    host : Hosts, age : 0..2, condemned : Condemners]

(* A connection that was admitted, that has subscribed, whose client has   *)
(* gone while send_task still waits for messages, whose send_task has      *)
(* ended while recv_task still reads; and one whose tasks have ended.      *)
NoSocket == [phase |-> "none"]
ClosedSocket == [phase |-> "closed"]
Roles == {"host", "caller"}
Socket == [
    phase : {"upgrading", "open", "left", "deaf"}, call : Calls, role : Roles]

TypeOK ==
    /\ host \in [Hosts -> HostInfo \cup {NoHost}]
    /\ call \in [Calls -> ActiveCall \cup {NoCall}]
    /\ socket \in [Sockets -> Socket \cup {NoSocket, ClosedSocket}]

Init ==
    /\ host = [h \in Hosts |-> NoHost]
    /\ call = [c \in Calls |-> NoCall]
    /\ socket = [s \in Sockets |-> NoSocket]

Active(c) == call[c].phase = "active"
SocketsOf(c, phases) ==
    {s \in Sockets : socket[s].phase \in phases /\ socket[s].call = c}

(* signal_tx.receiver_count() *)
Receivers(c) == SocketsOf(c, {"open", "left"})

-----------------------------------------------------------------------------
(* Hosts *)

(* go_live replaces the entry, whatever the host is doing. *)
GoLive(h) ==
    /\ host' = [host EXCEPT ![h] =
           [known |-> TRUE, online |-> TRUE, busy |-> FALSE, quiet |-> FALSE]]
    /\ UNCHANGED <<call, socket>>

GoOffline(h) ==
    /\ host[h].known
    /\ host' = [host EXCEPT ![h].online = FALSE]
    /\ UNCHANGED <<call, socket>>

(* host_poll notes that the host was seen; it does not bring it online. *)
Poll(h) ==
    /\ host[h].known
    /\ host' = [host EXCEPT ![h].quiet = FALSE]
    /\ UNCHANGED <<call, socket>>

(* Two minutes without a poll, and sweep_stale. *)
FallQuiet(h) ==
    /\ host[h].known
    /\ host' = [host EXCEPT ![h].quiet = TRUE]
    /\ UNCHANGED <<call, socket>>

SweepHost(h) ==
    /\ host[h].known
    /\ host[h].online
    /\ host[h].quiet
    /\ host' = [host EXCEPT ![h] = [@ EXCEPT !.online = FALSE, !.busy = FALSE]]
    /\ UNCHANGED <<call, socket>>

SetBusy(h, busy) == host' = [host EXCEPT ![h].busy = busy]

-----------------------------------------------------------------------------
(* Calls *)

Goto(c, phase) == call' = [call EXCEPT ![c].phase = phase]

(* A call that left the map has no age. *)
Leave(c, phase) == call' = [call EXCEPT ![c] =
    [phase |-> phase, host |-> @.host, age |-> 0, condemned |-> "nobody"]]

(* start_call with a channel id: the entry of the host is copied. *)
\* Mutant of Available: busy is not looked at.
AvailableAnyway(h) == host[h].known /\ host[h].online

Available(h) == host[h].known /\ host[h].online /\ ~host[h].busy

StartCheck(c) ==
    /\ call[c].phase = "idle"
    /\ \E h \in Hosts :
         /\ Available(h)
         /\ call' = [call EXCEPT ![c] =
                [phase |-> "checked", host |-> h, age |-> 0, condemned |-> "nobody"]]
    /\ UNCHANGED <<host, socket>>

StartMark(c) ==
    /\ call[c].phase = "checked"
    /\ SetBusy(call[c].host, TRUE)
    /\ Goto(c, "marked")
    /\ UNCHANGED socket

StartInsert(c) ==
    /\ call[c].phase = "marked"
    /\ Goto(c, "active")
    /\ UNCHANGED <<host, socket>>

(* Time passes. *)
Age(c) ==
    /\ Active(c)
    /\ call[c].age < 2
    /\ call' = [call EXCEPT ![c].age = @ + 1]
    /\ UNCHANGED <<host, socket>>

(* hangup removes the call, and then frees the host. *)
Hangup(c) ==
    /\ Active(c)
    /\ Leave(c, "removed")
    /\ UNCHANGED <<host, socket>>

FreeHost(c) ==
    /\ call[c].phase = "removed"
    /\ SetBusy(call[c].host, FALSE)
    /\ Goto(c, "ended")
    /\ UNCHANGED socket

(* host_poll and sweep_stale first collect calls that nobody listens to.   *)
\* Mutant of Stale: only the age counts.
StaleByAge(c, age) == Active(c) /\ call[c].age >= age

Stale(c, age) == Active(c) /\ call[c].age >= age /\ Receivers(c) = {}

Condemn(c, who) == call' = [call EXCEPT ![c].condemned = who]

PollCondemns(c) ==
    /\ Stale(c, 1)
    /\ call[c].condemned = "nobody"
    /\ Condemn(c, "host_poll")
    /\ UNCHANGED <<host, socket>>

(* The poll comes to a call it can answer with, and forgets what it        *)
(* collected before it.                                                    *)
PollSpares(c) ==
    /\ Active(c)
    /\ call[c].condemned = "host_poll"
    /\ \E d \in Calls \ {c} :
           Active(d) /\ call[d].host = call[c].host /\ ~Stale(d, 1)
    /\ Condemn(c, "nobody")
    /\ UNCHANGED <<host, socket>>

\* Mutant of SweepCondemns: only hosts in a call are looked at.
SweepCondemnsBusy(c) ==
    /\ Stale(c, 2)
    /\ host[call[c].host].busy
    /\ call[c].condemned # "sweep_stale"
    /\ Condemn(c, "sweep_stale")
    /\ UNCHANGED <<host, socket>>

SweepCondemns(c) ==
    /\ Stale(c, 2)
    /\ call[c].condemned # "sweep_stale"
    /\ Condemn(c, "sweep_stale")
    /\ UNCHANGED <<host, socket>>

(* Then they remove what they collected, and free the host. *)
\* Mutant of Remove: the host is not freed.
RemoveOnly(c) ==
    /\ Active(c)
    /\ call[c].condemned # "nobody"
    /\ Leave(c, "ended")
    /\ UNCHANGED <<host, socket>>

Remove(c) ==
    /\ Active(c)
    /\ call[c].condemned # "nobody"
    /\ Leave(c, "removed")
    /\ UNCHANGED <<host, socket>>

-----------------------------------------------------------------------------
(* Signaling *)

Turn(s, phase) ==
    /\ socket' = [socket EXCEPT ![s].phase = phase]
    /\ UNCHANGED <<host, call>>

Close(s) ==
    /\ socket' = [socket EXCEPT ![s] = ClosedSocket]
    /\ UNCHANGED <<host, call>>

(* ws_signal: the token shows which party of the call this is. *)
\* Mutant of Admitted: the token is not verified.
AdmittedAnyway == Roles \cup {"unknown"}

Admitted == Roles

Upgrade(s) ==
    /\ socket[s].phase = "none"
    /\ \E c \in Calls, role \in Admitted :
         /\ Active(c)
         /\ socket' = [socket EXCEPT ![s] =
                [phase |-> "upgrading", call |-> c, role |-> role]]
    /\ UNCHANGED <<host, call>>

UpgradeFails(s) == socket[s].phase = "upgrading" /\ Close(s)

(* handle_ws subscribes to the sender it was given, though the call may    *)
(* have been removed.                                                      *)
Subscribe(s) == socket[s].phase = "upgrading" /\ Turn(s, "open")

(* The client goes: recv_task ends, and with it handle_ws.  send_task is   *)
(* detached and keeps its receiver.                                        *)
Disconnect(s) == socket[s].phase = "open" /\ Turn(s, "left")

(* send_task ends: it has fallen 64 messages behind (RecvError::Lagged),   *)
(* or a message was not sent.  handle_ws returns, and recv_task, detached, *)
(* goes on to relay what the client says.                                  *)
FallBehind(s) == socket[s].phase = "open" /\ Turn(s, "deaf")

DisconnectDeaf(s) == socket[s].phase = "deaf" /\ Close(s)

(* A message of the other party finds the client gone. *)
SendFails(s) ==
    /\ socket[s].phase = "left"
    /\ \E r \in SocketsOf(socket[s].call, {"open", "deaf"}) :
           socket[r].role # socket[s].role
    /\ Close(s)

(* The last sender is gone: the map's, and those of other connections. *)
SendersGone(s) ==
    /\ socket[s].phase = "left"
    /\ ~Active(socket[s].call)
    /\ SocketsOf(socket[s].call, {"upgrading", "open", "deaf"}) = {}
    /\ Close(s)

-----------------------------------------------------------------------------
HostStep(h) ==
    GoLive(h) \/ GoOffline(h) \/ Poll(h) \/ FallQuiet(h) \/ SweepHost(h)

CallStep(c) ==
    \/ StartCheck(c) \/ StartMark(c) \/ StartInsert(c)
    \/ Age(c) \/ Hangup(c) \/ FreeHost(c)
    \/ PollCondemns(c) \/ PollSpares(c) \/ SweepCondemns(c) \/ Remove(c)

SocketStep(s) ==
    \/ Upgrade(s) \/ UpgradeFails(s) \/ Subscribe(s)
    \/ Disconnect(s) \/ FallBehind(s) \/ DisconnectDeaf(s)
    \/ SendFails(s) \/ SendersGone(s)

Next ==
    \/ \E h \in Hosts : HostStep(h)
    \/ \E c \in Calls : CallStep(c)
    \/ \E s \in Sockets : SocketStep(s)

Spec == Init /\ [][Next]_vars
=============================================================================
