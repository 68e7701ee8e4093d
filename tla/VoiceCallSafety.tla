---------------------------- MODULE VoiceCallSafety ----------------------------
(***************************************************************************)
(* What VoiceCall promises to hosts and callers, and under which premises  *)
(* about them it does.                                                     *)
(***************************************************************************)
EXTENDS VoiceCall

CONSTANT
    Deployments   \* sets of premises, of which one holds throughout

VARIABLES
    premises,
    late          \* open connections whose call was older than 30 seconds when
                  \* they subscribed

-----------------------------------------------------------------------------
(* Premises *)

Engaged(h) == \E c \in Calls :
    call[c].phase \in {"marked", "active", "removed"} /\ call[c].host = h

(* No two callers start a call with one host at the same time. *)
TakesTurns == \A c, d \in Calls :
    /\ call[c].phase = "checked" /\ call[d].phase = "checked"
    /\ call[c].host = call[d].host
    => c = d

(* A host registers between calls. *)
RegistersFree == \A h \in Hosts : GoLive(h) => ~Engaged(h)

(* A party disconnects only when its call was hung up. *)
HangsUp == \A s \in Sockets :
    socket[s].phase = "left" => ~Active(socket[s].call)

Observed ==
    /\ "takes turns" \in premises => TakesTurns'
    /\ "registers free" \in premises => RegistersFree
    /\ "hangs up" \in premises => HangsUp'

Noted == late' = {s \in Sockets :
    /\ socket[s].phase' = "open"
    /\ s \in late \/ (Subscribe(s) /\ call[socket[s].call].age > 0)}

Rest == Observed /\ Noted /\ UNCHANGED premises

DeployedVars == <<vars, premises, late>>
DeployedInit == Init /\ premises \in Deployments /\ late = {}
DeployedNext == Next /\ Rest
DeployedSpec == DeployedInit /\ [][DeployedNext]_DeployedVars

(* Time passes, the sweep runs every minute, and handlers come to their    *)
(* end.  A poll may never come.                                            *)
Swept(c) == Remove(c) /\ call[c].condemned = "sweep_stale"

FairSpec ==
    /\ DeployedSpec
    /\ \A c \in Calls :
         /\ WF_DeployedVars(Age(c) /\ Rest)
         /\ WF_DeployedVars(SweepCondemns(c) /\ Rest)
         /\ WF_DeployedVars(Swept(c) /\ Rest)
         /\ WF_DeployedVars(FreeHost(c) /\ Rest)

-----------------------------------------------------------------------------
(* Properties *)

(* "Host is busy": a host has one call at a time, if callers do not start  *)
(* theirs together and it does not register during a call.  The sweep does *)
(* free a host that stops polling during a call, but takes it offline.     *)
OneCallEach == {"takes turns", "registers free"} \subseteq premises =>
    \A c, d \in Calls :
        Active(c) /\ Active(d) /\ call[c].host = call[d].host => c = d

(* No host is busy for nothing, whatever overlaps: it is in a call, or a   *)
(* handler is on its way to give it one or to free it.                     *)
BusyForAReason == \A h \in Hosts :
    host[h].known /\ host[h].busy => Engaged(h)

(* "If the call has active WebSocket subscribers, it's a real call": polls *)
(* and sweeps collect calls first and remove them later, by when a party   *)
(* may have subscribed, but no call of a party that subscribed within 30   *)
(* seconds and has not fallen behind (such a party is connected, and not   *)
(* counted).                                                               *)
SubscribedIsKept == \A c \in Calls :
    Active(c) /\ call[c].condemned # "nobody" =>
        SocketsOf(c, {"open"}) \subseteq late

(* "Remove calls older than 5 minutes with no active WebSocket             *)
(* subscribers": a call that nobody is connected to ends.                  *)
Abandoned(c) == Active(c) /\ SocketsOf(c, {"upgrading", "open", "deaf"}) = {}
AbandonedIsSwept == \A c \in Calls : Abandoned(c) ~> ~Abandoned(c)

(* It does for calls to which nobody ever connected. *)
UnansweredIsSwept == \A c \in Calls :
    "hangs up" \in premises /\ Abandoned(c) ~> ~Abandoned(c)
=============================================================================
