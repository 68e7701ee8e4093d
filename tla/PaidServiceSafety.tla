--------------------------- MODULE PaidServiceSafety ---------------------------
(***************************************************************************)
(* What a service that is paid per request owes those who pay, while calls *)
(* overlap, services behind it fail or are not heard, and requests are     *)
(* limited.                                                                *)
(***************************************************************************)
EXTENDS PaidService, FiniteSets

CONSTANT
    Deployments   \* sets of premises, of which one holds throughout

VARIABLES
    premises,
    passed,       \* which calls have passed the limiter, and when
    unheard       \* what was done for each call without its server knowing

-----------------------------------------------------------------------------
(* Premises *)

(* Transactions succeed, connections hold, the user pays and waits, the    *)
(* input is valid, the limit is not reached, and a service that is needed  *)
(* answers the last attempt at the latest.                                 *)
LastChance(h) ==
    setup.plan[h.step].required /\ h.attempt = setup.plan[h.step].tries

Spare(s) == Cardinality({c \in Calls : setup.source[c] = s /\ page[c] # "idle"})
                < setup.limit

Smooth == \A c \in Calls :
    /\ tx[c]' # "failed"
    /\ ~GiveUp(c) /\ ~Break(c) /\ ~Reject(c)
    /\ Ask(c) => c \in setup.valid /\ Spare(setup.source[c])
    /\ Fails(c) => ~LastChance(handler[c])

(* The service behind firecrawl-proxy is asked. *)
Quick == setup.plan = Scrape

(* The calls are of one source, all valid or none. *)
Uniform ==
    /\ setup.valid \in {{}, Calls}
    /\ \A c, d \in Calls : setup.source[c] = setup.source[d]

(* Nobody gives up; or one page is in use, within one window. *)
Patient == \A c \in Calls : ~GiveUp(c) /\ ~Break(c)

FirstCall == CHOOSE c \in Calls : TRUE
Alone ==
    /\ \A c \in Calls \ {FirstCall} : page[c]' = "idle"
    /\ clock' = clock

(* Two calls are made; or all are, each once those before have ended.      *)
Few == Cardinality({c \in Calls : page'[c] # "idle"}) <= 2

Ended(c) == page[c] \in {"idle", "done", "error"}
InTurn == Cardinality({c \in Calls : ~Ended(c)'}) <= 1

Observed ==
    /\ "smooth" \in premises => Smooth
    /\ "alone" \in premises => Alone
    /\ "patient" \in premises => Patient
    /\ "few" \in premises => Few
    /\ "in turn" \in premises => InTurn

DeployedVars == <<vars, premises, passed, unheard>>
DeployedInit ==
    /\ Init
    /\ premises \in Deployments
    /\ "quick" \in premises => Quick
    /\ premises \cap {"alone", "patient", "few"} # {} => Uniform
    /\ passed = {}
    /\ unheard = [c \in Calls |-> [i \in AllSteps |-> 0]]

Passing(c) == Enter(c) /\ handler'[c].status # 429

Noted ==
    /\ passed' = passed \cup {<<c, clock>> : c \in {d \in Calls : Passing(d)}}
    /\ unheard' = [c \in Calls |-> [i \in AllSteps |->
         unheard[c][i] + IF Fails(c) THEN effect'[c][i] - effect[c][i] ELSE 0]]

Rest == Observed /\ Noted /\ UNCHANGED premises

DeployedNext == Next /\ Rest
DeployedSpec == DeployedInit /\ [][DeployedNext]_DeployedVars

-----------------------------------------------------------------------------
(* Properties *)

(* Only requests that were paid pass the limiter, each once, so that the   *)
(* requests without payment that a client begins with use up none of it;   *)
(* and only what has passed is worked for.                                 *)
PassedIsPaid ==
    /\ \A p \in passed : tx[p[1]] = "succeeded"
    /\ \A p, q \in passed : p[1] = q[1] => p = q
    /\ \A c \in Calls : (\E i \in AllSteps : effect[c][i] > 0) =>
         \E p \in passed : p[1] = c

(* The windows of the limiter begin with requests, so that two of them may *)
(* meet in any time as long as one: what passes then is at most what two   *)
(* windows let pass, less the request that the earlier began with, though  *)
(* expired windows are removed meanwhile.  A limit of 0 lets one pass in   *)
(* any such time, not none.                                                *)
PassedWithin(s, t) == {p \in passed : setup.source[p[1]] = s /\ p[2] \in t..t + Window}

LimitHolds == \A s \in Sources : \A t \in 0..MaxTime :
    Cardinality(PassedWithin(s, t)) <= 2 * Most - 1

(* "per-IP, configurable requests per minute"                              *)
(* (firecrawl-proxy/README.md:76): no more than the limit in any minute,   *)
(* its end not included.                                                   *)
LimitPerMinute == \A s \in Sources : \A t \in 0..MaxTime :
    Cardinality({p \in PassedWithin(s, t) : p[2] < t + Window}) <= setup.limit

(* What was done for a call is what its server counts as completed, and    *)
(* what it was not told of: the email is sent again only by an attempt     *)
(* whose predecessor was not heard.                                        *)
CompletedIsDone ==
    \A c \in Calls : \A i \in AllSteps :
        effect[c][i] = unheard[c][i] + IF i \in handler[c].completed THEN 1 ELSE 0

(* Nobody is served, and no service asked for more, without the result of  *)
(* a required step.                                                        *)
NothingInVain ==
    \A c \in Calls : \A i \in Steps :
        (handler[c].step > i \/ handler[c].status = 200) /\ setup.plan[i].required
            => i \in handler[c].completed

(* Where no service that is needed fails its last attempt, and the limit   *)
(* is kept, no call that paid is refused, whichever of the other attempts  *)
(* and of the optional steps fail.                                         *)
PaidIsServed ==
    "smooth" \in premises => \A c \in Calls : handler[c].status \in {0, 200}
=============================================================================
