------------------------------- MODULE MCExamples -------------------------------
(***************************************************************************)
(* The examples side by side: the stream, the services that are paid per   *)
(* request and the two pages of the voice call have nothing in common but  *)
(* the library, so that a behavior is one of one of them.                  *)
(***************************************************************************)
EXTENDS StreamSafety, VoicePrices

CONSTANTS
    (* PaidService *)
    Visits, Sources, Limits, Window, MaxTime,
    ServiceDeployments,
    (* VoicePayments *)
    PagesDeployments

VARIABLES
    example,
    (* PaidService *)
    page, tx, handler, effect, windows, clock, setup, passed, unheard,
    (* VoicePayments *)
    hostPage, channel, caller, wire, server, earned

Service == INSTANCE PaidServiceSafety WITH
    Calls <- Visits, Deployments <- ServiceDeployments

Pages == INSTANCE VoicePaymentsSafety WITH
    host <- hostPage, chain <- channel, Deployments <- PagesDeployments

ASSUME ExamplesAssumption == Service!ServiceAssumption

-----------------------------------------------------------------------------
serviceVars ==
    <<page, tx, handler, effect, windows, clock, setup, passed, unheard>>
pagesVars == <<hostPage, channel, caller, wire, server, earned>>

ExamplesVars == <<example, premises, vars, serviceVars, pagesVars>>

(* The examples that do not run remain in one of their initial states. *)
AnyOf(S) == CHOOSE x \in S : TRUE

NoStream ==
    /\ Init
    /\ client.delta = AnyOf(Deltas) /\ client.deposit = AnyOf(Deposits)

NoService ==
    /\ Service!Init
    /\ setup = [plan |-> Service!Scrape, limit |-> AnyOf(Limits), valid |-> {},
                source |-> [v \in Visits |-> AnyOf(Sources)]]
    /\ passed = 0 /\ unheard = 0

NoPages == Pages!Init /\ earned = 0

ExamplesInit ==
    \/ example = "stream" /\ DeployedInit /\ NoService /\ NoPages
    \/ example = "service" /\ Service!DeployedInit /\ NoStream /\ NoPages
    \/ example = "pages" /\ Pages!DeployedInit /\ NoStream /\ NoService

ExamplesNext ==
    \/ /\ example = "stream" /\ DeployedNext
       /\ UNCHANGED <<example, serviceVars, pagesVars>>
    \/ /\ example = "service" /\ Service!DeployedNext
       /\ UNCHANGED <<example, vars, pagesVars>>
    \/ /\ example = "pages" /\ Pages!DeployedNext
       /\ UNCHANGED <<example, vars, serviceVars>>

ExamplesSpec == ExamplesInit /\ [][ExamplesNext]_ExamplesVars

-----------------------------------------------------------------------------
(* The properties of the stream are those of StreamSafety. *)

(* Only what is paid passes the limiter or is worked for, and in the       *)
(* length of a window no more than two windows that meet let pass.         *)
LimitHolds == example = "service" => Service!PassedIsPaid /\ Service!LimitHolds

(* What was done for a call is what its server knows of and could not know *)
(* of, and no more is asked for once a required step has failed.           *)
CompletedIsDone ==
    /\ Service!TypeOK
    /\ example = "service" => Service!CompletedIsDone /\ Service!NothingInVain

(* Where no required step fails for good, no call that paid is refused.    *)
PaidIsServed == example = "service" => Service!PaidIsServed

(* The records of both pages keep their types: no caller signs or deposits *)
(* more than bounds its deposit, whichever of its awaits overlap.          *)
PagesTypeOK == Pages!TypeOK

(* A voucher that a host has accepted it holds, on its page or in          *)
(* localStorage, until it is paid, and it can claim what it holds.         *)
EarnedIsKept == example = "pages" => Pages!EarnedIsKept
=============================================================================
