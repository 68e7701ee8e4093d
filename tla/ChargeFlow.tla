------------------------------- MODULE ChargeFlow -------------------------------
(***************************************************************************)
(* One-time charges end to end: the calls of an application that pay with  *)
(* one MovementProvider (send_with_payment or PaymentMiddleware), the      *)
(* account they share on chain, and servers that gate their routes with    *)
(* MppCharge or with Mpp itself and recognise payments with ChargeMethod.  *)
(*                                                                         *)
(* The chain and its nodes are external: a transaction is executed at most *)
(* once, in the order of the account's sequence numbers, succeeds or       *)
(* aborts, or is discarded; a node may learn of it late.  A transaction is *)
(* identified by its content, as its hash is.                              *)
(***************************************************************************)
EXTENDS ChargeRoutes, FiniteSets

CONSTANTS
    Calls,        \* calls of the application, each made once
    Seconds       \* times at which a transaction may be built

VARIABLES
    mempool,      \* transactions accepted by a node and not yet executed
    landed,       \* transactions executed with success
    aborted,      \* transactions executed without
    seen,         \* executed transactions the server's node knows of
    call          \* where each call is

vars == <<mempool, landed, aborted, seen, call>>
chain == <<mempool, landed, aborted>>

-----------------------------------------------------------------------------
(* Data *)

Transaction == [
    sequence : Nat,
    payload : Payload,
    expiration : Seconds]

(* A call before its challenge; with it; and in pay, from the transaction  *)
(* built to the answer of the server.  "fresh" is whether the challenge    *)
(* has not expired yet, "route" what the route charges that is called.     *)
Idle == [phase |-> "idle"]
Challenged == [phase : {"challenged"}, request : Requests, fresh : BOOLEAN]
Paying == [
    phase : {"built", "submitted", "sent", "verifying",
             "served", "refused", "failed"},
    request : Requests, route : Requests, fresh : BOOLEAN, tx : Transaction]
Unpaid == [phase |-> "failed"]

TypeOK ==
    /\ mempool \subseteq Transaction
    /\ landed \subseteq Transaction
    /\ aborted \subseteq Transaction
    /\ seen \subseteq landed \cup aborted
    /\ call \in [Calls -> Challenged \cup Paying \cup {Idle, Unpaid}]

Init ==
    /\ mempool = {}
    /\ landed = {}
    /\ aborted = {}
    /\ seen = {}
    /\ call = [r \in Calls |-> Idle]

(* The sequence number the account's next transaction must have. *)
NextSequence == Cardinality(landed \cup aborted)

Goto(r, phase) == call' = [call EXCEPT ![r].phase = phase]

-----------------------------------------------------------------------------
(* The client *)

(* The first request is answered by 402 and a challenge. *)
Challenge(r) ==
    /\ call[r].phase = "idle"
    /\ \E q \in Requests :
           call' = [call EXCEPT ![r] =
               [phase |-> "challenged", request |-> q, fresh |-> TRUE]]
    /\ UNCHANGED <<chain, seen>>

(* pay_charge asks the node for the account's sequence number and signs a  *)
(* transfer with it.  The expiry of the challenge is not looked at.        *)
Build(r) ==
    /\ call[r].phase = "challenged"
    /\ \E s \in Seconds :
           call' = [call EXCEPT ![r] =
               [phase |-> "built",
                request |-> call[r].request,
                route |-> call[r].request,
                fresh |-> call[r].fresh,
                tx |-> [sequence |-> NextSequence,
                        payload |-> BuildTransfer(call[r].request),
                        expiration |-> s]]]
    /\ UNCHANGED <<chain, seen>>

(* get_account or encode_submission fails. *)
BuildFails(r) ==
    /\ call[r].phase = "challenged"
    /\ call' = [call EXCEPT ![r] = Unpaid]
    /\ UNCHANGED <<chain, seen>>

(* submit_transaction: a node takes a transaction whose sequence number is *)
(* not used up, though another may wait elsewhere with the same number.    *)
Submit(r) ==
    /\ call[r].phase = "built"
    /\ call[r].tx.sequence >= NextSequence
    /\ mempool' = mempool \cup {call[r].tx}
    /\ Goto(r, "submitted")
    /\ UNCHANGED <<landed, aborted, seen>>

SubmitFails(r) ==
    /\ call[r].phase = "built"
    /\ Goto(r, "failed")
    /\ UNCHANGED <<chain, seen>>

(* wait_for_transaction answers; the request is made again, with the hash. *)
Confirmed(r) ==
    /\ call[r].phase = "submitted"
    /\ call[r].tx \in landed
    /\ Goto(r, "sent")
    /\ UNCHANGED <<chain, seen>>

(* The TypeScript provider does not wait: it presents the hash as soon as  *)
(* a node has taken the transaction.                                       *)
PresentAtOnce(r) ==
    /\ call[r].phase = "submitted"
    /\ Goto(r, "sent")
    /\ UNCHANGED <<chain, seen>>

(* The application shows what it has again, to the same route or another:  *)
(* the credential of an earlier call, or its hash with a challenge of the  *)
(* route.  The server keeps neither and cannot tell.                       *)
ShowAgain(r) ==
    /\ call[r].phase = "idle"
    /\ \E s \in Calls, route \in Requests :
           /\ call[s] \in Paying /\ call[s].phase # "built"
           /\ \E c \in {[request |-> call[s].request, fresh |-> call[s].fresh],
                        [request |-> route, fresh |-> TRUE]} :
                  call' = [call EXCEPT ![r] =
                      [phase |-> "sent", request |-> c.request, route |-> route,
                       fresh |-> c.fresh, tx |-> call[s].tx]]
    /\ UNCHANGED <<chain, seen>>

(* The wait ends in a failed transaction, or in no answer. *)
WaitFails(r) ==
    /\ call[r].phase = "submitted"
    /\ Goto(r, "failed")
    /\ UNCHANGED <<chain, seen>>

-----------------------------------------------------------------------------
(* The chain *)

Drop(t) == {u \in mempool \ {t} : u.sequence > t.sequence}

Execute(t) ==
    /\ t \in mempool
    /\ t.sequence = NextSequence
    /\ landed' = landed \cup {t}
    /\ mempool' = Drop(t)
    /\ UNCHANGED <<aborted, seen, call>>

Abort(t) ==
    /\ t \in mempool
    /\ t.sequence = NextSequence
    /\ aborted' = aborted \cup {t}
    /\ mempool' = Drop(t)
    /\ UNCHANGED <<landed, seen, call>>

(* Its expiration has passed. *)
Discard(t) ==
    /\ t \in mempool
    /\ mempool' = mempool \ {t}
    /\ UNCHANGED <<landed, aborted, seen, call>>

See(t) ==
    /\ t \in (landed \cup aborted) \ seen
    /\ seen' = seen \cup {t}
    /\ UNCHANGED <<chain, call>>

-----------------------------------------------------------------------------
(* The server *)

(* Time passes: a challenge expires. *)
Expire(r) ==
    /\ call[r].phase \in {"challenged", "built", "submitted", "sent"}
    /\ call[r].fresh
    /\ call' = [call EXCEPT ![r].fresh = FALSE]
    /\ UNCHANGED <<chain, seen>>

(* verify_hmac_and_expiry, and, in a server that calls                     *)
(* verify_credential_with_expected_request, the comparison of the request  *)
(* with the route's.  The extractor calls verify_credential, without it.   *)
CheckChallenge(r) ==
    /\ call[r].phase = "sent"
    /\ \/ call[r].fresh /\ Goto(r, "verifying")
       \/ /\ ~call[r].fresh \/ call[r].request # call[r].route
          /\ Goto(r, "refused")
    /\ UNCHANGED <<chain, seen>>

\* Mutant of RecognisedAs: whether the transaction succeeded is not asked.
RecognisedAnyhow(t, legible, q) ==
    /\ t \in seen
    /\ \E answer \in Answers(t.payload) :
           answer.legible = legible /\ Verified(answer, q)

\* Mutant of RecognisedAs: a pending transaction will do.
RecognisedPending(t, legible, q) ==
    /\ t \in mempool \cup (seen \cap landed)
    /\ \E answer \in Answers(t.payload) :
           answer.legible = legible /\ Verified(answer, q)

(* What verify_tx_hash makes of the node's answer: not found and pending   *)
(* are errors, and so is a transaction that failed.                        *)
RecognisedAs(t, legible, q) ==
    /\ t \in seen
    /\ t \in landed
    /\ \E answer \in Answers(t.payload) :
           answer.legible = legible /\ Verified(answer, q)

Recognised(t, q) == \E legible \in BOOLEAN : RecognisedAs(t, legible, q)

Serve(r) ==
    /\ call[r].phase = "verifying"
    /\ Recognised(call[r].tx, call[r].request)
    /\ Goto(r, "served")
    /\ UNCHANGED <<chain, seen>>

(* The payment is not recognised, or the lookup fails: the extractor       *)
(* answers 402 with a new challenge, which the client returns.             *)
Refuse(r) ==
    /\ call[r].phase = "verifying"
    /\ Goto(r, "refused")
    /\ UNCHANGED <<chain, seen>>

(* The request or its answer is lost. *)
Lose(r) ==
    /\ call[r].phase \in {"sent", "verifying"}
    /\ Goto(r, "failed")
    /\ UNCHANGED <<chain, seen>>

-----------------------------------------------------------------------------
Client(r) ==
    \/ Challenge(r) \/ Build(r) \/ BuildFails(r)
    \/ Submit(r) \/ SubmitFails(r)
    \/ Confirmed(r) \/ PresentAtOnce(r) \/ WaitFails(r)
    \/ ShowAgain(r)

Server(r) == CheckChallenge(r) \/ Serve(r) \/ Refuse(r)

Chain(t) == Execute(t) \/ Abort(t) \/ Discard(t) \/ See(t)

Next ==
    \/ \E r \in Calls : Client(r) \/ Server(r) \/ Expire(r) \/ Lose(r)
    \/ \E t \in mempool \cup landed \cup aborted : Chain(t)

Spec == Init /\ [][Next]_vars
=============================================================================
