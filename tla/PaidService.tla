------------------------------- MODULE PaidService -------------------------------
(***************************************************************************)
(* The two services that are paid per request: firecrawl-proxy, which asks *)
(* one service behind it, and search-image-email, which asks three in a    *)
(* row and retries them.  A browser pays for a request before the server   *)
(* looks at anything but the payment.                                      *)
(*                                                                         *)
(* Each call is one press of the button, with a page of its own; what      *)
(* ChargeFlow models of a payment (the transfer behind a hash, challenges) *)
(* is here a transaction that succeeds or fails.                           *)
(***************************************************************************)
EXTENDS Naturals, Sequences

CONSTANTS
    Calls,
    Sources,      \* what get_client_ip returns
    Limits,       \* what RATE_LIMIT_PER_MINUTE may say, a u32
    Window,       \* window_secs
    MaxTime       \* BOUND: of the clock

VARIABLES
    page,         \* the page of each call
    tx,           \* its transaction
    handler,      \* the handler that serves it
    effect,       \* what the services behind have done for it
    windows,      \* of the rate limiter
    clock,
    setup         \* the service, its limit, and of the calls the source and
                  \* whether they are valid

vars == <<page, tx, handler, effect, windows, clock, setup>>

ServiceAssumption ==
    /\ Limits \subseteq Nat
    /\ {Window, MaxTime} \subseteq Nat

-----------------------------------------------------------------------------
(* Data *)

(* A step asks one service, again if that fails.  Without the result of a  *)
(* required step there is no answer.                                       *)
Scrape == <<[tries |-> 1, required |-> TRUE]>>

Pipeline ==
    <<[tries |-> 3, required |-> TRUE],      \* exa_search
      [tries |-> 2, required |-> FALSE],     \* fal_generate_image
      [tries |-> 3, required |-> FALSE]>>    \* resend_send

Setups == [
    plan : {Scrape, Pipeline}, limit : Limits,
    source : [Calls -> Sources], valid : SUBSET Calls]

Steps == DOMAIN setup.plan

AllSteps == 1..3

(* A request is verified, then it runs; its answer is made, or it is       *)
(* dropped with its connection.                                            *)
Handler == [
    phase : {"none", "sent", "verified", "running", "answered", "dropped"},
    step : AllSteps, attempt : 1..3, completed : SUBSET AllSteps,
    status : {0, 200, 400, 402, 429, 502}]

(* What a window may let pass: an expired one begins again with a request, *)
(* whatever the limit.                                                     *)
Most == IF setup.limit = 0 THEN 1 ELSE setup.limit

TypeOK ==
    /\ page \in [Calls ->
         {"idle", "paying", "waiting", "presented", "done", "error"}]
    /\ tx \in [Calls -> {"none", "submitted", "succeeded", "failed"}]
    /\ handler \in [Calls -> Handler]
    /\ effect \in [Calls -> [AllSteps -> Nat]]
    /\ \A s \in DOMAIN windows :
         windows[s] \in [count : 0..Most, start : 0..clock]
    /\ DOMAIN windows \subseteq Sources
    /\ clock \in 0..MaxTime
    /\ setup \in Setups

Init ==
    /\ page = [c \in Calls |-> "idle"]
    /\ tx = [c \in Calls |-> "none"]
    /\ handler = [c \in Calls |->
         [phase |-> "none", step |-> 1, attempt |-> 1, completed |-> {},
          status |-> 0]]
    /\ effect = [c \in Calls |-> [i \in AllSteps |-> 0]]
    /\ windows = [s \in {} |-> 0]
    /\ clock = 0
    /\ setup \in Setups

Unchanged == UNCHANGED <<effect, windows, clock, setup>>

-----------------------------------------------------------------------------
(* The page: handleRun, handleScrape *)

(* The first request is answered with a challenge; the handler behind the  *)
(* extractor does not see it.                                              *)
Ask(c) ==
    /\ page[c] = "idle"
    /\ page' = [page EXCEPT ![c] = "paying"]
    /\ UNCHANGED <<tx, handler>> /\ Unchanged

Pay(c) ==
    /\ page[c] = "paying"
    /\ page' = [page EXCEPT ![c] = "waiting"]
    /\ tx' = [tx EXCEPT ![c] = "submitted"]
    /\ UNCHANGED handler /\ Unchanged

(* The chain (external). *)
Executes(c) ==
    /\ tx[c] = "submitted"
    /\ \E result \in {"succeeded", "failed"} : tx' = [tx EXCEPT ![c] = result]
    /\ UNCHANGED <<page, handler>> /\ Unchanged

(* waitForTransaction returns when there is a result, whichever it is. *)
Present(c) ==
    /\ page[c] = "waiting"
    /\ tx[c] \in {"succeeded", "failed"}
    /\ page' = [page EXCEPT ![c] = "presented"]
    /\ handler' = [handler EXCEPT ![c].phase = "sent"]
    /\ UNCHANGED tx /\ Unchanged

(* The user refuses to pay, or the confirmation does not come in time; the *)
(* hash is forgotten.                                                      *)
GiveUp(c) ==
    /\ page[c] \in {"idle", "paying", "waiting"}
    /\ page' = [page EXCEPT ![c] = "error"]
    /\ UNCHANGED <<tx, handler>> /\ Unchanged

Shown(c) ==
    /\ page[c] = "presented"
    /\ handler[c].phase = "answered"
    /\ page' = [page EXCEPT ![c] = IF handler[c].status = 200 THEN "done" ELSE "error"]
    /\ UNCHANGED <<tx, handler>> /\ Unchanged

(* The connection breaks: the handler is dropped where it waits. *)
Break(c) ==
    /\ page[c] = "presented"
    /\ page' = [page EXCEPT ![c] = "error"]
    /\ handler' = [handler EXCEPT ![c].phase =
         IF @ = "answered" THEN @ ELSE "dropped"]
    /\ UNCHANGED tx /\ Unchanged

-----------------------------------------------------------------------------
(* The rate limiter *)

(* check: the entry of a source is made with the first request, and begins *)
(* again, as used by one, with the first one after it is over.             *)
Entry(s) ==
    IF s \in DOMAIN windows THEN windows[s] ELSE [count |-> 0, start |-> clock]

Over(s) == clock - Entry(s).start > Window

\* Mutant of Within: one request more passes.
WithinOne(s) == Entry(s).count <= setup.limit

Within(s) == Entry(s).count < setup.limit

Passes(s) == Over(s) \/ Within(s)

Stored(s, entry) ==
    windows' = [t \in DOMAIN windows \cup {s} |->
                   IF t = s THEN entry ELSE windows[t]]

Counted(s) ==
    Stored(s, IF Over(s) THEN [count |-> 1, start |-> clock]
              ELSE [Entry(s) EXCEPT !.count = @ + 1])

Refused(s) == Stored(s, Entry(s))

(* cleanup, every five minutes. *)
\* Mutant of Kept: the windows that are used up are removed.
KeptUsable(s) == Within(s)

Kept(s) == clock - windows[s].start <= Window

Cleanup ==
    /\ windows' = [s \in {t \in DOMAIN windows : Kept(t)} |-> windows[s]]
    /\ UNCHANGED <<page, tx, handler, effect, clock, setup>>

Tick ==
    /\ clock < MaxTime
    /\ clock' = clock + 1
    /\ UNCHANGED <<page, tx, handler, effect, windows, setup>>

-----------------------------------------------------------------------------
(* The handlers: run_pipeline, scrape and crawl *)

Answer(c, status) ==
    handler' = [handler EXCEPT ![c].phase = "answered", ![c].status = status]

(* The extractor. *)
\* Mutant of Verified: that there is a transaction is enough.
VerifiedAny(c) == tx[c] # "none"

Verified(c) == tx[c] = "succeeded"

Verify(c) ==
    /\ handler[c].phase = "sent"
    /\ Verified(c)
    /\ handler' = [handler EXCEPT ![c].phase = "verified"]
    /\ UNCHANGED <<page, tx>> /\ Unchanged

(* The transaction failed, or the challenge has expired by now. *)
Reject(c) ==
    /\ handler[c].phase = "sent"
    /\ Answer(c, 402)
    /\ UNCHANGED <<page, tx>> /\ Unchanged

(* The payment has been accepted when the rate limiter is asked, and when  *)
(* the input is validated.                                                 *)
Enter(c) ==
    LET s == setup.source[c] IN
    /\ handler[c].phase = "verified"
    /\ \/ ~Passes(s) /\ Answer(c, 429) /\ Refused(s)
       \/ /\ Passes(s)
          /\ Counted(s)
          /\ IF c \in setup.valid
             THEN handler' = [handler EXCEPT ![c].phase = "running"]
             ELSE Answer(c, 400)
    /\ UNCHANGED <<page, tx, effect, clock, setup>>

(* On to the next step, or to the answer. *)
Moved(h) ==
    IF h.step = Len(setup.plan) THEN [h EXCEPT !.phase = "answered", !.status = 200]
    ELSE [h EXCEPT !.step = @ + 1, !.attempt = 1]

Again(h) == [h EXCEPT !.attempt = @ + 1]

(* retry: until there is a result, or the last attempt has failed.         *)
\* Mutant of Succeeded: the result is not noted.
SucceededUnnoted(h) == Moved(h)

Succeeded(h) == Moved([h EXCEPT !.completed = @ \cup {h.step}])

\* Mutant of Retried: the last attempt is not made.
RetriedLess(h) == h.attempt + 1 < setup.plan[h.step].tries

Retried(h) == h.attempt < setup.plan[h.step].tries

\* Mutant of Failed: a failed search is passed over like the others.
FailedOn(h) == IF Retried(h) THEN Again(h) ELSE Moved(h)

Failed(h) ==
    IF Retried(h) THEN Again(h)
    ELSE IF setup.plan[h.step].required
    THEN [h EXCEPT !.phase = "answered", !.status = 502]
    ELSE Moved(h)

Performed(c) == effect' = [effect EXCEPT ![c][handler[c].step] = @ + 1]

Works(c) ==
    /\ handler[c].phase = "running"
    /\ Performed(c)
    /\ handler' = [handler EXCEPT ![c] = Succeeded(@)]
    /\ UNCHANGED <<page, tx, windows, clock, setup>>

(* The service fails, or has done its work and is not heard. *)
Fails(c) ==
    /\ handler[c].phase = "running"
    /\ UNCHANGED effect \/ Performed(c)
    /\ handler' = [handler EXCEPT ![c] = Failed(@)]
    /\ UNCHANGED <<page, tx, windows, clock, setup>>

-----------------------------------------------------------------------------
Paying(c) == Ask(c) \/ Pay(c) \/ Executes(c) \/ Present(c)

Serving(c) == Verify(c) \/ Enter(c) \/ Works(c) \/ Fails(c) \/ Shown(c)

Next ==
    \/ \E c \in Calls :
         \/ Paying(c) \/ Serving(c) \/ GiveUp(c) \/ Break(c) \/ Reject(c)
    \/ Cleanup \/ Tick

Spec == Init /\ [][Next]_vars
=============================================================================
