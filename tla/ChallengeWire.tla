----------------------------- MODULE ChallengeWire -----------------------------
(***************************************************************************)
(* One challenge from the server that makes it, through the header or the  *)
(* MCP error that carries it, to the client and back as the echo of a      *)
(* credential.  Texts are sequences of symbols: a symbol is a character    *)
(* that the header gives a meaning, or a whole word.  What is optional is  *)
(* a sequence of at most one text.  The client is the one in Rust or the   *)
(* one in TypeScript; the server is in Rust.                               *)
(***************************************************************************)
EXTENDS Naturals, SequencesExt

CONSTANTS
    Servers,        \* [secret |-> symbol, realm |-> text]
    Requests,       \* encoded requests: symbols
    ChargeOf,       \* the amount, currency and recipient of each
    Symbols,        \* of the descriptions
    MaxSymbols,     \* length of a description
    Lifetime,       \* DEFAULT_EXPIRES_MINUTES
    MaxTime         \* of the clock

VARIABLES
    clock,
    phase,          \* how far the exchange is
    maker,          \* the server that made the challenge
    challenge,      \* the challenge it made, if any
    answer,         \* the answer that carried it
    read,           \* the challenge the client has, if any
    verdict         \* what a server says of its credential, if any

vars == <<clock, phase, maker, challenge, answer, read, verdict>>

None == << >>
Some(x) == <<x>>

Texts == UNION {[1..n -> Symbols] : n \in 0..MaxSymbols}

(* Characters no header value may have, and those it may have that are not *)
(* visible ASCII.                                                          *)
LineBreak == "CR"
Control == {LineBreak, "BEL"}
Foreign == {"e'"}

Quote == "'"
Backslash == "/"

(* What the operator configures and the encoded requests are visible       *)
(* ASCII, a request without the mark between fields; a realm is a text and *)
(* not empty; and an HMAC, for which the secret stands, is visible.        *)
WireAssumption ==
    /\ \A s \in Servers :
         /\ s = [secret |-> s.secret, realm |-> s.realm]
         /\ s.secret \notin Control \union Foreign
         /\ s.realm \in Seq(ToSet(s.realm)) /\ s.realm # << >>
         /\ ToSet(s.realm) \cap Foreign = {}
    /\ Requests \cap ({"|"} \union Control \union Foreign) = {}
    /\ MaxSymbols \in Nat /\ Lifetime \in Nat /\ MaxTime \in Nat

-----------------------------------------------------------------------------
(* Making a challenge *)

(* Times of different length; "soon" is none.                              *)
Moment(t) == [k \in 1..(t + 1) |-> "minute"]
Moments == {Moment(t) : t \in 0..(MaxTime + Lifetime)}

Given(option) == IF option = None THEN << >> ELSE option[1]

(* The input of the HMAC.  Every field is there, the empty text for none.  *)
Joined(c) ==
    c.realm \o <<"|">> \o c.method \o <<"|">> \o c.intent \o <<"|">> \o c.request
        \o <<"|">> \o Given(c.expires) \o <<"|">> \o Given(c.digest)
        \o <<"|">> \o Given(c.opaque)

(* An HMAC is the same only for the same secret and input, and so it is    *)
(* taken for these.                                                        *)
\* Mutant of ComputeChallengeId: without the realm.
ComputeChallengeIdAnywhere(secret, realm, c) ==
    <<secret>> \o Joined([c EXCEPT !.realm = << >>])

ComputeChallengeId(secret, realm, c) ==
    <<secret>> \o Joined([c EXCEPT !.realm = realm])

(* The HMAC's input is made of the fields given to the constructor; those  *)
(* that are set afterwards are not in it.                                  *)
WithId(s, c, bound) ==
    [c EXCEPT !.id = ComputeChallengeId(s.secret, s.realm, bound)]

Bare(s, intent, request) ==
    [id |-> << >>, realm |-> s.realm, method |-> <<"movement">>,
     intent |-> <<intent>>, request |-> <<request>>, expires |-> None,
     description |-> None, digest |-> None, opaque |-> None]

(* charge_challenge_with_options and movement_session_challenge: an expiry *)
(* of their own unless one is given.                                       *)
Offered(s, intent, request, expires, description) ==
    LET c == [Bare(s, intent, request) EXCEPT
                 !.expires = IF expires = None
                             THEN Some(Moment(clock + Lifetime)) ELSE expires,
                 !.description = description]
    IN  WithId(s, c, c)

(* with_secret_key_full, and with_secret_key with the setters after it.    *)
Full(s, request, expires, digest, opaque) ==
    LET c == [Bare(s, "charge", request) EXCEPT
                 !.expires = expires, !.digest = digest, !.opaque = opaque]
    IN  WithId(s, c, c)

SetAfterwards(s, request, expires, digest, opaque) ==
    LET bare == Bare(s, "charge", request)
    IN  WithId(s, [bare EXCEPT !.expires = expires, !.digest = digest,
                               !.opaque = opaque], bare)

-----------------------------------------------------------------------------
(* The WWW-Authenticate header *)

(* What a symbol adds to a text: itself, or what the code has for it.      *)
Onto(text, c, code) == text \o (IF c \in DOMAIN code THEN code[c] ELSE <<c>>)

Written(text, code) ==
    LET upTo[k \in 0..Len(text)] ==
          IF k = 0 THEN << >> ELSE Onto(upTo[k - 1], text[k], code)
    IN  upTo[Len(text)]

\* Mutant of Escape: only the quotes.
EscapeQuotes(text) == Written(text, [c \in {Quote} |-> <<Backslash, c>>])

Escape(text) == Written(text, [c \in {Quote, Backslash} |-> <<Backslash, c>>])

Param(key, text) == <<key, "=", Quote>> \o Escape(text) \o <<Quote>>

Following(key, text) == <<",", " ">> \o Param(key, text)

\* Mutant of Optional: what is absent is written as empty.
OptionalEmpty(key, option) == Following(key, Given(option))

Optional(key, option) == IF option = None THEN << >> ELSE Following(key, option[1])

ParamsOf(c) ==
    Param("id", c.id) \o Following("realm", c.realm)
        \o Following("method", c.method) \o Following("intent", c.intent)
        \o Following("request", c.request) \o Optional("expires", c.expires)
        \o Optional("description", c.description) \o Optional("digest", c.digest)
        \o Optional("opaque", c.opaque)

FormatWwwAuthenticate(c) == <<"Payment", " ">> \o ParamsOf(c)

(* escape_quoted_value refuses a line break and the header value any other *)
(* control character, in which case the bare scheme is sent.               *)
Send(c) ==
    LET header == FormatWwwAuthenticate(c)
    IN  IF LineBreak \in ToSet(header) THEN [by |-> "error", header |-> << >>]
        ELSE IF ToSet(header) \cap Control # {}
             THEN [by |-> "header", header |-> <<"Payment">>]
             ELSE [by |-> "header", header |-> header]

Separators == {" ", ","}

(* parse_auth_params looks at one character after another: where it is,    *)
(* what it has of a key and of a value, the pairs it found, and whether a  *)
(* key came twice, which is an error.                                      *)
Reading ==
    [at |-> "between", key |-> << >>, value |-> << >>, pairs |-> {}, twice |-> FALSE]

Inserted(r, value) ==
    [at |-> "between", key |-> r.key, value |-> value,
     pairs |-> r.pairs \union {<<r.key, value>>},
     twice |-> r.twice \/ \E p \in r.pairs : p[1] = r.key]

Scanned(r, c) ==
    CASE r.at = "between" ->
           IF c \in Separators THEN r
           ELSE IF c = "=" THEN [r EXCEPT !.at = "equals", !.key = << >>]
           ELSE [r EXCEPT !.at = "key", !.key = <<c>>]
      [] r.at = "key" ->
           IF c = "=" THEN [r EXCEPT !.at = "equals"]
           ELSE IF c = " " THEN [r EXCEPT !.at = "between"]
           ELSE [r EXCEPT !.key = @ \o <<c>>]
      [] r.at = "equals" ->
           IF c = Quote THEN [r EXCEPT !.at = "quoted", !.value = << >>]
           ELSE IF c \in Separators THEN Inserted(r, << >>)
           ELSE [r EXCEPT !.at = "plain", !.value = <<c>>]
      [] r.at = "quoted" ->
           IF c = Quote THEN Inserted(r, r.value)
           ELSE IF c = Backslash THEN [r EXCEPT !.at = "escaped"]
           ELSE [r EXCEPT !.value = @ \o <<c>>]
      [] r.at = "escaped" -> [r EXCEPT !.at = "quoted", !.value = @ \o <<c>>]
      [] r.at = "plain" ->
           IF c \in Separators THEN Inserted(r, r.value)
           ELSE [r EXCEPT !.value = @ \o <<c>>]

(* Where the text ends, so does a value.                                   *)
Ended(r) ==
    CASE r.at \in {"quoted", "plain"} -> Inserted(r, r.value)
      [] r.at = "escaped" -> Inserted(r, r.value \o <<Backslash>>)
      [] OTHER -> r

ScannedOn(r, text) ==
    LET after[k \in 0..Len(text)] ==
          IF k = 0 THEN r ELSE Scanned(after[k - 1], text[k])
    IN  after[Len(text)]

AuthParams(text) == Ended(ScannedOn(Reading, text))

ValueOf(pairs, key) ==
    LET found == {p \in pairs : p[1] = <<key>>}
    IN  IF found = {} THEN None ELSE Some((CHOOSE p \in found : TRUE)[2])

ValidDigest(text) == text # << >> /\ text[1] = "sha-256="

RequiredKeys == {"id", "realm", "method", "intent", "request"}

(* The fields of a header, or nothing where a key occurs twice or one is   *)
(* missing.                                                                *)
Fields(header) ==
    LET params == AuthParams(SubSeq(header, 3, Len(header)))
        Field(key) == ValueOf(params.pairs, key)
    IN  IF \/ Len(header) < 2 \/ params.twice
           \/ \E key \in RequiredKeys : Field(key) = None
        THEN None
        ELSE Some([id |-> Field("id")[1], realm |-> Field("realm")[1],
                   method |-> Field("method")[1], intent |-> Field("intent")[1],
                   request |-> Field("request")[1], expires |-> Field("expires"),
                   description |-> Field("description"),
                   digest |-> Field("digest"), opaque |-> Field("opaque")])

(* parse_www_authenticate, of a header that to_str could read.             *)
ParseWwwAuthenticate(header) ==
    LET fields == Fields(header)
        valid == \A c \in ToSet(fields) :
                     /\ c.id # << >> /\ c.method # << >>
                     /\ c.digest # None => ValidDigest(c.digest[1])
    IN  IF ToSet(header) \cap Foreign = {} /\ valid THEN fields ELSE None

(* parseWwwAuthenticate of TypeScript, of a header whose bytes fetch has   *)
(* read one by one: what is empty is not there.                            *)
Bytewise(text) == Written(text, [c \in Foreign |-> <<"A~", "(c)">>])

Present(option) == IF option = Some(<< >>) THEN None ELSE option

Nonempty(c) ==
    [c EXCEPT !.expires = Present(@), !.description = Present(@),
              !.digest = Present(@), !.opaque = Present(@)]

ParseInBrowser(header) ==
    LET fields == Fields(Bytewise(header))
        valid == \A c \in ToSet(fields) :
                     /\ << >> \notin {c.id, c.realm, c.method, c.intent, c.request}
                     /\ Present(c.digest) # None => ValidDigest(c.digest[1])
    IN  IF fields # None /\ valid THEN Some(Nonempty(fields[1])) ELSE None

-----------------------------------------------------------------------------
(* The credential and its verification *)

(* to_echo: everything but the description.                                *)
Echo(c) ==
    [id |-> c.id, realm |-> c.realm, method |-> c.method, intent |-> c.intent,
     request |-> c.request, expires |-> c.expires, digest |-> c.digest,
     opaque |-> c.opaque]

(* A time that cannot be read has passed.                                  *)
ExpiredAt(now, expires) ==
    /\ expires # None
    /\ \A t \in 0..(MaxTime + Lifetime) : expires[1] = Moment(t) => t <= now

IsExpired(expires) == ExpiredAt(clock, expires)

(* verify_hmac_and_expiry: with the realm of the server.                   *)
Checked(s, echo) ==
    IF echo.id # ComputeChallengeId(s.secret, s.realm, echo) THEN "mismatch"
    ELSE IF IsExpired(echo.expires) THEN "expired"
    ELSE "accepted"

\* Mutant of Verified: the request of the endpoint is not looked at.
VerifiedAny(s, echo, expected) == Checked(s, echo)

SameCharge(request, other) == ChargeOf[request[1]] = ChargeOf[other[1]]

(* verify_credential takes the request of the credential for what is to be *)
(* paid; verify_credential_with_expected_request compares its amount,      *)
(* currency and recipient first, and nothing else of it.                   *)
Verified(s, echo, expected) ==
    IF expected # None /\ ~SameCharge(echo.request, expected[1]) THEN "other request"
    ELSE Checked(s, echo)

(* PaymentChallenge::verify, with the realm of the challenge.              *)
VerifyChallenge(secret, c) == c.id = ComputeChallengeId(secret, c.realm, c)

\* Mutant of ValidFor: whenever.
ValidForEver(intent, c) == c.method = <<"movement">> /\ c.intent = <<intent>>

(* validate_for_charge and validate_for_session.                           *)
ValidFor(intent, c) ==
    c.method = <<"movement">> /\ c.intent = <<intent>> /\ ~IsExpired(c.expires)

-----------------------------------------------------------------------------
Init ==
    /\ clock = 0
    /\ phase = "start"
    /\ maker \in Servers
    /\ challenge = None
    /\ answer = [by |-> "none", header |-> << >>]
    /\ read = None
    /\ verdict = None

(* The fields that are combined: texts with an offer, the other options    *)
(* with the constructors that take them.                                   *)
Expiries == {None, Some(Moment(1)), Some(Moment(2)), Some(<<"soon">>)}
Digests == {None, Some(<<"sha-256=", "d">>), Some(<<"d">>)}
Opaques == {None, Some(<<"o">>)}

Make ==
    /\ phase = "start"
    /\ \E request \in Requests :
          \/ \E intent \in {"charge", "session"}, expires \in Expiries :
                challenge' = Some(Offered(maker, intent, request, expires, None))
          \/ \E text \in Texts :
                challenge' = Some(Offered(maker, "charge", request, None, Some(text)))
          \/ \E expires \in Expiries, digest \in Digests, opaque \in Opaques :
                \/ challenge' = Some(Full(maker, request, expires, digest, opaque))
                \/ challenge' =
                      Some(SetAfterwards(maker, request, expires, digest, opaque))
    /\ phase' = "made"
    /\ UNCHANGED <<clock, maker, answer, read, verdict>>

(* A 402, or the error of the MCP binding, which carries the JSON.         *)
Respond ==
    /\ phase = "made"
    /\ answer' \in {Send(challenge[1]), [by |-> "mcp", header |-> << >>]}
    /\ phase' = "answered"
    /\ UNCHANGED <<clock, maker, challenge, read, verdict>>

Read ==
    /\ phase = "answered"
    /\ read' \in CASE answer.by = "error" -> {None}
                   [] answer.by = "mcp" -> {challenge}
                   [] answer.by = "header" ->
                        {ParseWwwAuthenticate(answer.header),
                         ParseInBrowser(answer.header)}
    /\ phase' = "read"
    /\ UNCHANGED <<clock, maker, challenge, answer, verdict>>

(* The credential is verified by one of the servers, for a request of      *)
(* theirs or for any.                                                      *)
Verify(s, expected) ==
    /\ phase = "read" /\ read # None
    /\ verdict' = Some([by |-> s, expected |-> expected, at |-> clock,
                        says |-> Verified(s, Echo(read[1]), expected)])
    /\ phase' = "verified"
    /\ UNCHANGED <<clock, maker, challenge, answer, read>>

Tick ==
    /\ clock < MaxTime
    /\ clock' = clock + 1
    /\ UNCHANGED <<phase, maker, challenge, answer, read, verdict>>

Expectations == {None} \union {Some(<<r>>) : r \in Requests}

Next ==
    \/ Make \/ Respond \/ Read \/ Tick
    \/ \E s \in Servers, expected \in Expectations : Verify(s, expected)

Spec == Init /\ [][Next]_vars

-----------------------------------------------------------------------------
(* Properties *)

(* What the client reads is what the server made, whatever quotes, commas  *)
(* and equal signs its texts have; only a description may be empty rather  *)
(* than absent, and in a browser other than it was if it is not ASCII.     *)
ReadIsMade ==
    read # None =>
        /\ [read[1] EXCEPT !.description = None]
               = [challenge[1] EXCEPT !.description = None]
        /\ Given(read[1].description) \in
              {Given(challenge[1].description),
               Bytewise(Given(challenge[1].description))}

(* Only a text outside of visible ASCII or a malformed digest can make a   *)
(* challenge unreadable.                                                   *)
UnreadableHasReason ==
    phase = "read" /\ read = None =>
        LET c == challenge[1]
            texts == ToSet(c.realm) \union ToSet(Given(c.description))
        IN  \/ texts \cap (Control \union Foreign) # {}
            \/ c.digest # None /\ ~ValidDigest(c.digest[1])

(* The server that made a challenge, and none with another secret or       *)
(* realm, takes it back for its own: what the echo drops is not in the id, *)
(* and the fields that are in it do not run into each other.  The          *)
(* exception is a field that was set after the id was made.                *)
BoundToMaker ==
    read # None =>
        \A s \in Servers :
            Checked(s, Echo(read[1])) # "mismatch" <=>
                s = maker /\ VerifyChallenge(maker.secret, challenge[1])

(* The client's own checks agree with the server's: a challenge it finds   *)
(* valid is not refused at that time by its maker, and one it finds        *)
(* expired is.                                                             *)
BothEndsAgree ==
    read # None /\ VerifyChallenge(maker.secret, read[1]) =>
        (\E intent \in {"charge", "session"} : ValidFor(intent, read[1])) <=>
            Checked(maker, Echo(read[1])) = "accepted"

(* A credential is accepted only by the maker of its challenge, before     *)
(* that expires, and for the charge it was made for, where the endpoint    *)
(* says which request it expects; a description, a split or any other      *)
(* detail of the request may differ.                                       *)
AcceptedAsMade ==
    \A v \in ToSet(verdict) : v.says = "accepted" =>
        /\ v.by = maker
        /\ ~ExpiredAt(v.at, challenge[1].expires)
        /\ v.expected # None => SameCharge(challenge[1].request, v.expected[1])
=============================================================================
