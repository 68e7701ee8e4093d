------------------------------ MODULE ProxyRoutes ------------------------------
(***************************************************************************)
(* The reverse proxy: which service and route a request belongs to, and    *)
(* which requests ask what there is.  A path is a sequence of characters,  *)
(* a pattern of a route a sequence of segments.                            *)
(***************************************************************************)
EXTENDS Naturals, SequencesExt

CONSTANTS
    Configs,        \* proxies: [base |-> optional text, services |-> <<...>>]
    Methods,        \* methods of the requests
    Characters,     \* of the paths, the slash among them
    MaxLength       \* characters of a path

VARIABLES
    config, method, path,   \* the request
    answered,
    found,                  \* what match_route says
    discovered              \* what handle_discovery says

vars == <<config, method, path, answered, found, discovered>>

(* What may be absent is a sequence of at most one element.                *)
None == << >>
Some(x) == <<x>>

Slash == "/"

Paths == UNION {[1..n -> Characters] : n \in 0..MaxLength}

ProxyAssumption ==
    /\ MaxLength \in Nat
    /\ \A c \in Configs :
          /\ c.base \in Seq(Seq(Characters)) /\ Len(c.base) <= 1
          /\ c.services \in Seq(ToSet(c.services))
          /\ \A s \in ToSet(c.services) : s.routes \in Seq(ToSet(s.routes))

-----------------------------------------------------------------------------
(* Paths and patterns *)

(* The pieces so far, and the next character. *)
Piece(text, k, pieces) ==
    IF text[k] = Slash THEN pieces
    ELSE IF k = 1 \/ text[k - 1] = Slash THEN Append(pieces, <<text[k]>>)
    ELSE [pieces EXCEPT ![Len(pieces)] = Append(@, text[k])]

(* The nonempty pieces between the slashes. *)
Segments(text) ==
    LET pieces[k \in 0..Len(text)] ==
          IF k = 0 THEN << >> ELSE Piece(text, k, pieces[k - 1])
    IN  pieces[Len(text)]

TrimSlashes(text) ==
    LET kept == {k \in DOMAIN text : text[k] # Slash}
    IN  IF kept = {} THEN << >>
        ELSE SubSeq(text, 1, CHOOSE k \in kept : \A j \in kept : j <= k)

(* A segment that begins with a colon matches any. *)
PathMatches(pattern, segments) ==
    /\ Len(pattern) = Len(segments)
    /\ \A k \in DOMAIN pattern :
           Head(pattern[k]) = ":" \/ pattern[k] = segments[k]

Admits(route, m) == route.method \in {"any", m}

-----------------------------------------------------------------------------
FirstOf(seq, Test(_)) ==
    LET k == SelectInSeq(seq, Test) IN IF k = 0 THEN None ELSE Some(seq[k])

\* Mutant of Stripped: the base is dropped by its length.
StrippedAny(proxy, text) ==
    IF proxy.base = None THEN text
    ELSE SubSeq(text, Len(proxy.base[1]) + 1, Len(text))

(* The path behind the base; nothing for a path that does not start with   *)
(* it.  The base may end within a segment of the path.                     *)
Stripped(proxy, text) ==
    IF proxy.base = None THEN text
    ELSE LET base == TrimSlashes(proxy.base[1])
         IN  IF IsPrefix(base, text)
             THEN SubSeq(text, Len(base) + 1, Len(text)) ELSE << >>

\* Mutant of RouteOf: every method falls back.
RouteOfLenient(service, m, rest) ==
    LET admitted == FirstOf(service.routes,
                            LAMBDA r : Admits(r, m) /\ PathMatches(r.path, rest))
    IN  IF admitted # None THEN admitted
        ELSE FirstOf(service.routes, LAMBDA r : PathMatches(r.path, rest))

(* A POST that no route admits falls back to the path alone. *)
RouteOf(service, m, rest) ==
    LET admitted == FirstOf(service.routes,
                            LAMBDA r : Admits(r, m) /\ PathMatches(r.path, rest))
    IN  IF admitted = None /\ m = "POST"
        THEN FirstOf(service.routes, LAMBDA r : PathMatches(r.path, rest))
        ELSE admitted

ServiceOf(proxy, id) == FirstOf(proxy.services, LAMBDA s : s.id = id)

MatchRoute(proxy, m, text) ==
    IF Segments(Stripped(proxy, text)) = << >> THEN None
    ELSE LET segments == Segments(Stripped(proxy, text))
             service == ServiceOf(proxy, Head(segments))
             route == IF service = None THEN None
                      ELSE RouteOf(service[1], m, Tail(segments))
         IN  IF route = None THEN None
             ELSE Some([service |-> service[1], route |-> route[1],
                        upstream |-> Tail(segments)])

\* Mutant of Discovery: any path that ends with a service describes it.
DiscoveryDeep(proxy, m, text) ==
    LET segments == Segments(Stripped(proxy, text))
    IN  IF m # "GET" \/ segments = << >> THEN None
        ELSE ServiceOf(proxy, Last(segments))

(* GET /services and GET /services/{id}; the characters s and l stand for  *)
(* the words "services" and "llms.txt".                                    *)
Discovery(proxy, m, text) ==
    LET rest == Stripped(proxy, text)
        id == TrimSlashes(SubSeq(rest, 4, Len(rest)))
    IN  IF m # "GET" THEN None
        ELSE IF rest = <<Slash, "l">> THEN Some("llms.txt")
        ELSE IF rest \in {<<Slash, "s">>, <<Slash, "s", Slash>>}
             THEN Some("services")
        ELSE IF /\ IsPrefix(<<Slash, "s", Slash>>, rest)
                /\ id # << >> /\ \A k \in DOMAIN id : id[k] # Slash
             THEN ServiceOf(proxy, id)
        ELSE None

-----------------------------------------------------------------------------
Init ==
    /\ config \in Configs
    /\ method \in Methods
    /\ path \in Paths
    /\ answered = FALSE
    /\ found = None
    /\ discovered = None

Look ==
    /\ ~answered
    /\ answered' = TRUE
    /\ found' = MatchRoute(config, method, path)
    /\ discovered' = Discovery(config, method, path)
    /\ UNCHANGED <<config, method, path>>

Next == Look

Spec == Init /\ [][Next]_vars

-----------------------------------------------------------------------------
(* Properties *)

Base == IF config.base = None THEN << >> ELSE Segments(config.base[1])

Below == IsPrefix(Base, Segments(path))

Rest == SubSeq(Segments(path), Len(Base) + 1, Len(Segments(path)))

(* A request below the base goes to the service its first segment names,   *)
(* with what follows as the upstream path; the route fits that path, and   *)
(* admits the method unless the request is a POST that no route admits.    *)
RoutedAsAddressed ==
    \A f \in ToSet(found) : Below =>
        /\ Rest # << >> /\ Head(Rest) = f.service.id
        /\ f.upstream = Tail(Rest)
        /\ PathMatches(f.route.path, Tail(Rest))
        /\ \/ Admits(f.route, method)
           \/ method = "POST" /\ \A k \in DOMAIN f.service.routes :
                 LET r == f.service.routes[k]
                 IN  PathMatches(r.path, Tail(Rest)) => ~Admits(r, method)

(* A path beside the base is refused, but for one case: the base ends      *)
(* within a segment of the path, whose remainder then names the service.   *)
OthersAreRefused ==
    \A f \in ToSet(found) : ~Below =>
        LET k == Len(Base)
        IN  /\ k > 0 /\ Len(Segments(path)) >= k
            /\ SubSeq(Segments(path), 1, k - 1) = SubSeq(Base, 1, k - 1)
            /\ Segments(path)[k] = Base[k] \o f.service.id

(* A question about the services never hides a route, unless a service is  *)
(* named like the question.                                                *)
DiscoveryIsApart ==
    \A f \in ToSet(found) : discovered # None => f.service.id \in {<<"s">>, <<"l">>}
=============================================================================
