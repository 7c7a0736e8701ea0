------------------------------- MODULE Routes -------------------------------
(***************************************************************************)
(* The configuration of accessgate-proxy and what it makes of a request:   *)
(* defaults, normalisation and validation of a loaded file, the route of a *)
(* request, the operation name the policy sees, the key of the rate limit, *)
(* and the request sent upstream.                                          *)
(*                                                                         *)
(* A path is the sequence of its parts between slashes: "/api/x" is        *)
(* <<"", "api", "x">>, "/" is <<"", "">>, "api" is <<"api">>, "" is <<>>.  *)
(* A host is its name, followed by the port if there is one.  The reload   *)
(* interval is in tenths of a second, 0 if it is not set.                  *)
(***************************************************************************)
EXTENDS Naturals, Sequences

Root == <<"", "">>

WithSlash(path) == IF path # <<>> /\ Head(path) # "" THEN <<"">> \o path ELSE path

ApplyProxyDefaults(c) ==
  [c EXCEPT !.prefix   = IF @ = <<>> THEN <<"", "graphql">> ELSE @,
            !.cookie   = IF @ = <<>> THEN <<"__Host-ess_session">> ELSE @,
            !.engine   = IF @ = "" THEN "wasm" ELSE @,
            !.interval = IF @ = 0 THEN 100 ELSE @]

\* The route that stands for the legacy single upstream.
LegacyRoute(c) ==
  [id |-> "default", hosts |-> {}, prefix |-> c.prefix, connector |-> "", upstream |-> c.upstream,
   requireAuth |-> c.requireAuth, mode |-> "api_401", login |-> ""]

NormalizeRoutes(c) ==
  LET given == IF c.routes = <<>> THEN <<LegacyRoute(c)>> ELSE c.routes
  IN  [c EXCEPT !.routes = [i \in DOMAIN given |->
         [given[i] EXCEPT !.prefix = WithSlash(@),
                          !.mode   = IF @ = "" THEN "api_401" ELSE @]]]

\* An upstream is unset, or a URL: its scheme, whether its host is unknown or
\* resolves to a blocked address, and its base path.
NoUpstream == [scheme |-> "", blocked |-> FALSE, path |-> <<>>]

validateUpstreamSSRF(u) == u.scheme \in {"http", "https"} /\ ~u.blocked

ValidRoute(c, rt) ==
  /\ rt.id # "" /\ rt.prefix # <<>> /\ rt.upstream # NoUpstream
  /\ rt.mode \in {"api_401", "html_redirect"}
  /\ rt.mode = "html_redirect" => rt.login # ""
  /\ c.private \/ validateUpstreamSSRF(rt.upstream)

validateRoutes(c) ==
  /\ \A i \in DOMAIN c.routes : ValidRoute(c, c.routes[i])
  /\ \A i, j \in DOMAIN c.routes : c.routes[i].id = c.routes[j].id => i = j

ValidateProxy(c) ==
  /\ c.authURL
  /\ c.engine \in {"", "wasm", "rego"}
  /\ c.interval >= 10
  /\ c.reload => c.bundle
  /\ c.grpc => c.private \/ ~c.grpcBlocked
  /\ validateRoutes(c)

\* config.Load, after the file and the environment were merged.
LoadedProxy(raw) == NormalizeRoutes(ApplyProxyDefaults(raw))

-----------------------------------------------------------------------------
hostMatches(hosts, host) == hosts = {} \/ host \in hosts \/ <<Head(host)>> \in hosts

\* path == prefix || strings.HasPrefix(path, prefix + "/"): whole parts of it.
HasPrefix(path, prefix) == Len(prefix) <= Len(path) /\ SubSeq(path, 1, Len(prefix)) = prefix

pathMatches(path, prefix) == prefix \in {<<>>, Root} \/ HasPrefix(path, prefix)

\* len of a prefix, up to the order among prefixes of one path.
PrefixLen(prefix) == IF prefix = Root THEN 1 ELSE IF prefix = <<>> THEN 0 ELSE 1 + Len(prefix)

\* Mutant: the first match wins.
BugmatchRoute(routes, best, i, host, path) ==
  IF best = 0 /\ hostMatches(routes[i].hosts, host) /\ pathMatches(path, routes[i].prefix)
  THEN i ELSE best

\* One turn of the loop of matchRoute, at route i: what is kept is the index of
\* the first route with the longest prefix so far, 0 as long as none matched.
matchRoute(routes, best, i, host, path) ==
  IF /\ hostMatches(routes[i].hosts, host) /\ pathMatches(path, routes[i].prefix)
     /\ best = 0 \/ PrefixLen(routes[i].prefix) > PrefixLen(routes[best].prefix)
  THEN i ELSE best

\* The cookie a route's resolver reads from the request.
connectorCookieName(c, id) == IF id = "" THEN c.cookie ELSE Append(c.cookie, id)

-----------------------------------------------------------------------------
\* A GraphQL document is the sequence of its lexemes; the parser skips blanks,
\* commas and comments.  Names start with a letter or an underscore.
Significant(doc) == SelectSeq(doc, LAMBDA t : t \notin {" ", ",", "#"})
isName(tok) == tok \notin {"{", "}", "(", ")", ":", "$", "@", "!", "2nd"}
Keyword == {"query", "mutation", "subscription"}

\* The name of the operation a document starts with, "" if it has none or if the
\* document starts with something else, a fragment say.
parseDocument(doc) ==
  LET toks == Significant(doc)
  IN  IF {1, 2} \subseteq DOMAIN toks /\ toks[1] \in Keyword /\ isName(toks[2])
      THEN toks[2] ELSE ""

\* Mutant: operationName is ignored if the body carries a document.
BugGraphQLOperation(header, body) ==
  IF header # "" THEN header ELSE parseDocument(body.doc)

\* NormalizeRequest: the header first, then operationName of a JSON body, then
\* the document, of the body or of its "query" field.  The fields of a JSON body
\* are taken to be spelled as the code spells them.
GraphQLOperation(header, body) ==
  IF header # "" THEN header
  ELSE IF body.json /\ body.operationName # "" THEN body.operationName
  ELSE parseDocument(body.doc)

\* io.ReadAll of a MaxBytesReader: what exceeds the limit is cut off, and the
\* error is dropped.  What is left of a document is its first lexemes, as many
\* as its size counts; what is left of a JSON body does not parse and counts as
\* a document that starts with a brace.
ReadBody(body, max) ==
  IF body.size <= max THEN body
  ELSE [json |-> FALSE, operationName |-> "",
        doc |-> IF body.json THEN <<"{">> ELSE SubSeq(body.doc, 1, max), size |-> max]

\* What a GraphQL server runs at most, by the names of its operations: the one
\* that operationName names, or else the only one.  An operation starts the
\* document or follows the brace that ends another definition; selections are
\* flat.
Operations(toks) ==
  {i \in DOMAIN toks : (i = 1 \/ toks[i - 1] = "}") /\ toks[i] \in Keyword \cup {"{"}}
NameAt(toks, i) ==
  IF toks[i] \in Keyword /\ i + 1 \in DOMAIN toks /\ isName(toks[i + 1]) THEN toks[i + 1] ELSE ""
Runs(body) ==
  LET toks == Significant(body.doc)
      ops  == Operations(toks)
  IN  IF body.json /\ body.operationName # ""
      THEN {NameAt(toks, i) : i \in ops} \cap {body.operationName}
      ELSE {NameAt(toks, i) : i \in {j \in ops : ops = {j}}}

-----------------------------------------------------------------------------
\* deriveKey of the rate limiter: by principal, by a header, or by address,
\* where forwarded addresses count if the connection is from a trusted proxy.
deriveKey(strategy, subject, req) ==
  LET key == CASE strategy = "principal" -> subject
               [] strategy = "header"    -> req.limitHeader
               [] strategy = "ip"        -> IF req.trusted /\ req.forwarded # "" THEN req.forwarded ELSE req.addr
               [] OTHER                  -> ""
  IN  IF key = "" THEN "anonymous" ELSE key

-----------------------------------------------------------------------------

\* The identity header of the request sent upstream: the client's own is
\* dropped, the policy's is set, and the principal's is set over it.
UpstreamIdentity(claimed, policy, subject) ==
  IF subject # "" THEN subject ELSE policy

\* singleJoiningSlash, of two paths.
JoinPath(base, path) ==
  LET a == IF base # <<>> /\ base[Len(base)] = "" THEN SubSeq(base, 1, Len(base) - 1) ELSE base
  IN  IF a \in {<<>>, <<"">>} THEN path ELSE IF path = Root THEN a ELSE a \o Tail(path)

\* The path of the request sent upstream: ProxyToUpstream joins it to the base
\* path of the upstream, and the reverse proxy it hands it to joins once more.
UpstreamPath(base, path) == JoinPath(base, JoinPath(base, path))
=============================================================================
