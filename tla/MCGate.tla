------------------------------- MODULE MCGate -------------------------------
(***************************************************************************)
(* The proxy with three requests at once, four routes and two connectors.  *)
(***************************************************************************)
EXTENDS Gate, TLC

CONSTANTS r1, r2, r3
MCCaller == {r1, r2, r3}
Symmetry == Permutations(MCCaller)

MCUrlSafe == {"staff", "partner"}
MCConn(id, dflt) ==
  [id |-> id, dflt |-> dflt, oidc |-> TRUE, prefix |-> <<>>, cookie |-> <<>>,
   idClaim |-> "", idKind |-> ""]
MCAuthCfg ==
  [redisURL |-> TRUE, appBaseURL |-> TRUE, secret |-> "k1", prefix |-> <<>>, cookie |-> <<>>,
   oidc |-> FALSE, conns |-> <<MCConn("staff", TRUE), MCConn("partner", FALSE)>>]

MCUp(scheme, path) == [scheme |-> scheme, blocked |-> FALSE, path |-> path]
MCRoute(id, prefix, connector) ==
  [id |-> id, hosts |-> {}, prefix |-> prefix, connector |-> connector,
   upstream |-> MCUp("http", <<>>), requireAuth |-> TRUE, mode |-> "", login |-> ""]
MCFile(routes) ==
  [authURL |-> TRUE, engine |-> "", interval |-> 0, reload |-> FALSE, bundle |-> FALSE,
   grpc |-> FALSE, grpcBlocked |-> FALSE, private |-> FALSE, prefix |-> <<>>, cookie |-> <<>>,
   upstream |-> NoUpstream, requireAuth |-> FALSE, routes |-> routes]

MCRaw ==
  [ legacy |-> [MCFile(<<>>) EXCEPT !.prefix = <<"api">>, !.upstream = MCUp("ftp", <<>>), !.private = TRUE],
    multi  |-> MCFile(
      << [MCRoute("all", Root, "") EXCEPT !.requireAuth = FALSE, !.upstream = MCUp("http", <<"", "base">>)],
         MCRoute("api", <<"api">>, ""),
         [MCRoute("host", <<"", "api">>, "") EXCEPT !.hosts = {<<"b">>}],
         [MCRoute("admin", <<"", "api", "admin">>, "partner") EXCEPT !.mode = "html_redirect", !.login = "/login"] >>),
    blocked |-> [MCFile(<<>>) EXCEPT !.upstream = [MCUp("http", <<>>) EXCEPT !.blocked = TRUE]],
    nologin |-> MCFile(<<[MCRoute("a", Root, "") EXCEPT !.mode = "html_redirect"]>>),
    twice   |-> MCFile(<<MCRoute("a", Root, ""), MCRoute("a", Root, "")>>) ]
MCFiles == DOMAIN MCRaw

MCSession ==
  { [id |-> "s1", connector |-> "staff", subject |-> "ann"],
    [id |-> "s2", connector |-> "partner", subject |-> "bob"] }
MCLegacyCookie == [name |-> <<"__Host-ess_session">>, value |-> "s1"]
MCPartnerCookie == [name |-> <<"__Host-ess_session", "partner">>, value |-> "s2"]

\* A document's size counts its lexemes; an envelope adds to it.
MCDoc(doc) == [json |-> FALSE, operationName |-> "", doc |-> doc, size |-> Len(doc)]
MCEnvelope(name, doc, size) == [json |-> TRUE, operationName |-> name, doc |-> doc, size |-> size]
MCGet == MCDoc(<<"#", "query", " ", "Get", "{", "}">>)
MCGetPut == <<"query", "Get", "{", "}", "mutation", "Put", "{", "}">>
MCLong == MCDoc(MCGetPut)                                  \* Put is cut off
MCNamed == MCEnvelope("Put", MCGetPut, 5)
MCUnnamed == MCEnvelope("", <<"query", "Get", "(", ")", "{", "}">>, 6)
MCFragment == MCDoc(<<"fragment", "{", "}", "mutation", "Put", "{">>)
MCPut == MCEnvelope("", <<"mutation", "Put", "{", "}">>, 7)  \* over the limit

MCInputs ==
  LET In == [host |-> <<"a">>, path |-> <<"", "api", "x">>, cookies |-> {MCLegacyCookie},
             opHeader |-> "", body |-> MCGet, identity |-> "eve",
             limitHeader |-> "", trusted |-> FALSE, forwarded |-> "", addr |-> "ip1"]
  IN { In,
       [In EXCEPT !.host = <<"b", "8080">>, !.body = MCNamed],
       [In EXCEPT !.path = <<"", "apix">>, !.cookies = {}, !.body = MCLong],
       [In EXCEPT !.path = <<"", "api", "admin", "u">>, !.cookies = {MCPartnerCookie}, !.body = MCUnnamed],
       [In EXCEPT !.body = MCFragment],
       [In EXCEPT !.body = MCPut, !.opHeader = "Get", !.cookies = {MCPartnerCookie}] }

MCDecision ==
  { [allow |-> TRUE, status |-> 200, err |-> FALSE, identity |-> "policy"],
    [allow |-> TRUE, status |-> 200, err |-> FALSE, identity |-> ""],
    [allow |-> FALSE, status |-> 403, err |-> FALSE, identity |-> ""],
    [allow |-> FALSE, status |-> 0, err |-> FALSE, identity |-> ""],
    [allow |-> FALSE, status |-> 0, err |-> TRUE, identity |-> ""] }
MCAllowed == {"Get"}
MCKey == {"ann", "bob", "anonymous"}
=============================================================================
