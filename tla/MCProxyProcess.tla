--------------------------- MODULE MCProxyProcess ---------------------------
(***************************************************************************)
(* Directories of manifests for the start-up, and gRPC calls one at a time.*)
(***************************************************************************)
EXTENDS ProxyProcess

CONSTANT c1
MCCall == {c1}

MCPluginId == {"limit", "oidc", "a", "b", "c"}
MCCapability == {"limit", "oidc", "x", "y"}
MCDesc(id, kind, caps, deps) ==
  [id |-> id, kind |-> kind, caps |-> caps, deps |-> deps, enabled |-> TRUE]
MCBuiltin == <<MCDesc("limit", "pipeline", <<"limit">>, <<>>), MCDesc("oidc", "provider", <<"oidc">>, <<>>)>>

MCManifest(id, caps, deps) ==
  [json |-> TRUE, parses |-> TRUE, enabled |-> TRUE, id |-> id, kind |-> "integration",
   caps |-> caps, deps |-> deps, signature |-> "good"]
A == MCManifest("a", <<"x", "y">>, <<"limit">>)
B == MCManifest("b", <<"x">>, <<"y", "y">>)
C == MCManifest("c", <<"y">>, <<"x">>)
MCDir ==
  { <<A, [B EXCEPT !.enabled = FALSE]>>,                  \* ordered
    <<A, [B EXCEPT !.deps = <<"x">>]>>,                   \* b provides what it needs
    <<A, B, C>>,                                          \* b and c wait for each other
    <<B>>,                                                \* nothing provides y
    <<[A EXCEPT !.json = FALSE], C, A>>,                  \* not a manifest; missing, then provided
    <<A, [B EXCEPT !.signature = "missing"], C>>,
    <<A, [B EXCEPT !.signature = "wrong"]>>,
    <<[A EXCEPT !.id = "limit"], B>>,                     \* an id that is taken
    <<A, [B EXCEPT !.caps = <<"">>], C>>,
    <<[C EXCEPT !.deps = <<"oidc", "x">>], A, [B EXCEPT !.deps = <<>>]>> }
\* An entry of pipeline_plugins; proxies: every trusted_proxies entry parses.
MCEntry(id) ==
  [id |-> id, raw |-> [perMinute |-> 60, burst |-> 5, strategy |-> "ip", header |-> "", proxies |-> TRUE]]
MCPlain ==
  [hasDir |-> FALSE, dir |-> <<>>, strict |-> FALSE, key |-> "none", policy |-> TRUE,
   pipeline |-> <<MCEntry("limit"), MCEntry("")>>, grpc |-> FALSE, upstream |-> FALSE]
MCSetup ==
  { [MCPlain EXCEPT !.hasDir = TRUE, !.dir = d, !.strict = s, !.key = k] :
      d \in MCDir, s \in BOOLEAN, k \in {"none", "set"} }
  \cup { [MCPlain EXCEPT !.hasDir = TRUE, !.key = "unreadable"],
         [MCPlain EXCEPT !.policy = FALSE], [MCPlain EXCEPT !.pipeline = <<MCEntry("b")>>],
         [MCPlain EXCEPT !.pipeline = <<MCEntry("oidc")>>],
         [MCPlain EXCEPT !.pipeline[1].raw.burst = 0],
         [MCPlain EXCEPT !.pipeline[1].raw.strategy = "header"],
         [MCPlain EXCEPT !.hasDir = TRUE, !.dir = <<A>>, !.pipeline = <<MCEntry("a")>>],
         [MCPlain EXCEPT !.grpc = TRUE, !.upstream = TRUE], [MCPlain EXCEPT !.grpc = TRUE] }
=============================================================================
