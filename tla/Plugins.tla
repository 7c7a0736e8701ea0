------------------------------ MODULE Plugins ------------------------------
(***************************************************************************)
(* Start-up of accessgate-proxy up to its handler: the built-in plugins    *)
(* are registered, the manifests of a directory are discovered, validated  *)
(* and verified, their dependencies are ordered by Kahn's algorithm, and   *)
(* the pipeline is built.  Go ranges over maps in any order, so the edges  *)
(* of the graph and the first queue come in any order.                     *)
(***************************************************************************)
EXTENDS Integers, FiniteSets, Sequences, Functions

CONSTANTS
  Setup,       \* configurations of the process, see SetupOK
  PluginId, Capability,
  Builtin      \* the descriptors compiled in, a sequence

\* A file of the manifest directory and a configuration.  "" is a blank field.
FileOK(f) ==
  /\ f.json \in BOOLEAN /\ f.parses \in BOOLEAN /\ f.enabled \in BOOLEAN
  /\ f.id \in PluginId \cup {""} /\ f.kind \in STRING
  /\ f.caps \in Seq(Capability \cup {""}) /\ f.deps \in Seq(Capability \cup {""})
  /\ f.signature \in {"missing", "wrong", "good"}
SetupOK(s) ==
  /\ s.hasDir \in BOOLEAN /\ s.strict \in BOOLEAN
  /\ s.key \in {"none", "unreadable", "set"}
  /\ s.dir \in Seq(Range(s.dir)) /\ \A i \in DOMAIN s.dir : FileOK(s.dir[i])
  /\ s.policy \in BOOLEAN
  /\ \A i \in DOMAIN s.pipeline : s.pipeline[i].id \in PluginId \cup {""}

ASSUME PluginsAssumption ==
  /\ \A s \in Setup : SetupOK(s)
  /\ Builtin \in Seq(Range(Builtin))
  /\ \A i \in DOMAIN Builtin : /\ Builtin[i].id \in PluginId /\ Builtin[i].caps \in Seq(Capability)
                              /\ Builtin[i].deps \in Seq(Capability)
  /\ \A i, j \in DOMAIN Builtin : Builtin[i].id = Builtin[j].id => i = j

VARIABLES
  setup,       \* the configuration in force
  boot,        \* where start-up stands
  graph,       \* BuildDependencyGraph's result: "none", "ok", "missing", "cycle"
  file,        \* index of the manifest the walk is at
  byID, byCapability, dependencies, dependents, sortedStartup,   \* Registry
  ranged, inDegree, queue, order      \* locals of BuildDependencyGraph
registry == <<byID, byCapability, dependencies, dependents, sortedStartup>>
locals == <<ranged, inDegree, queue, order>>
pluginVars == <<setup, boot, graph, file, registry, locals>>

\* An edge of the dependency graph: <<plugin, entry of its depends_on>> and
\* <<provider, mention of the capability>>.
Dependent(e) == e[1][1]
Provider(e) == e[2][1]

PluginsTypeOK ==
  /\ setup \in Setup /\ graph \in {"none", "ok", "missing", "cycle"}
  /\ boot \in {"key", "walk", "edges", "sort", "policy", "pipeline", "built", "failed"}
  /\ file \in 1..Len(setup.dir) + 1
  /\ DOMAIN byID \subseteq PluginId
  /\ DOMAIN byCapability = Capability
  /\ \A c \in Capability : \A p \in byCapability[c] : p[1] \in DOMAIN byID
  /\ DOMAIN dependencies \subseteq DOMAIN byID
  /\ \A e \in dependents : Dependent(e) \in DOMAIN dependencies /\ Provider(e) \in DOMAIN byID
  /\ \A id \in DOMAIN inDegree : inDegree[id] \in Nat

Blank == ""
knownKind(kind) == kind \in {"pipeline", "provider", "integration"}
validateManifest(m) ==
  /\ m.id # Blank /\ m.kind # Blank /\ knownKind(m.kind)
  /\ m.caps # <<>> /\ Blank \notin Range(m.caps) /\ Blank \notin Range(m.deps)
\* The verifier fails closed: a missing, malformed or wrong signature is an error.
Verify(m) == m.signature = "good"

\* Registry.Register and Disable.  A capability keeps its providers, one per
\* mention of it; those of a disabled plugin count.
Described(d, builtin) == [kind |-> d.kind, enabled |-> d.enabled, builtin |-> builtin]
Provides(d, c) == {d.id} \X {k \in DOMAIN d.caps : d.caps[k] = c}
Registered(r, d, builtin) ==
  [ byID |-> [id \in DOMAIN r.byID \cup {d.id} |->
                IF id = d.id THEN Described(d, builtin) ELSE r.byID[id]],
    byCapability |-> [c \in Capability |-> r.byCapability[c] \cup Provides(d, c)],
    dependencies |-> IF d.deps = <<>> THEN r.dependencies
                     ELSE [id \in DOMAIN r.dependencies \cup {d.id} |->
                             IF id = d.id THEN d.deps ELSE r.dependencies[id]] ]
\* The built-in plugins are registered one after the other; their ids differ.
RegisterBuiltins ==
  LET one(id) == Builtin[CHOOSE i \in DOMAIN Builtin : Builtin[i].id = id]
      dependent == {i \in DOMAIN Builtin : Builtin[i].deps # <<>>}
  IN [ byID |-> [id \in {Builtin[i].id : i \in DOMAIN Builtin} |-> Described(one(id), TRUE)],
       byCapability |-> [c \in Capability |-> UNION {Provides(Builtin[i], c) : i \in DOMAIN Builtin}],
       dependencies |-> [id \in {Builtin[i].id : i \in dependent} |-> one(id).deps] ]
Become(r) ==
  byID' = r.byID /\ byCapability' = r.byCapability /\ dependencies' = r.dependencies

PluginsInit ==
  /\ setup \in Setup
  /\ boot = IF setup.hasDir THEN "key" ELSE "policy"
  /\ graph = "none" /\ file = 1
  /\ byID = RegisterBuiltins.byID /\ byCapability = RegisterBuiltins.byCapability
  /\ dependencies = RegisterBuiltins.dependencies
  /\ dependents = {} /\ sortedStartup = <<>>
  /\ ranged = {} /\ inDegree = <<>> /\ queue = <<>> /\ order = <<>>

\* A key that cannot be read stops the process whatever the strictness.
ReadKey ==
  /\ boot = "key"
  /\ boot' = IF setup.key = "unreadable" THEN "failed" ELSE "walk"
  /\ UNCHANGED <<setup, graph, file, registry, locals>>

\* discoverSingle's errors, in its order; a duplicate id is Register's.
Acceptable(m) ==
  /\ m.parses /\ validateManifest(m)
  /\ setup.key = "set" => Verify(m)
  /\ m.id \notin DOMAIN byID

\* What an error of discovery or of the graph does to start-up.
\* Mutant: an error is logged in strict mode too.
BugTolerated == "policy"
Tolerated == IF setup.strict THEN "failed" ELSE "policy"

\* One file of the walk.  An error ends the walk; what it registered stays.
discoverSingle ==
  /\ boot = "walk" /\ file <= Len(setup.dir)
  /\ LET m == setup.dir[file]
     IN \/ /\ m.json /\ Acceptable(m)
           /\ Become(Registered([byID |-> byID, byCapability |-> byCapability,
                                 dependencies |-> dependencies], m, FALSE))
           /\ file' = file + 1 /\ UNCHANGED boot
        \/ /\ ~m.json
           /\ file' = file + 1 /\ UNCHANGED <<boot, byID, byCapability, dependencies>>
        \/ /\ m.json /\ ~Acceptable(m)
           /\ boot' = Tolerated /\ UNCHANGED <<file, byID, byCapability, dependencies>>
  /\ UNCHANGED <<setup, graph, dependents, sortedStartup, locals>>
WalkEnds ==
  /\ boot = "walk" /\ file > Len(setup.dir)
  /\ boot' = "edges"
  /\ UNCHANGED <<setup, graph, file, registry, locals>>

\* BuildDependencyGraph: one plugin of the range over the dependencies.  Every
\* provider of a capability gets the plugin as a dependent, once per entry;
\* an entry without a provider is an error, the edges so far stay.
Provided(id) == \A i \in DOMAIN dependencies[id] : byCapability[dependencies[id][i]] # {}
Edges(id, entries) == UNION {{<<id, i>>} \X byCapability[dependencies[id][i]] : i \in entries}
AddEdges(id) ==
  /\ boot = "edges" /\ id \in DOMAIN dependencies \ ranged
  /\ LET caps == dependencies[id]
         reached == {i \in DOMAIN caps : \A k \in 1..i : byCapability[caps[k]] # {}}
     IN dependents' = dependents \cup Edges(id, reached)
  /\ \/ Provided(id) /\ ranged' = ranged \cup {id} /\ UNCHANGED <<boot, graph>>
     \/ ~Provided(id) /\ ranged' = {} /\ boot' = Tolerated /\ graph' = "missing"
  /\ UNCHANGED <<setup, file, byID, byCapability, dependencies, sortedStartup,
                 inDegree, queue, order>>

\* A range over a map visits its keys once each, in any order.
Orderings(S) == Bijection(1..Cardinality(S), S)

\* The number of providers, then the plugins without any, in any order.
\* Mutant: a capability counts once however many plugins provide it.
BugDegree(id) == IF id \in DOMAIN dependencies THEN Len(dependencies[id]) ELSE 0
Degree(id) ==
  IF id \in DOMAIN dependencies
    THEN Cardinality(Edges(id, DOMAIN dependencies[id]))
    ELSE 0
SeedQueue ==
  /\ boot = "edges" /\ ranged = DOMAIN dependencies
  /\ inDegree' = [id \in DOMAIN byID |-> Degree(id)]
  /\ queue' \in Orderings({id \in DOMAIN byID : Degree(id) = 0})
  /\ boot' = "sort" /\ ranged' = {}
  /\ UNCHANGED <<setup, graph, file, registry, order>>

\* One turn of the loop: the head of the queue is ordered, its dependents lose
\* an edge each time they are listed and are queued when it was their last.
\* They are listed in the order in which the map was ranged over.
Released(d) == Cardinality({e \in dependents : Provider(e) = Head(queue) /\ Dependent(e) = d})
Pop ==
  /\ boot = "sort" /\ queue # <<>>
  /\ inDegree' = [d \in DOMAIN inDegree |-> inDegree[d] - Released(d)]
  /\ \E freed \in Orderings({d \in DOMAIN inDegree : inDegree[d] \in 1..Released(d)}) :
        queue' = Tail(queue) \o freed
  /\ order' = Append(order, Head(queue))
  /\ UNCHANGED <<setup, boot, graph, file, registry, ranged>>
\* Mutant: what was ordered is kept although it is not everything.
BugSorted ==
  /\ boot = "sort" /\ queue = <<>>
  /\ graph' = "ok" /\ sortedStartup' = order /\ boot' = "policy"
  /\ inDegree' = <<>> /\ order' = <<>>
  /\ UNCHANGED <<setup, file, byID, byCapability, dependencies, dependents, queue, ranged>>
Sorted ==
  /\ boot = "sort" /\ queue = <<>>
  /\ \/ /\ Len(order) = Cardinality(DOMAIN byID)
        /\ graph' = "ok" /\ sortedStartup' = order /\ boot' = "policy"
     \/ /\ Len(order) # Cardinality(DOMAIN byID)
        /\ graph' = "cycle" /\ boot' = Tolerated /\ UNCHANGED sortedStartup
  /\ inDegree' = <<>> /\ order' = <<>>
  /\ UNCHANGED <<setup, file, byID, byCapability, dependencies, dependents, queue, ranged>>

\* buildPolicyEngine may fail; buildPipelinePlugins makes and configures every
\* plugin listed, whose factory fails unless it is built in.  The enabled flag
\* is not consulted.
BuildPolicy ==
  /\ boot = "policy"
  /\ boot' = IF setup.policy THEN "pipeline" ELSE "failed"
  /\ UNCHANGED <<setup, graph, file, registry, locals>>
\* What Configure of the rate limiter, the one pipeline plugin, accepts.
Configure(c) ==
  /\ c.perMinute >= 1 /\ c.burst >= 1
  /\ c.strategy \in {"ip", "principal", "header"}
  /\ c.strategy = "header" => c.header # Blank
  /\ c.proxies
Makes(e) ==
  e.id # Blank =>
    e.id \in DOMAIN byID /\ byID[e.id].builtin /\ byID[e.id].kind = "pipeline" /\ Configure(e.raw)
buildPipelinePlugins ==
  /\ boot = "pipeline"
  /\ boot' = IF \A i \in DOMAIN setup.pipeline : Makes(setup.pipeline[i])
                THEN "built" ELSE "failed"
  /\ UNCHANGED <<setup, graph, file, registry, locals>>

PluginsNext ==
  \/ ReadKey \/ discoverSingle \/ WalkEnds \/ SeedQueue \/ Pop \/ Sorted
  \/ BuildPolicy \/ buildPipelinePlugins
  \/ \E id \in PluginId : AddEdges(id)

\* The plugins the admin endpoint lists: the startup order, or all of them
\* in any order when there is none.
pluginsList == IF sortedStartup = <<>> THEN DOMAIN byID ELSE Range(sortedStartup)

-----------------------------------------------------------------------------
DependsOn(a, b) ==
  a \in DOMAIN dependencies /\ \E i \in DOMAIN dependencies[a] :
    \E p \in byCapability[dependencies[a][i]] : p[1] = b

\* BuildDependencyGraph's verdict is right (registry.go:118).  The startup order
\* names every plugin once, each after all the plugins that provide what it
\* depends on; a cycle is reported only when some plugins really wait for
\* each other, a missing capability only when nothing provides it; and the
\* admin endpoint lists every registered plugin either way.
GraphVerdict ==
  /\ graph = "ok" =>
       /\ IsInjective(sortedStartup) /\ Range(sortedStartup) = DOMAIN byID
       /\ \A i, j \in DOMAIN sortedStartup :
            DependsOn(sortedStartup[i], sortedStartup[j]) => j < i
  /\ graph = "cycle" =>
       \E s \in SUBSET DOMAIN byID : s # {} /\ \A a \in s : \E b \in s : DependsOn(a, b)
  /\ graph = "missing" => \E id \in DOMAIN dependencies : ~Provided(id)
  /\ pluginsList = DOMAIN byID

\* Discovery keeps a prefix (discovery.go:46, bootstrap.go:126).  A process that
\* has built its handler registered the manifests before the first bad one
\* and none after it, each of them valid and, with a key, signed; in strict
\* mode there is no bad one and the dependencies are ordered.
DiscoversPrefix ==
  boot = "built" =>
    /\ DOMAIN byID = {Builtin[i].id : i \in DOMAIN Builtin}
                     \cup {setup.dir[i].id : i \in {k \in 1..file - 1 : setup.dir[k].json}}
    /\ \A i \in 1..file - 1 : setup.dir[i].json =>
         /\ validateManifest(setup.dir[i])
         /\ setup.key = "set" => setup.dir[i].signature = "good"
    /\ setup.strict /\ setup.hasDir => graph = "ok" /\ file > Len(setup.dir)
=============================================================================
