------------------------- MODULE ProxyProcessProofs -------------------------
(***************************************************************************)
(* ProxyProcess for every configuration, every set of manifests and any    *)
(* number of calls, frames and HTTP requests: type correctness, what       *)
(* discovery and Kahn's algorithm promise, what a forwarded call and a     *)
(* shutdown promise.                                                       *)
(***************************************************************************)
EXTENDS ProxyProcess, FiniteSetTheorems, SequenceTheorems, TLAPS

-----------------------------------------------------------------------------
(* Start-up.                                                               *)

\* The registry: finite, and every name in it is a registered plugin.
RegInv ==
  /\ DOMAIN byID \subseteq PluginId /\ IsFiniteSet(DOMAIN byID)
  /\ DOMAIN byCapability = Capability
  /\ \A c \in Capability : /\ IsFiniteSet(byCapability[c])
                          /\ \A p \in byCapability[c] : p[1] \in DOMAIN byID
  /\ DOMAIN dependencies \subseteq DOMAIN byID
  /\ \A id \in DOMAIN dependencies : dependencies[id] \in Seq(Capability)

\* What was discovered.
BuiltinIds == {Builtin[i].id : i \in DOMAIN Builtin}
WalkInv ==
  /\ setup \in Setup /\ file \in 1..Len(setup.dir) + 1
  /\ boot \in {"key", "walk", "edges", "sort", "policy", "pipeline", "built", "failed"}
  /\ DOMAIN byID = BuiltinIds \cup {setup.dir[i].id : i \in {k \in 1..file - 1 : setup.dir[k].json}}
  /\ \A i \in 1..file - 1 : setup.dir[i].json =>
       /\ validateManifest(setup.dir[i])
       /\ setup.key = "set" => setup.dir[i].signature = "good"
  /\ boot \in {"edges", "sort"} => file > Len(setup.dir)
  /\ boot \in {"policy", "pipeline", "built"} /\ setup.strict /\ setup.hasDir =>
       graph = "ok" /\ file > Len(setup.dir)

\* The edges: those of the plugins ranged over, and all of them in the sort.
AllEdges(id) == Edges(id, DOMAIN dependencies[id])
EdgeInv ==
  /\ boot \in {"key", "walk"} => dependents = {} /\ ranged = {}
  /\ boot \in {"key", "walk", "edges"} => order = <<>>
  /\ boot \in {"key", "walk", "edges", "sort"} => graph = "none" /\ sortedStartup = <<>>
  /\ graph \in {"none", "ok", "missing", "cycle"}
  /\ ranged \subseteq DOMAIN dependencies
  /\ IsFiniteSet(dependents)
  /\ \A e \in dependents : \E id \in DOMAIN dependencies : e \in AllEdges(id)
  /\ \A id \in ranged : AllEdges(id) \subseteq dependents
  /\ boot = "sort" => \A id \in DOMAIN dependencies : AllEdges(id) \subseteq dependents

\* Kahn's algorithm: a plugin's degree counts the edges from providers not yet
\* ordered; the plugins of degree 0 are those ordered or queued; what is
\* ordered comes after its providers.
In(x, s) == \E k \in 1..Len(s) : s[k] = x
Waiting(d) == {e \in dependents : Dependent(e) = d /\ ~In(Provider(e), order)}
SortInv ==
  boot = "sort" =>
    /\ order \in Seq(DOMAIN byID) /\ IsInjective(order)
    /\ queue \in Seq(DOMAIN byID) /\ IsInjective(queue)
    /\ \A x \in DOMAIN byID : ~(In(x, order) /\ In(x, queue))
    /\ DOMAIN inDegree = DOMAIN byID
    /\ \A d \in DOMAIN byID : inDegree[d] = Cardinality(Waiting(d))
    /\ \A d \in DOMAIN byID : inDegree[d] = 0 <=> In(d, order) \/ In(d, queue)
    /\ \A i \in 1..Len(order) : \A e \in dependents :
         Dependent(e) = order[i] => \E k \in 1..i - 1 : order[k] = Provider(e)

DegreesInv == \A id \in DOMAIN inDegree : inDegree[id] \in Nat

PlugInv == RegInv /\ WalkInv /\ EdgeInv /\ SortInv /\ DegreesInv /\ GraphVerdict

-----------------------------------------------------------------------------
\* The members of Edges, and what they are not more than.
LEMMA EdgesMean ==
  ASSUME NEW id, NEW I
  PROVE  \A e : e \in Edges(id, I) <=>
           \E i \in I : \E p \in byCapability[dependencies[id][i]] : e = <<<<id, i>>, p>>
  BY DEF Edges

LEMMA EdgesFinite ==
  ASSUME RegInv, NEW id \in DOMAIN dependencies, NEW I \in SUBSET DOMAIN dependencies[id]
  PROVE  IsFiniteSet(Edges(id, I))
<1> DEFINE G(i) == {<<id, i>>} \X byCapability[dependencies[id][i]]
           T == {G(i) : i \in I}
           f == [i \in I |-> G(i)]
<1>1. dependencies[id] \in Seq(Capability)
  BY Zenon DEF RegInv
<1>2. IsFiniteSet(I)
  <2>1. IsFiniteSet(1..Len(dependencies[id])) /\ I \subseteq 1..Len(dependencies[id])
    BY <1>1, FS_Interval
  <2> QED
    BY <2>1, FS_Subset, Zenon
<1>3. \A i \in I : IsFiniteSet(G(i))
  <2> TAKE i \in I
  <2>1. dependencies[id][i] \in Capability
    BY <1>1
  <2>2. IsFiniteSet(byCapability[dependencies[id][i]]) /\ IsFiniteSet({<<id, i>>})
    BY <2>1, FS_Singleton, Zenon DEF RegInv
  <2> QED
    BY <2>2, FS_Product, Zenon
<1>4. IsFiniteSet(T)
  <2>1. f \in Surjection(I, T)
    BY Zenon DEF Surjection
  <2> QED
    BY <1>2, <2>1, FS_Surjection, Zenon
<1>5. IsFiniteSet(UNION T)
  <2>1. \A t \in T : IsFiniteSet(t)
    BY <1>3, Zenon
  <2> HIDE DEF T
  <2> QED
    BY <1>4, <2>1, FS_UNION, ZenonT(60)
<1> QED
  BY <1>5, Zenon DEF Edges

LEMMA SeqsOfSet ==
  ASSUME NEW S, IsFiniteSet(S), NEW q \in Orderings(S)
  PROVE  /\ q \in Seq(S) /\ IsInjective(q)
         /\ \A x : In(x, q) <=> x \in S
<1>1. q \in [1..Cardinality(S) -> S] /\ IsInjective(q) /\ q \in Surjection(1..Cardinality(S), S)
  BY Zenon DEF Orderings, Bijection, Injection, Surjection
<1>2. Cardinality(S) \in Nat
  BY FS_CardinalityType, Zenon
<1>3. q \in Seq(S) /\ Len(q) = Cardinality(S)
  BY <1>1, <1>2
<1> QED
  BY <1>1, <1>3, Zenon DEF In, Surjection

LEMMA ProvidesFinite ==
  ASSUME NEW d, NEW X, d.caps \in Seq(X), NEW c
  PROVE  IsFiniteSet(Provides(d, c))
<1> DEFINE K == {k \in DOMAIN d.caps : d.caps[k] = c}
<1>1. IsFiniteSet(1..Len(d.caps)) /\ K \subseteq 1..Len(d.caps)
  BY FS_Interval
<1>2. IsFiniteSet(K) /\ IsFiniteSet({d.id})
  <2> HIDE DEF K
  <2>1. IsFiniteSet(K)
    BY <1>1, FS_Subset, Zenon
  <2>2. IsFiniteSet({d.id})
    BY FS_Singleton, Zenon
  <2> QED BY <2>1, <2>2
<1> HIDE DEF K
<1>3. IsFiniteSet({d.id} \X K)
  BY <1>2, FS_Product, Zenon
<1> QED
  BY <1>3, Zenon DEF Provides, K

LEMMA NoBlankEntry ==
  ASSUME NEW q \in Seq(Capability \cup {""}), "" \notin Range(q)
  PROVE  q \in Seq(Capability)
<1> DEFINE n == Len(q)
<1>1. n \in Nat /\ q \in [1..n -> Capability \cup {""}]
  BY LenProperties, Zenon
<1> HIDE DEF n
<1>2. \A i \in 1..n : q[i] \in Capability
  BY <1>1, Zenon DEF Range
<1>3. q \in [1..n -> Capability]
  BY <1>1, <1>2, Zenon
<1>4. q \in UNION {[1..k -> Capability] : k \in Nat}
  BY <1>1, <1>3, Zenon
<1> QED
  BY <1>4, SeqDef, Zenon

LEMMA SetupDir ==
  ASSUME NEW s \in Setup
  PROVE  /\ Len(s.dir) \in Nat /\ \A i \in 1..Len(s.dir) : FileOK(s.dir[i])
         /\ s.strict \in BOOLEAN /\ s.hasDir \in BOOLEAN
<1>1. SetupOK(s)
  BY PluginsAssumption, Zenon
<1>2. s.dir \in Seq(Range(s.dir)) /\ \A i \in DOMAIN s.dir : FileOK(s.dir[i])
  BY <1>1, Zenon DEF SetupOK
<1>3. Len(s.dir) \in Nat /\ DOMAIN s.dir = 1..Len(s.dir)
  BY <1>2, LenProperties, Zenon
<1> QED
  BY <1>1, <1>2, <1>3, Zenon DEF SetupOK

\* The built-in plugins.
LEMMA BuiltinsOK ==
  ASSUME PluginsInit
  PROVE  RegInv
<1> DEFINE n == Len(Builtin)
<1> USE PluginsAssumption
<1>1. n \in Nat /\ DOMAIN Builtin = 1..n /\ IsFiniteSet(DOMAIN Builtin)
  BY FS_Interval
<1>2. IsFiniteSet(BuiltinIds)
  <2> DEFINE f == [i \in DOMAIN Builtin |-> Builtin[i].id]
  <2>1. f \in Surjection(DOMAIN Builtin, BuiltinIds)
    BY Zenon DEF Surjection, BuiltinIds
  <2> QED
    BY <1>1, <2>1, FS_Surjection, Zenon
<1>3. DOMAIN byID = BuiltinIds /\ DOMAIN byCapability = Capability
  BY Zenon DEF PluginsInit, RegisterBuiltins, BuiltinIds
<1>4. \A c \in Capability : byCapability[c] = UNION {Provides(Builtin[i], c) : i \in DOMAIN Builtin}
  BY Zenon DEF PluginsInit, RegisterBuiltins
<1>5. \A c \in Capability : \A p \in byCapability[c] : p[1] \in DOMAIN byID
  BY <1>3, <1>4, SMTT(60) DEF Provides, BuiltinIds
<1>6. ASSUME NEW c \in Capability PROVE IsFiniteSet(byCapability[c])
  <2> DEFINE G(i) == Provides(Builtin[i], c)
             T == {G(i) : i \in DOMAIN Builtin}
             f == [i \in DOMAIN Builtin |-> G(i)]
  <2>1. ASSUME NEW i \in DOMAIN Builtin PROVE IsFiniteSet(G(i))
    <3>1. Builtin[i].caps \in Seq(Capability)
      BY Zenon
    <3> QED
      BY <3>1, ProvidesFinite, Zenon
  <2>2. f \in Surjection(DOMAIN Builtin, T)
    BY Zenon DEF Surjection
  <2>3. IsFiniteSet(T)
    BY <1>1, <2>2, FS_Surjection, ZenonT(60)
  <2>4. \A t \in T : IsFiniteSet(t)
    BY <2>1, Zenon
  <2>5. byCapability[c] = UNION T
    BY <1>4, Zenon
  <2> HIDE DEF T
  <2> QED
    BY <2>3, <2>4, <2>5, FS_UNION, Zenon
<1>7. DOMAIN dependencies \subseteq DOMAIN byID
  BY <1>3, Zenon DEF PluginsInit, RegisterBuiltins, BuiltinIds
<1>8. ASSUME NEW id \in DOMAIN dependencies PROVE dependencies[id] \in Seq(Capability)
  <2> DEFINE j == CHOOSE i \in DOMAIN Builtin : Builtin[i].id = id
  <2>1. \E i \in DOMAIN Builtin : Builtin[i].id = id
    BY <1>7, <1>3, Zenon DEF BuiltinIds
  <2>2. j \in DOMAIN Builtin
    BY <2>1, Zenon
  <2>3. dependencies[id] = Builtin[j].deps
    BY Zenon DEF PluginsInit, RegisterBuiltins
  <2> QED
    BY <2>2, <2>3, Zenon
<1>9. BuiltinIds \subseteq PluginId
  BY Zenon DEF BuiltinIds
<1> QED
  BY <1>2, <1>3, <1>5, <1>6, <1>7, <1>8, <1>9, ZenonT(60) DEF RegInv

LEMMA InitPlugInv == PluginsInit => PlugInv
<1> SUFFICES ASSUME PluginsInit PROVE PlugInv
  BY Zenon
<1>1. RegInv
  BY BuiltinsOK, Zenon
<1>2. /\ setup \in Setup /\ file = 1 /\ boot \in {"key", "policy"} /\ (setup.hasDir => boot = "key")
      /\ graph = "none" /\ dependents = {} /\ sortedStartup = <<>> /\ ranged = {}
      /\ inDegree = <<>> /\ order = <<>> /\ DOMAIN byID = BuiltinIds
  <2>1. setup.hasDir \in BOOLEAN
    BY SetupDir, Zenon DEF PluginsInit
  <2> QED
    BY <2>1, Zenon DEF PluginsInit, RegisterBuiltins, BuiltinIds
<1>3. WalkInv
  <2>1. Len(setup.dir) \in Nat
    BY <1>2, SetupDir, Zenon
  <2> QED
    BY <1>2, <2>1 DEF WalkInv
<1>4. EdgeInv
  BY <1>2, FS_EmptySet, Zenon DEF EdgeInv
<1>5. SortInv /\ DegreesInv
  BY <1>2 DEF SortInv, DegreesInv
<1>6. GraphVerdict
  BY <1>2, Zenon DEF GraphVerdict, pluginsList
<1> QED
  BY <1>1, <1>3, <1>4, <1>5, <1>6, ZenonT(60) DEF PlugInv

-----------------------------------------------------------------------------
\* Start-up beyond the registry does not disturb it.
LEMMA RegistryKept ==
  ASSUME PlugInv, UNCHANGED <<byID, byCapability, dependencies>>
  PROVE  /\ RegInv'
         /\ \A id : AllEdges(id)' = AllEdges(id)
         /\ \A id : Provided(id)' <=> Provided(id)
         /\ \A a, b : DependsOn(a, b)' <=> DependsOn(a, b)
<1>1. RegInv'
  BY Zenon DEF PlugInv, RegInv
<1>2. \A id : AllEdges(id)' = AllEdges(id)
  BY Zenon DEF AllEdges, Edges
<1>3. \A id : Provided(id)' <=> Provided(id)
  BY Zenon DEF Provided
<1>4. \A a, b : DependsOn(a, b)' <=> DependsOn(a, b)
  BY Zenon DEF DependsOn
<1> QED
  BY <1>1, <1>2, <1>3, <1>4, ZenonT(60)

\* One that changes neither the order nor the verdict keeps GraphVerdict.
LEMMA VerdictKept ==
  ASSUME PlugInv, UNCHANGED <<byID, byCapability, dependencies, graph, sortedStartup>>
  PROVE  GraphVerdict'
<1>1. \A id : Provided(id)' <=> Provided(id)
  BY RegistryKept, Zenon
<1>2. \A a, b : DependsOn(a, b)' <=> DependsOn(a, b)
  BY RegistryKept, Zenon
<1>3. pluginsList' = pluginsList
  BY Zenon DEF pluginsList
<1>4. (graph = "missing" => \E id \in DOMAIN dependencies : ~Provided(id))'
  BY <1>1, Zenon DEF PlugInv, GraphVerdict
<1>5. (graph = "cycle" =>
        \E s \in SUBSET DOMAIN byID : s # {} /\ \A a \in s : \E b \in s : DependsOn(a, b))'
  BY <1>2, Zenon DEF PlugInv, GraphVerdict
<1>6. (graph = "ok" =>
         /\ IsInjective(sortedStartup) /\ Range(sortedStartup) = DOMAIN byID
         /\ \A i, j \in DOMAIN sortedStartup :
              DependsOn(sortedStartup[i], sortedStartup[j]) => j < i)'
  BY <1>2, Zenon DEF PlugInv, GraphVerdict
<1> QED
  BY <1>3, <1>4, <1>5, <1>6, ZenonT(60) DEF PlugInv, GraphVerdict

\* The steps that only move start-up on.
LEMMA MovesOn ==
  ASSUME PlugInv, ReadKey \/ WalkEnds \/ BuildPolicy \/ buildPipelinePlugins \/ UNCHANGED pluginVars
  PROVE  PlugInv'
<1>1. UNCHANGED <<setup, graph, file, byID, byCapability, dependencies, dependents, sortedStartup, ranged,
                  inDegree, queue, order>>
  BY Zenon DEF ReadKey, WalkEnds, BuildPolicy, buildPipelinePlugins, registry, locals, pluginVars
<1>2. RegInv' /\ \A id : AllEdges(id)' = AllEdges(id)
  BY <1>1, RegistryKept, Zenon
<1>3. GraphVerdict'
  BY <1>1, VerdictKept, Zenon
<1>4. \/ boot' = boot
      \/ boot = "key" /\ boot' \in {"failed", "walk"}
      \/ boot = "walk" /\ boot' = "edges" /\ file > Len(setup.dir)
      \/ boot \in {"policy", "pipeline"} /\ boot' \in {"pipeline", "built", "failed"}
  BY Zenon DEF ReadKey, WalkEnds, BuildPolicy, buildPipelinePlugins, pluginVars
<1>5. WalkInv'
  BY <1>1, <1>4, Zenon DEF PlugInv, WalkInv
<1>6. EdgeInv'
  BY <1>1, <1>2, <1>4, ZenonT(60) DEF PlugInv, EdgeInv
<1>7. SortInv' /\ DegreesInv'
  <2>1. \A d : Waiting(d)' = Waiting(d)
    BY <1>1, Zenon DEF Waiting, In, Dependent, Provider
  <2>2. boot' = "sort" => boot = "sort"
    BY <1>4, Zenon
  <2>3. \A x : /\ In(x, order)' <=> In(x, order)
               /\ In(x, queue)' <=> In(x, queue)
    BY <1>1, Zenon
  <2> QED
    BY <1>1, <2>1, <2>2, <2>3, ZenonT(60) DEF PlugInv, SortInv, DegreesInv, Dependent, Provider
<1> QED
  BY <1>2, <1>3, <1>5, <1>6, <1>7, ZenonT(60) DEF PlugInv

-----------------------------------------------------------------------------
\* A manifest is registered.
LEMMA RegisterKeeps ==
  ASSUME RegInv, NEW m, FileOK(m), validateManifest(m),
         Become(Registered([byID |-> byID, byCapability |-> byCapability,
                            dependencies |-> dependencies], m, FALSE))
  PROVE  RegInv' /\ DOMAIN byID' = DOMAIN byID \cup {m.id}
<1>1. m.id \in PluginId /\ m.caps \in Seq(Capability \cup {""})
  BY Zenon DEF FileOK, validateManifest, Blank
<1>2. m.deps \in Seq(Capability)
  <2>1. m.deps \in Seq(Capability \cup {""}) /\ "" \notin Range(m.deps)
    BY Zenon DEF FileOK, validateManifest, Blank
  <2> QED
    BY <2>1, NoBlankEntry, Zenon
<1>3. DOMAIN byID' = DOMAIN byID \cup {m.id} /\ DOMAIN byCapability' = Capability
  BY Zenon DEF Become, Registered
<1>4. \A c \in Capability : byCapability'[c] = byCapability[c] \cup Provides(m, c)
  BY Zenon DEF Become, Registered
<1>5. /\ DOMAIN dependencies' \subseteq DOMAIN dependencies \cup {m.id}
      /\ \A id \in DOMAIN dependencies' : \/ id \in DOMAIN dependencies /\ dependencies'[id] = dependencies[id]
                                          \/ dependencies'[id] = m.deps
  BY Zenon DEF Become, Registered
<1>6. IsFiniteSet(DOMAIN byID')
  <2>1. IsFiniteSet(DOMAIN byID)
    BY Zenon DEF RegInv
  <2>2. IsFiniteSet(DOMAIN byID \cup {m.id})
    BY <2>1, FS_AddElement, Zenon
  <2> QED BY <1>3, <2>2, Zenon
<1>7. ASSUME NEW c \in Capability
      PROVE  IsFiniteSet(byCapability'[c]) /\ \A p \in byCapability'[c] : p[1] \in DOMAIN byID'
  <2>1. IsFiniteSet(Provides(m, c)) /\ IsFiniteSet(byCapability[c])
    BY <1>1, ProvidesFinite, Zenon DEF RegInv
  <2>2. IsFiniteSet(byCapability'[c])
    BY <1>4, <2>1, FS_Union, Zenon
  <2>3. \A p \in Provides(m, c) : p[1] = m.id
    BY Zenon DEF Provides
  <2> QED
    BY <1>3, <1>4, <2>2, <2>3, ZenonT(60) DEF RegInv
<1>8. /\ DOMAIN byID' \subseteq PluginId /\ DOMAIN dependencies' \subseteq DOMAIN byID'
      /\ \A id \in DOMAIN dependencies' : dependencies'[id] \in Seq(Capability)
  BY <1>1, <1>2, <1>3, <1>5, ZenonT(60) DEF RegInv
<1> QED
  BY <1>3, <1>6, <1>7, <1>8, ZenonT(60) DEF RegInv

LEMMA DiscoverKeeps ==
  ASSUME PlugInv, discoverSingle
  PROVE  PlugInv'
<1> DEFINE m == setup.dir[file]
<1>1. /\ UNCHANGED <<setup, graph, dependents, sortedStartup, ranged, inDegree, queue, order>>
      /\ boot = "walk" /\ file <= Len(setup.dir)
  BY Zenon DEF discoverSingle, locals
<1>2. /\ setup \in Setup /\ file \in 1..Len(setup.dir) + 1 /\ Len(setup.dir) \in Nat /\ FileOK(m)
      /\ file - 1 + 1 = file
  BY <1>1, SetupDir DEF PlugInv, WalkInv
<1>3. /\ dependents = {} /\ ranged = {} /\ order = <<>> /\ graph = "none" /\ sortedStartup = <<>>
  BY <1>1, Zenon DEF PlugInv, EdgeInv
<1>4. boot' # "sort" /\ boot' # "edges"
  BY <1>1, Zenon DEF discoverSingle, Tolerated
<1>5. EdgeInv'
  BY <1>1, <1>3, <1>4, ZenonT(60) DEF PlugInv, EdgeInv
<1>6. SortInv' /\ DegreesInv' /\ GraphVerdict'
  BY <1>1, <1>3, <1>4, ZenonT(60) DEF PlugInv, SortInv, DegreesInv, GraphVerdict, pluginsList
<1>7. CASE ~m.json /\ file' = file + 1 /\ UNCHANGED <<boot, byID, byCapability, dependencies>>
  <2>1. RegInv'
    BY <1>7, RegistryKept, Zenon
  <2>2. 1..file' - 1 = (1..file - 1) \cup {file}
    BY <1>2, <1>7
  <2>3. {k \in 1..file' - 1 : setup.dir[k].json} = {k \in 1..file - 1 : setup.dir[k].json}
    BY <1>7, <2>2, Zenon
  <2>4. file' \in 1..Len(setup.dir) + 1
    BY <1>1, <1>2, <1>7, SMTT(60)
  <2>5. WalkInv'
    <3>1. DOMAIN byID' = BuiltinIds \cup {setup.dir[i].id : i \in {k \in 1..file' - 1 : setup.dir[k].json}}
      BY <1>7, <2>3, Zenon DEF PlugInv, WalkInv
    <3>2. \A i \in 1..file' - 1 : setup.dir[i].json =>
            /\ validateManifest(setup.dir[i])
            /\ setup.key = "set" => setup.dir[i].signature = "good"
      BY <1>7, <2>2, Zenon DEF PlugInv, WalkInv
    <3>3. boot' = "walk" /\ setup' = setup /\ setup \in Setup
      BY <1>1, <1>2, <1>7, ZenonT(60)
    <3> QED BY <2>4, <3>1, <3>2, <3>3, Zenon DEF WalkInv
  <2> QED
    BY <1>5, <1>6, <2>1, <2>5, ZenonT(60) DEF PlugInv
<1>8. CASE m.json /\ ~Acceptable(m) /\ boot' = Tolerated /\ UNCHANGED <<file, byID, byCapability, dependencies>>
  <2>1. RegInv'
    BY <1>8, RegistryKept, Zenon
  <2>2. setup.strict \in BOOLEAN
    BY <1>2, SetupDir, Zenon
  <2>3. WalkInv'
    BY <1>1, <1>2, <1>8, <2>2, ZenonT(60) DEF PlugInv, WalkInv, Tolerated
  <2> QED
    BY <1>5, <1>6, <2>1, <2>3, Zenon DEF PlugInv
<1>9. CASE /\ m.json /\ Acceptable(m)
           /\ Become(Registered([byID |-> byID, byCapability |-> byCapability,
                                 dependencies |-> dependencies], m, FALSE))
           /\ file' = file + 1 /\ UNCHANGED boot
  <2>1. validateManifest(m) /\ (setup.key = "set" => m.signature = "good")
    BY <1>9, Zenon DEF Acceptable, Verify
  <2>2. RegInv' /\ DOMAIN byID' = DOMAIN byID \cup {m.id}
    BY <1>2, <1>9, <2>1, RegisterKeeps, ZenonT(60) DEF PlugInv
  <2>3. 1..file' - 1 = (1..file - 1) \cup {file}
    BY <1>2, <1>9
  <2>4. {k \in 1..file' - 1 : setup.dir[k].json} = {k \in 1..file - 1 : setup.dir[k].json} \cup {file}
    BY <1>9, <2>3, ZenonT(60)
  <2>5. file' \in 1..Len(setup.dir) + 1
    BY <1>1, <1>2, <1>9, SMTT(30)
  <2>6. DOMAIN byID' = BuiltinIds
                       \cup {setup.dir[i].id : i \in {k \in 1..file' - 1 : setup.dir[k].json}}
    BY <2>2, <2>4, Zenon DEF PlugInv, WalkInv
  <2>7. (\A i \in 1..file - 1 : setup.dir[i].json =>
           /\ validateManifest(setup.dir[i])
           /\ setup.key = "set" => setup.dir[i].signature = "good")'
    BY <1>1, <2>1, <2>3, ZenonT(60) DEF PlugInv, WalkInv
  <2>8. WalkInv'
    BY <1>1, <1>2, <1>9, <2>5, <2>6, <2>7, ZenonT(60) DEF PlugInv, WalkInv
  <2> QED
    BY <1>5, <1>6, <2>2, <2>8, ZenonT(60) DEF PlugInv
<1> QED
  BY <1>7, <1>8, <1>9, Zenon DEF discoverSingle

-----------------------------------------------------------------------------
\* The edges of one more plugin.
LEMMA AddEdgesKeeps ==
  ASSUME PlugInv, NEW id \in PluginId, AddEdges(id)
  PROVE  PlugInv'
<1> DEFINE caps == dependencies[id]
           reached == {i \in DOMAIN caps : \A k \in 1..i : byCapability[caps[k]] # {}}
<1>1. /\ UNCHANGED <<setup, file, byID, byCapability, dependencies, sortedStartup, inDegree, queue, order>>
      /\ boot = "edges" /\ id \in DOMAIN dependencies /\ dependents' = dependents \cup Edges(id, reached)
  BY Zenon DEF AddEdges
<1>2. RegInv' /\ \A d : AllEdges(d)' = AllEdges(d)
  BY <1>1, RegistryKept, Zenon
<1>3. reached \subseteq DOMAIN caps
  BY Zenon
<1>4. Edges(id, reached) \subseteq AllEdges(id)
  BY <1>3, EdgesMean, SMTT(30) DEF AllEdges
<1>5. IsFiniteSet(dependents')
  <2>1. IsFiniteSet(Edges(id, reached))
    BY <1>1, <1>3, EdgesFinite, Zenon DEF PlugInv
  <2> QED
    BY <1>1, <2>1, FS_Union, Zenon DEF PlugInv, EdgeInv
<1>6. \A e \in dependents' : \E d \in DOMAIN dependencies' : e \in AllEdges(d)'
  BY <1>1, <1>2, <1>4, Zenon DEF PlugInv, EdgeInv
<1>7. order = <<>> /\ graph = "none" /\ sortedStartup = <<>> /\ ranged \subseteq DOMAIN dependencies
  BY <1>1, Zenon DEF PlugInv, EdgeInv
<1>8. DegreesInv'
  BY <1>1, Zenon DEF PlugInv, DegreesInv
<1>9. CASE Provided(id) /\ ranged' = ranged \cup {id} /\ UNCHANGED <<boot, graph>>
  <2>1. reached = DOMAIN caps
    <3>1. caps \in Seq(Capability)
      BY <1>1, Zenon DEF PlugInv, RegInv
    <3>2. \A i \in DOMAIN caps : \A k \in 1..i : k \in DOMAIN caps
      BY <3>1
    <3> QED
      BY <1>9, <3>2, Zenon DEF Provided
  <2>2. dependents' = dependents \cup AllEdges(id)
    BY <1>1, <2>1, Zenon DEF AllEdges
  <2>3. \A d \in ranged' : AllEdges(d)' \subseteq dependents'
    BY <1>2, <1>9, <2>2, Zenon DEF PlugInv, EdgeInv
  <2>4. EdgeInv'
    BY <1>1, <1>5, <1>6, <1>7, <1>9, <2>3, ZenonT(60) DEF EdgeInv
  <2>5. WalkInv'
    BY <1>1, <1>9, Zenon DEF PlugInv, WalkInv
  <2>6. SortInv'
    BY <1>1, <1>9, ZenonT(30) DEF SortInv
  <2>7. GraphVerdict'
    BY <1>1, <1>9, VerdictKept, ZenonT(60)
  <2> QED
    BY <1>2, <1>8, <2>4, <2>5, <2>6, <2>7, Zenon DEF PlugInv
<1>10. CASE ~Provided(id) /\ ranged' = {} /\ boot' = Tolerated /\ graph' = "missing"
  <2>1. boot' \in {"failed", "policy"} /\ (boot' = "policy" => ~setup.strict)
    <3>1. setup.strict \in BOOLEAN
      BY SetupDir, Zenon DEF PlugInv, WalkInv
    <3> QED
      BY <1>10, <3>1, Zenon DEF Tolerated
  <2>2. EdgeInv'
    BY <1>1, <1>5, <1>6, <1>10, <2>1, ZenonT(60) DEF EdgeInv
  <2>3. WalkInv'
    BY <1>1, <1>10, <2>1, Zenon DEF PlugInv, WalkInv
  <2>4. SortInv'
    BY <2>1, Zenon DEF SortInv
  <2>5. GraphVerdict'
    <3>1. ~Provided(id)' /\ id \in DOMAIN dependencies'
      BY <1>1, <1>10, RegistryKept, Zenon
    <3>2. pluginsList' = DOMAIN byID'
      BY <1>1, <1>7, Zenon DEF pluginsList
    <3> QED
      BY <1>10, <3>1, <3>2, Zenon DEF GraphVerdict
  <2> QED
    BY <1>2, <1>8, <2>2, <2>3, <2>4, <2>5, Zenon DEF PlugInv
<1> QED
  BY <1>9, <1>10, Zenon DEF AddEdges

\* The sort begins: the degrees are the numbers of edges.
LEMMA SeedKeeps ==
  ASSUME PlugInv, SeedQueue
  PROVE  PlugInv'
<1> DEFINE Z == {id \in DOMAIN byID : Degree(id) = 0}
<1>1. /\ UNCHANGED <<setup, graph, file, byID, byCapability, dependencies, dependents, sortedStartup, order>>
      /\ boot = "edges" /\ ranged = DOMAIN dependencies /\ boot' = "sort" /\ ranged' = {}
      /\ inDegree' = [id \in DOMAIN byID |-> Degree(id)]
      /\ queue' \in Orderings(Z)
  BY Zenon DEF SeedQueue, registry
<1>2. RegInv' /\ \A d : AllEdges(d)' = AllEdges(d)
  BY <1>1, RegistryKept, Zenon
<1>3. GraphVerdict'
  BY <1>1, VerdictKept, Zenon
<1>4. WalkInv'
  BY <1>1, Zenon DEF PlugInv, WalkInv
<1>5. /\ order = <<>> /\ IsFiniteSet(dependents)
      /\ \A e \in dependents : \E id \in DOMAIN dependencies : e \in AllEdges(id)
      /\ \A id \in DOMAIN dependencies : AllEdges(id) \subseteq dependents
  BY <1>1, Zenon DEF PlugInv, EdgeInv
<1>6. EdgeInv'
  BY <1>1, <1>2, <1>5, Zenon DEF PlugInv, EdgeInv
<1>7. \A d : Waiting(d)' = {e \in dependents : Dependent(e) = d}
  BY <1>1, <1>5 DEF Waiting, In, Dependent, Provider
<1>8. \A id : \A e \in AllEdges(id) : Dependent(e) = id
  BY EdgesMean DEF AllEdges, Dependent
<1>9. ASSUME NEW d \in DOMAIN byID PROVE Degree(d) = Cardinality(Waiting(d)') /\ Degree(d) \in Nat
  <2>1. CASE d \in DOMAIN dependencies
    <3>1. Waiting(d)' = AllEdges(d)
      BY <1>5, <1>7, <1>8, <2>1, ZenonT(60)
    <3>2. IsFiniteSet(AllEdges(d))
      BY <2>1, EdgesFinite, Zenon DEF PlugInv, AllEdges
    <3> QED
      BY <2>1, <3>1, <3>2, FS_CardinalityType, ZenonT(60) DEF Degree, AllEdges
  <2>2. CASE d \notin DOMAIN dependencies
    <3>1. Waiting(d)' = {}
      BY <1>5, <1>7, <1>8, <2>2, SMTT(60)
    <3> QED
      BY <2>2, <3>1, FS_EmptySet, Zenon DEF Degree
  <2> QED
    BY <2>1, <2>2, Zenon
<1>10. IsFiniteSet(Z) /\ Z \subseteq DOMAIN byID
  BY FS_Subset, Zenon DEF PlugInv, RegInv
<1>11. /\ queue' \in Seq(DOMAIN byID) /\ IsInjective(queue')
       /\ \A x : In(x, queue') <=> x \in Z
  BY <1>1, <1>10, SeqsOfSet, SeqMonotonic, SMTT(60)
<1>12. order' = <<>> /\ order' \in Seq(DOMAIN byID') /\ IsInjective(order') /\ \A x : ~In(x, order')
  BY <1>1, <1>5 DEF In, IsInjective
<1>13. DegreesInv'
  BY <1>1, <1>9, Zenon DEF DegreesInv
<1>14. SortInv'
  <2>1. \A d \in DOMAIN byID' : inDegree'[d] = Cardinality(Waiting(d)')
    BY <1>1, <1>9, Zenon
  <2>2. \A d \in DOMAIN byID' : inDegree'[d] = 0 <=> In(d, order') \/ In(d, queue')
    BY <1>1, <1>11, <1>12, Zenon
  <2>3. 1..Len(order') = {}
    BY <1>12
  <2> QED
    BY <1>1, <1>11, <1>12, <2>1, <2>2, <2>3, ZenonT(60) DEF SortInv, In
<1> QED
  BY <1>2, <1>3, <1>4, <1>6, <1>13, <1>14, ZenonT(60) DEF PlugInv

-----------------------------------------------------------------------------
\* One turn of the loop.
LEMMA PopKeeps ==
  ASSUME PlugInv, Pop
  PROVE  PlugInv'
<1> DEFINE h == Head(queue)
           R(d) == {e \in dependents : Provider(e) = h /\ Dependent(e) = d}
           F == {d \in DOMAIN inDegree : inDegree[d] \in 1..Released(d)}
<1>1. /\ UNCHANGED <<setup, boot, graph, file, byID, byCapability, dependencies, dependents,
                     sortedStartup, ranged>>
      /\ boot = "sort" /\ queue # <<>>
      /\ inDegree' = [d \in DOMAIN inDegree |-> inDegree[d] - Released(d)]
      /\ order' = Append(order, h)
  BY Zenon DEF Pop, registry
<1>2. PICK freed \in Orderings(F) : queue' = Tail(queue) \o freed
  BY Zenon DEF Pop
<1>3. RegInv' /\ \A d : AllEdges(d)' = AllEdges(d)
  BY <1>1, RegistryKept, Zenon
<1>4. GraphVerdict'
  BY <1>1, VerdictKept, Zenon
<1>5. WalkInv'
  BY <1>1, Zenon DEF PlugInv, WalkInv
<1>6. EdgeInv'
  BY <1>1, <1>3, Zenon DEF PlugInv, EdgeInv
<1>7. /\ order \in Seq(DOMAIN byID) /\ IsInjective(order)
      /\ queue \in Seq(DOMAIN byID) /\ IsInjective(queue)
      /\ \A x \in DOMAIN byID : ~(In(x, order) /\ In(x, queue))
      /\ DOMAIN inDegree = DOMAIN byID
      /\ \A d \in DOMAIN byID : inDegree[d] = Cardinality(Waiting(d))
      /\ \A d \in DOMAIN byID : inDegree[d] = 0 <=> In(d, order) \/ In(d, queue)
      /\ \A i \in 1..Len(order) : \A e \in dependents :
           Dependent(e) = order[i] => \E k \in 1..i - 1 : order[k] = Provider(e)
      /\ IsFiniteSet(dependents) /\ IsFiniteSet(DOMAIN byID)
  BY <1>1, Zenon DEF PlugInv, SortInv, EdgeInv, RegInv
\* The head of the queue, which is not ordered yet.
<1>8. /\ h \in DOMAIN byID /\ h = queue[1] /\ Len(queue) \in Nat \ {0} /\ Len(order) \in Nat
      /\ In(h, queue) /\ ~In(h, order)
  <2>1. h \in DOMAIN byID /\ h = queue[1] /\ Len(queue) \in Nat \ {0} /\ Len(order) \in Nat
    BY <1>1, <1>7
  <2>2. In(h, queue)
    BY <2>1, SMTT(60) DEF In
  <2> QED
    BY <1>7, <2>1, <2>2, ZenonT(60)
<1>9. /\ Len(order') = Len(order) + 1 /\ order' \in Seq(DOMAIN byID)
      /\ \A k \in 1..Len(order) : order'[k] = order[k]
      /\ order'[Len(order) + 1] = h
  BY <1>1, <1>7, <1>8, SMTT(60)
<1>10. \A x : In(x, order)' <=> In(x, order) \/ x = h
  BY <1>8, <1>9, SMTT(30) DEF In
<1>11. /\ Tail(queue) \in Seq(DOMAIN byID) /\ Len(Tail(queue)) = Len(queue) - 1
       /\ \A k \in 1..Len(queue) - 1 : Tail(queue)[k] = queue[k + 1]
  BY <1>1, <1>7, HeadTailProperties, ZenonT(60)
\* The degrees: the edges from h are waited for no longer.
<1>12. ASSUME NEW d \in DOMAIN byID
       PROVE  /\ IsFiniteSet(Waiting(d)) /\ R(d) \subseteq Waiting(d) /\ Waiting(d)' = Waiting(d) \ R(d)
              /\ inDegree[d] \in Nat /\ Released(d) \in 0..inDegree[d]
              /\ inDegree'[d] = inDegree[d] - Released(d)
              /\ inDegree'[d] = Cardinality(Waiting(d)')
  <2>1. IsFiniteSet(Waiting(d))
    BY <1>7, FS_Subset, Zenon DEF Waiting
  <2>2. R(d) \subseteq Waiting(d)
    BY <1>8, Zenon DEF Waiting
  <2>3. Waiting(d)' = Waiting(d) \ R(d)
    <3>1. Waiting(d)' = {e \in dependents : Dependent(e) = d /\ ~(In(Provider(e), order) \/ Provider(e) = h)}
      BY <1>1, <1>10, Zenon DEF Waiting, Dependent, Provider
    <3> QED
      BY <3>1, Zenon DEF Waiting
  <2>4. Released(d) = Cardinality(R(d))
    BY Zenon DEF Released
  <2>5. R(d) = Waiting(d) \cap R(d)
    BY <2>2, Zenon
  <2>6. /\ Cardinality(R(d)) \in Nat /\ Cardinality(Waiting(d)) \in Nat
        /\ Cardinality(Waiting(d) \ R(d)) \in Nat
        /\ Cardinality(Waiting(d) \ R(d)) = Cardinality(Waiting(d)) - Cardinality(R(d))
    <3> HIDE DEF R
    <3>1. IsFiniteSet(R(d)) /\ IsFiniteSet(Waiting(d) \ R(d))
      BY <2>1, <2>2, FS_Subset, FS_Difference, ZenonT(60)
    <3>2. Cardinality(Waiting(d) \ R(d)) = Cardinality(Waiting(d)) - Cardinality(Waiting(d) \cap R(d))
      BY <2>1, FS_Difference, Zenon
    <3> QED
      BY <2>1, <2>5, <3>1, <3>2, FS_CardinalityType, ZenonT(60)
  <2>7. inDegree[d] = Cardinality(Waiting(d))
    BY <1>7, Zenon
  <2>8. inDegree'[d] = inDegree[d] - Released(d)
    BY <1>1, <1>7, ZenonT(60)
  <2> HIDE DEF R
  <2> QED
    BY <2>1, <2>2, <2>3, <2>4, <2>6, <2>7, <2>8, SMTT(60)
\* The plugins that reach 0 in this turn.
<1>13. \A d \in DOMAIN byID : d \in F <=> inDegree[d] # 0 /\ inDegree'[d] = 0
  BY <1>7, <1>12, SMTT(60)
<1>14. F \subseteq DOMAIN byID /\ IsFiniteSet(F)
  BY <1>7, FS_Subset, Zenon
<1> HIDE DEF F
<1>15. /\ freed \in Seq(DOMAIN byID) /\ IsInjective(freed) /\ Len(freed) \in Nat
       /\ \A x : In(x, freed) <=> x \in F
  BY <1>14, SeqsOfSet, SeqMonotonic, SMTT(60)
<1>16. /\ queue' \in Seq(DOMAIN byID) /\ Len(queue') = Len(queue) - 1 + Len(freed)
       /\ \A k \in 1..Len(queue) - 1 : queue'[k] = queue[k + 1]
       /\ \A k \in 1..Len(freed) : queue'[k + Len(queue) - 1] = freed[k]
  BY <1>2, <1>8, <1>11, <1>15, ConcatProperties, SMTT(60)
<1>17. \A x : In(x, queue)' <=> (In(x, queue) /\ x # h) \/ x \in F
  <2>1. \A k \in 1..Len(queue') : \/ k \in 1..Len(queue) - 1
                                  \/ \E j \in 1..Len(freed) : k = j + Len(queue) - 1
    <3> TAKE k \in 1..Len(queue')
    <3>1. CASE k > Len(queue) - 1
      <4>1. k - (Len(queue) - 1) \in 1..Len(freed)
        BY <1>8, <1>15, <1>16, <3>1, SMTT(60)
      <4>2. k = (k - (Len(queue) - 1)) + Len(queue) - 1
        BY <1>8, <1>15, <1>16, SMTT(60)
      <4> QED
        BY <4>1, <4>2, Zenon
    <3> QED
      BY <1>8, <1>15, <1>16, <3>1, SMTT(60)
  <2>2. \A x : In(x, queue)' => (In(x, queue) /\ x # h) \/ x \in F
    <3> SUFFICES ASSUME NEW k \in 1..Len(queue')
                 PROVE  (In(queue'[k], queue) /\ queue'[k] # h) \/ queue'[k] \in F
      BY Zenon DEF In
    <3>1. CASE k \in 1..Len(queue) - 1
      <4>1. queue'[k] = queue[k + 1] /\ k + 1 \in 1..Len(queue) /\ k + 1 # 1 /\ DOMAIN queue = 1..Len(queue)
        BY <1>7, <1>8, <1>16, <3>1, SMTT(60)
      <4> QED
        BY <1>7, <1>8, <4>1, SMTT(60) DEF In, IsInjective
    <3>2. CASE \E j \in 1..Len(freed) : k = j + Len(queue) - 1
      BY <1>15, <1>16, <3>2, Zenon DEF In
    <3> QED
      BY <2>1, <3>1, <3>2, Zenon
  <2>3. \A x : In(x, queue) /\ x # h => In(x, queue)'
    <3> SUFFICES ASSUME NEW k \in 1..Len(queue), queue[k] # h
                 PROVE  In(queue[k], queue')
      BY Zenon DEF In
    <3>1. k - 1 \in 1..Len(queue) - 1 /\ k - 1 \in 1..Len(queue') /\ (k - 1) + 1 = k
      BY <1>8, <1>15, <1>16, SMTT(60)
    <3> QED
      BY <1>16, <3>1, Zenon DEF In
  <2>4. \A x \in F : In(x, queue)'
    <3> TAKE x \in F
    <3>1. PICK j \in 1..Len(freed) : freed[j] = x
      BY <1>15, Zenon DEF In
    <3>2. j + Len(queue) - 1 \in 1..Len(queue')
      BY <1>8, <1>15, <1>16, SMTT(60)
    <3> QED
      BY <1>16, <3>1, <3>2, Zenon DEF In
  <2> QED
    BY <2>2, <2>3, <2>4, ZenonT(60)
<1>18. \A x \in F : ~In(x, order) /\ ~In(x, queue)
  BY <1>7, <1>13, <1>14, Zenon
<1>19. IsInjective(queue')
  <2>1. \A k \in 1..Len(queue') : \/ k \in 1..Len(queue) - 1
                                  \/ k - (Len(queue) - 1) \in 1..Len(freed)
    BY <1>8, <1>15, <1>16, SMTT(60)
  <2>2. DOMAIN queue' = 1..Len(queue') /\ DOMAIN queue = 1..Len(queue) /\ DOMAIN freed = 1..Len(freed)
    BY <1>7, <1>15, <1>16
  <2>3. \A k \in 1..Len(queue) - 1 : k + 1 \in 1..Len(queue)
    BY <1>8
  <2>4. \A a, b \in 1..Len(queue) - 1 : queue'[a] = queue'[b] => a = b
    <3> TAKE a, b \in 1..Len(queue) - 1
    <3>1. queue'[a] = queue[a + 1] /\ queue'[b] = queue[b + 1]
      BY <1>16, Zenon
    <3>2. a + 1 \in DOMAIN queue /\ b + 1 \in DOMAIN queue
      BY <2>2, <2>3, Zenon
    <3>3. queue[a + 1] = queue[b + 1] => a + 1 = b + 1
      BY <1>7, <3>2, Zenon DEF IsInjective
    <3> QED
      BY <1>8, <3>1, <3>3, SMTT(60)
  <2>5. \A a \in 1..Len(queue') : a - (Len(queue) - 1) \in 1..Len(freed) =>
          queue'[a] = freed[a - (Len(queue) - 1)]
    BY <1>8, <1>15, <1>16
  <2>6. \A a, b \in 1..Len(queue') :
          a - (Len(queue) - 1) \in 1..Len(freed) /\ b - (Len(queue) - 1) \in 1..Len(freed)
          /\ queue'[a] = queue'[b] => a = b
    <3> SUFFICES ASSUME NEW a \in 1..Len(queue'), NEW b \in 1..Len(queue'),
                        a - (Len(queue) - 1) \in 1..Len(freed), b - (Len(queue) - 1) \in 1..Len(freed),
                        queue'[a] = queue'[b]
                 PROVE  a = b
      BY Zenon
    <3>1. a - (Len(queue) - 1) = b - (Len(queue) - 1)
      BY <1>15, <2>2, <2>5, ZenonT(60) DEF IsInjective
    <3>2. Len(queue') \in Nat
      BY <1>8, <1>15, <1>16
    <3> QED
      BY <1>8, <3>1, <3>2
  <2>7. \A a, b \in 1..Len(queue') :
          a \in 1..Len(queue) - 1 /\ b - (Len(queue) - 1) \in 1..Len(freed) => queue'[a] # queue'[b]
    <3> SUFFICES ASSUME NEW a \in 1..Len(queue'), NEW b \in 1..Len(queue'),
                        a \in 1..Len(queue) - 1, b - (Len(queue) - 1) \in 1..Len(freed)
                 PROVE  queue'[a] # queue'[b]
      BY Zenon
    <3>1. In(queue'[a], queue)
      BY <1>16, <2>3, Zenon DEF In
    <3>2. queue'[b] \in F
      BY <1>15, <2>5, Zenon DEF In
    <3> QED
      BY <1>18, <3>1, <3>2, Zenon
  <2> QED
    BY <2>1, <2>2, <2>4, <2>6, <2>7, ZenonT(60) DEF IsInjective
<1>20. IsInjective(order')
  <2>1. DOMAIN order' = 1..Len(order') /\ DOMAIN order = 1..Len(order)
    BY <1>7, <1>9
  <2>2. \A k \in 1..Len(order') : k \in 1..Len(order) \/ k = Len(order) + 1
    BY <1>8, <1>9
  <2>3. \A k \in 1..Len(order) : order'[k] # h
    BY <1>8, <1>9, Zenon DEF In
  <2> QED
    BY <1>7, <1>9, <2>1, <2>2, <2>3, ZenonT(60) DEF IsInjective
<1>21. \A x \in DOMAIN byID : ~(In(x, order)' /\ In(x, queue)')
  <2>1. h \notin F
    BY <1>8, <1>18, Zenon
  <2> QED
    BY <1>7, <1>10, <1>17, <1>18, <2>1, ZenonT(60)
<1>22. \A d \in DOMAIN byID : inDegree'[d] = 0 <=> In(d, order)' \/ In(d, queue)'
  <2> TAKE d \in DOMAIN byID
  <2>1. inDegree[d] = 0 => inDegree'[d] = 0
    BY <1>12, SMTT(30)
  <2>2. inDegree'[d] = 0 <=> inDegree[d] = 0 \/ d \in F
    BY <1>13, <2>1, ZenonT(60)
  <2> QED
    BY <1>7, <1>8, <1>10, <1>17, <2>2, ZenonT(60)
<1>23. ASSUME NEW i \in 1..Len(order'), NEW e \in dependents, Dependent(e) = order'[i]
       PROVE  \E k \in 1..i - 1 : order'[k] = Provider(e)
  <2>1. CASE i \in 1..Len(order)
    <3>1. PICK k \in 1..i - 1 : order[k] = Provider(e)
      BY <1>7, <1>9, <1>23, <2>1, ZenonT(60)
    <3>2. k \in 1..Len(order)
      BY <1>8, <2>1
    <3> QED
      BY <1>9, <3>1, <3>2, Zenon
  <2>2. CASE i = Len(order) + 1
    <3>1. Dependent(e) = h
      BY <1>9, <1>23, <2>2, Zenon
    <3>2. inDegree[h] = 0
      BY <1>7, <1>8, Zenon
    <3>3. Waiting(h) = {}
      BY <1>7, <1>8, <1>12, <3>2, FS_EmptySet, Zenon
    <3>4. In(Provider(e), order)
      BY <3>1, <3>3, Zenon DEF Waiting
    <3>5. i - 1 = Len(order)
      BY <1>8, <2>2, SMTT(60)
    <3> QED
      BY <1>9, <3>4, <3>5, Zenon DEF In
  <2> QED
    BY <1>8, <1>9, <2>1, <2>2, SMTT(60)
<1>24. DegreesInv'
  BY <1>1, <1>7, <1>12, SMTT(60) DEF DegreesInv
<1>25. SortInv'
  <2>1. DOMAIN inDegree' = DOMAIN byID'
    BY <1>1, <1>7, Zenon
  <2>2. \A d \in DOMAIN byID' : inDegree'[d] = Cardinality(Waiting(d)')
    BY <1>1, <1>12, Zenon
  <2>3. (\A i \in 1..Len(order) : \A e \in dependents :
           Dependent(e) = order[i] => \E k \in 1..i - 1 : order[k] = Provider(e))'
    BY <1>1, <1>23, Zenon DEF Dependent, Provider
  <2> QED
    BY <1>1, <1>9, <1>16, <1>19, <1>20, <1>21, <1>22, <2>1, <2>2, <2>3, ZenonT(30) DEF SortInv
<1> QED
  BY <1>3, <1>4, <1>5, <1>6, <1>24, <1>25, ZenonT(60) DEF PlugInv

-----------------------------------------------------------------------------
\* The loop is over: the order is complete, or what is missing from it waits
\* for what is missing from it.
LEMMA SortedKeeps ==
  ASSUME PlugInv, Sorted
  PROVE  PlugInv'
<1>1. /\ UNCHANGED <<setup, file, byID, byCapability, dependencies, dependents, queue, ranged>>
      /\ boot = "sort" /\ queue = <<>> /\ inDegree' = <<>> /\ order' = <<>>
  BY Zenon DEF Sorted
<1>2. RegInv' /\ (\A d : AllEdges(d)' = AllEdges(d)) /\ \A a, b : DependsOn(a, b)' <=> DependsOn(a, b)
  BY <1>1, RegistryKept, Zenon
<1>3. /\ order \in Seq(DOMAIN byID) /\ IsInjective(order)
      /\ \A d \in DOMAIN byID : inDegree[d] = Cardinality(Waiting(d))
      /\ \A d \in DOMAIN byID : inDegree[d] = 0 <=> In(d, order) \/ In(d, queue)
      /\ \A i \in 1..Len(order) : \A e \in dependents :
           Dependent(e) = order[i] => \E k \in 1..i - 1 : order[k] = Provider(e)
      /\ IsFiniteSet(dependents) /\ IsFiniteSet(DOMAIN byID)
      /\ \A e \in dependents : \E id \in DOMAIN dependencies : e \in AllEdges(id)
      /\ \A id \in DOMAIN dependencies : AllEdges(id) \subseteq dependents
      /\ DOMAIN byCapability = Capability
      /\ \A id \in DOMAIN dependencies : dependencies[id] \in Seq(Capability)
      /\ \A c \in Capability : \A p \in byCapability[c] : p[1] \in DOMAIN byID
      /\ setup \in Setup /\ sortedStartup = <<>>
  BY <1>1, ZenonT(60) DEF PlugInv, SortInv, EdgeInv, RegInv, WalkInv
<1>4. Len(order) \in Nat /\ DOMAIN order = 1..Len(order) /\ order \in [1..Len(order) -> DOMAIN byID]
  BY <1>3
<1>5. DegreesInv'
  BY <1>1 DEF DegreesInv
\* An edge is a dependency, and the other way round.
<1>6. \A a, b : DependsOn(a, b) <=> \E e \in dependents : Dependent(e) = a /\ Provider(e) = b
  <2> TAKE a, b
  <2>1. ASSUME DependsOn(a, b) PROVE \E e \in dependents : Dependent(e) = a /\ Provider(e) = b
    <3>1. PICK i \in DOMAIN dependencies[a] : \E p \in byCapability[dependencies[a][i]] : p[1] = b
      BY <2>1, Zenon DEF DependsOn
    <3>2. PICK p \in byCapability[dependencies[a][i]] : p[1] = b
      BY <3>1, Zenon
    <3>3. <<<<a, i>>, p>> \in AllEdges(a)
      BY EdgesMean, Zenon DEF AllEdges
    <3>4. <<<<a, i>>, p>> \in dependents
      BY <1>3, <2>1, <3>3, Zenon DEF DependsOn
    <3> QED
      BY <3>2, <3>4, Zenon DEF Dependent, Provider
  <2>2. ASSUME NEW e \in dependents, Dependent(e) = a, Provider(e) = b PROVE DependsOn(a, b)
    <3>1. PICK id \in DOMAIN dependencies : e \in AllEdges(id)
      BY <1>3, Zenon
    <3>2. PICK i \in DOMAIN dependencies[id] : \E p \in byCapability[dependencies[id][i]] : e = <<<<id, i>>, p>>
      BY <3>1, EdgesMean DEF AllEdges
    <3> QED
      BY <2>2, <3>1, <3>2, SMTT(30) DEF DependsOn, Dependent, Provider
  <2> QED
    BY <2>1, <2>2, Zenon
<1>7. ASSUME boot' \in {"policy", "failed"}, graph' \in {"ok", "cycle"},
             boot' = "policy" /\ setup.strict => graph' = "ok"
      PROVE  WalkInv' /\ EdgeInv' /\ SortInv'
  <2>1. WalkInv'
    BY <1>1, <1>7, Zenon DEF PlugInv, WalkInv
  <2>2. EdgeInv'
    BY <1>1, <1>2, <1>7, Zenon DEF PlugInv, EdgeInv
  <2>3. SortInv'
    BY <1>7, Zenon DEF SortInv
  <2> QED
    BY <2>1, <2>2, <2>3, Zenon
<1>8. CASE /\ Len(order) = Cardinality(DOMAIN byID)
           /\ graph' = "ok" /\ sortedStartup' = order /\ boot' = "policy"
  <2>1. order \in Surjection(1..Len(order), DOMAIN byID)
    <3>1. order \in Injection(1..Len(order), DOMAIN byID)
      BY <1>3, <1>4, Zenon DEF Injection
    <3>2. IsFiniteSet(1..Len(order)) /\ Cardinality(1..Len(order)) = Len(order)
      BY <1>4, FS_Interval, SMTT(60)
    <3> QED
      BY <1>3, <1>8, <3>1, <3>2, FS_Injection, ZenonT(30)
  <2>2. Range(order) = DOMAIN byID
    BY <1>4, <2>1, ZenonT(30) DEF Surjection, Range
  <2>3. ASSUME NEW i \in DOMAIN order, NEW j \in DOMAIN order, DependsOn(order[i], order[j])
        PROVE  j < i
    <3>1. PICK e \in dependents : Dependent(e) = order[i] /\ Provider(e) = order[j]
      BY <1>6, <2>3, Zenon
    <3>2. PICK k \in 1..i - 1 : order[k] = order[j]
      BY <1>3, <1>4, <3>1, Zenon
    <3>3. k \in DOMAIN order
      BY <1>4, SMTT(30)
    <3>4. k = j
      BY <1>3, <3>2, <3>3, Zenon DEF IsInjective
    <3> QED
      BY <1>4, <3>4
  <2>4. pluginsList' = DOMAIN byID'
    BY <1>1, <1>8, <2>2, Zenon DEF pluginsList
  <2>5. (\A i, j \in DOMAIN sortedStartup : DependsOn(sortedStartup[i], sortedStartup[j]) => j < i)'
    BY <1>2, <1>8, <2>3, Zenon
  <2>6. GraphVerdict'
    BY <1>1, <1>3, <1>8, <2>2, <2>4, <2>5, ZenonT(60) DEF GraphVerdict
  <2> QED
    BY <1>2, <1>5, <1>7, <1>8, <2>6, Zenon DEF PlugInv
<1>9. CASE /\ Len(order) # Cardinality(DOMAIN byID)
           /\ graph' = "cycle" /\ boot' = Tolerated /\ UNCHANGED sortedStartup
  <2> DEFINE s == {d \in DOMAIN byID : ~In(d, order)}
  <2>1. s # {}
    <3> SUFFICES ASSUME s = {} PROVE FALSE
      BY Zenon
    <3>1. \A d \in DOMAIN byID : In(d, order)
      BY Zenon
    <3>2. order \in Injection(1..Len(order), DOMAIN byID) /\ order \in Surjection(1..Len(order), DOMAIN byID)
      BY <1>3, <1>4, <3>1, Zenon DEF Injection, Surjection, In
    <3>3. IsFiniteSet(1..Len(order)) /\ Cardinality(1..Len(order)) = Len(order)
      BY <1>4, FS_Interval, SMTT(60)
    <3> QED
      BY <1>3, <1>9, <3>2, <3>3, FS_Injection, ZenonT(60)
  <2>2. ASSUME NEW a \in s PROVE \E b \in s : DependsOn(a, b)
    <3>1. ~In(a, order) /\ ~In(a, queue) /\ inDegree[a] # 0
      BY <1>1, <1>3, SMTT(30) DEF In
    <3>2. Waiting(a) # {}
      BY <1>3, <3>1, FS_EmptySet, Zenon
    <3>3. PICK e \in dependents : Dependent(e) = a /\ ~In(Provider(e), order)
      BY <3>2, Zenon DEF Waiting
    <3>4. DependsOn(a, Provider(e))
      BY <1>6, <3>3, ZenonT(60)
    <3>5. Provider(e) \in DOMAIN byID
      BY <1>3, <3>4 DEF DependsOn
    <3> QED
      BY <3>3, <3>4, <3>5, Zenon
  <2>3. boot' \in {"policy", "failed"} /\ (boot' = "policy" => ~setup.strict)
    <3>1. setup.strict \in BOOLEAN
      BY <1>3, SetupDir, ZenonT(30)
    <3> QED
      BY <1>9, <3>1, Zenon DEF Tolerated
  <2>4. pluginsList' = DOMAIN byID'
    BY <1>1, <1>3, <1>9, Zenon DEF pluginsList
  <2>5. s \in SUBSET DOMAIN byID
    BY Zenon
  <2> HIDE DEF s
  <2>6. (\E t \in SUBSET DOMAIN byID : t # {} /\ \A a \in t : \E b \in t : DependsOn(a, b))'
    BY <1>1, <1>2, <2>1, <2>2, <2>5, ZenonT(60)
  <2>7. GraphVerdict'
    BY <1>9, <2>4, <2>6, ZenonT(60) DEF GraphVerdict
  <2> QED
    BY <1>2, <1>5, <1>7, <1>9, <2>3, <2>7, ZenonT(60) DEF PlugInv
<1> QED
  BY <1>8, <1>9, Zenon DEF Sorted

-----------------------------------------------------------------------------
(* The serving process.                                                    *)

\* One call: the counters of a direction are ordered, the pumps run only once
\* the stream is piped, and each end state was reached the way it must be.
CallInv(k) ==
  /\ k.recv <= k.sent /\ k.got <= k.resp
  /\ k.c2u = "send" => k.recv < k.sent
  /\ k.u2c = "send" => k.got < k.resp
  /\ k.st \in {"idle", "authz", "dial", "stream"} =>
       k.c2u = "idle" /\ k.u2c = "idle" /\ k.recv = 0 /\ k.got = 0 /\ ~k.halfUp
  /\ k.st # "ended" => k.verdict = "none"
  /\ k.halfUp => k.half /\ k.recv = k.sent /\ k.c2u = "nil"
  /\ k.u2c = "nil" => k.upEnd = "ok" /\ k.got = k.resp
  /\ k.verdict \in {"ok", "client"} => k.u2c = "nil"
  /\ k.verdict \in {"denied", "internal", "unimplemented", "unavailable"} =>
       k.c2u = "idle" /\ k.u2c = "idle" /\ k.recv = 0 /\ k.got = 0

ProcInv ==
  /\ setup \in Setup
  /\ phase \in {"starting", "serving", "hooks", "draining", "closing", "http", "exited", "fatal"}
  /\ phase # "starting" => boot = "built"
  /\ deadline \in BOOLEAN /\ forced \in BOOLEAN /\ conn \in BOOLEAN /\ http \in 0..MaxHttp
  /\ call \in [Call -> CallState]
  /\ \A c \in Call : CallInv(call[c])
  /\ ~setup.grpc => ~conn /\ \A c \in Call : ~Active(c)
  /\ forced => deadline
  /\ phase \in {"closing", "http", "exited"} /\ ~forced => \A c \in Call : ~Active(c)
  /\ phase \in {"http", "exited"} /\ conn => forced
  /\ phase = "exited" /\ http > 0 => deadline

LEMMA InitProcInv == Init => ProcInv
<1> SUFFICES ASSUME Init PROVE ProcInv
  BY Zenon
<1> USE ProcessAssumption
<1>1. Idle \in CallState /\ CallInv(Idle) /\ Idle.st = "idle"
  BY SMTT(30) DEF Idle, CallState, CallInv
<1>2. call \in [Call -> CallState] /\ \A c \in Call : CallInv(call[c]) /\ ~Active(c)
  BY <1>1, Zenon DEF Init, Active
<1>3. setup \in Setup
  BY Zenon DEF Init, PluginsInit
<1>4. /\ deadline \in BOOLEAN /\ ~deadline /\ forced \in BOOLEAN /\ ~forced /\ conn \in BOOLEAN /\ ~conn
      /\ phase = "starting" /\ http \in 0..MaxHttp
  <2>1. deadline = FALSE /\ forced = FALSE /\ conn = FALSE
    BY Zenon DEF Init
  <2>2. phase = "starting" /\ http \in 0..MaxHttp
    BY DEF Init
  <2> QED
    BY <2>1, <2>2, Zenon
<1> QED
  BY <1>2, <1>3, <1>4, ZenonT(60) DEF ProcInv

\* What a step of a call does to its record keeps CallInv, and only an arrival
\* makes a call active.
CallKept(k, r) ==
  /\ r \in CallState /\ CallInv(r)
  /\ r.st \in {"authz", "dial", "stream", "piping"} => k.st \in {"authz", "dial", "stream", "piping"}

LEMMA FieldsKept ==
  ASSUME NEW k \in CallState, CallInv(k)
  PROVE  /\ k.st = "authz" => \A v \in {"denied", "internal", "unimplemented"} :
              CallKept(k, [k EXCEPT !.st = "ended", !.verdict = v])
         /\ k.st = "authz" => CallKept(k, [k EXCEPT !.st = "dial"])
         /\ k.st \in {"dial", "stream"} => CallKept(k, [k EXCEPT !.st = "ended", !.verdict = "unavailable"])
         /\ k.st = "dial" => CallKept(k, [k EXCEPT !.st = "stream"])
         /\ k.st = "stream" => CallKept(k, [k EXCEPT !.st = "piping", !.c2u = "recv", !.u2c = "recv"])
         /\ ~k.half /\ k.sent < MaxFrames => CallKept(k, [k EXCEPT !.sent = @ + 1])
         /\ CallKept(k, [k EXCEPT !.half = TRUE])
         /\ CallKept(k, [k EXCEPT !.gone = TRUE])
         /\ CallKept(k, [k EXCEPT !.deaf = TRUE])
         /\ k.st = "piping" /\ k.upEnd = "open" /\ k.resp < MaxFrames
              => CallKept(k, [k EXCEPT !.resp = @ + 1])
         /\ k.upEnd = "open" => \A e \in {"ok", "err"} : CallKept(k, [k EXCEPT !.upEnd = e])
         /\ k.c2u = "recv" => CallKept(k, [k EXCEPT !.c2u = "err"])
         /\ k.c2u = "recv" /\ k.sent > k.recv => CallKept(k, [k EXCEPT !.c2u = "send"])
         /\ k.c2u = "recv" /\ k.half /\ k.sent = k.recv
              => CallKept(k, [k EXCEPT !.c2u = "nil", !.halfUp = TRUE])
         /\ k.c2u = "send" => CallKept(k, [k EXCEPT !.c2u = "recv", !.recv = @ + 1])
         /\ k.c2u = "send" => CallKept(k, [k EXCEPT !.c2u = "eof"])
         /\ k.c2u = "send" => CallKept(k, [k EXCEPT !.c2u = "err"])
         /\ k.u2c = "recv" /\ k.resp > k.got => CallKept(k, [k EXCEPT !.u2c = "send"])
         /\ k.u2c = "recv" /\ k.resp = k.got /\ k.upEnd # "open"
              => CallKept(k, [k EXCEPT !.u2c = IF k.upEnd = "ok" THEN "nil" ELSE "err"])
         /\ k.u2c \in {"recv", "send"} => CallKept(k, [k EXCEPT !.u2c = "err"])
         /\ k.u2c = "send" => CallKept(k, [k EXCEPT !.u2c = "recv", !.got = @ + 1])
         /\ k.st = "piping" /\ k.u2c \in {"nil", "err"} =>
              CallKept(k, [k EXCEPT !.st = "ended",
                 !.verdict = IF k.u2c = "err" THEN "upstream" ELSE IF k.c2u = "err" THEN "client" ELSE "ok"])
<1> USE ProcessAssumption
<1>1. k.st = "authz" => \A v \in {"denied", "internal", "unimplemented"} :
        CallKept(k, [k EXCEPT !.st = "ended", !.verdict = v])
  BY ZenonT(60) DEF CallKept, CallState, CallInv
<1>2. k.st = "authz" => CallKept(k, [k EXCEPT !.st = "dial"])
  BY Zenon DEF CallKept, CallState, CallInv
<1>3. k.st \in {"dial", "stream"} => CallKept(k, [k EXCEPT !.st = "ended", !.verdict = "unavailable"])
  BY Zenon DEF CallKept, CallState, CallInv
<1>4. k.st = "dial" => CallKept(k, [k EXCEPT !.st = "stream"])
  BY Zenon DEF CallKept, CallState, CallInv
<1>5. k.st = "stream" => CallKept(k, [k EXCEPT !.st = "piping", !.c2u = "recv", !.u2c = "recv"])
  BY Zenon DEF CallKept, CallState, CallInv
<1>6. ~k.half /\ k.sent < MaxFrames => CallKept(k, [k EXCEPT !.sent = @ + 1])
  BY DEF CallKept, CallState, CallInv
<1>7. CallKept(k, [k EXCEPT !.half = TRUE])
  <2> DEFINE r == [k EXCEPT !.half = TRUE]
  <2> SUFFICES CallKept(k, r)
    BY Zenon
  <2>1. r \in CallState
    BY Zenon DEF CallState, CallInv
  <2>2. /\ r.st = k.st /\ r.sent = k.sent /\ r.c2u = k.c2u /\ r.recv = k.recv
        /\ r.halfUp = k.halfUp /\ r.upEnd = k.upEnd /\ r.resp = k.resp /\ r.u2c = k.u2c
        /\ r.got = k.got /\ r.verdict = k.verdict
        /\ r.half
    BY ZenonT(60) DEF CallState
  <2> HIDE DEF r
  <2>4. CallInv(r)
    BY <2>2 DEF CallInv
  <2> QED
    BY <2>1, <2>2, <2>4, ZenonT(60) DEF CallKept
<1>8. CallKept(k, [k EXCEPT !.gone = TRUE])
  <2> DEFINE r == [k EXCEPT !.gone = TRUE]
  <2> SUFFICES CallKept(k, r)
    BY Zenon
  <2>1. r \in CallState
    BY Zenon DEF CallState, CallInv
  <2>2. /\ r.st = k.st /\ r.sent = k.sent /\ r.half = k.half /\ r.c2u = k.c2u
        /\ r.recv = k.recv /\ r.halfUp = k.halfUp /\ r.upEnd = k.upEnd /\ r.resp = k.resp
        /\ r.u2c = k.u2c /\ r.got = k.got /\ r.verdict = k.verdict
        /\ r.gone
    BY Zenon DEF CallState
  <2> HIDE DEF r
  <2>4. CallInv(r)
    BY <2>2, ZenonT(60) DEF CallInv
  <2> QED
    BY <2>1, <2>2, <2>4, Zenon DEF CallKept
<1>9. k.st = "piping" /\ k.upEnd = "open" /\ k.resp < MaxFrames
        => CallKept(k, [k EXCEPT !.resp = @ + 1])
  BY DEF CallKept, CallState, CallInv
<1>10. k.upEnd = "open" => \A e \in {"ok", "err"} : CallKept(k, [k EXCEPT !.upEnd = e])
  BY DEF CallKept, CallState, CallInv
<1>11. k.c2u = "recv" => CallKept(k, [k EXCEPT !.c2u = "err"])
  BY Zenon DEF CallKept, CallState, CallInv
<1>12. k.c2u = "recv" /\ k.sent > k.recv => CallKept(k, [k EXCEPT !.c2u = "send"])
  BY Zenon DEF CallKept, CallState, CallInv
<1>13. k.c2u = "recv" /\ k.half /\ k.sent = k.recv
        => CallKept(k, [k EXCEPT !.c2u = "nil", !.halfUp = TRUE])
  BY ZenonT(60) DEF CallKept, CallState, CallInv
<1>14. k.c2u = "send" => CallKept(k, [k EXCEPT !.c2u = "recv", !.recv = @ + 1])
  <2> DEFINE r == [k EXCEPT !.c2u = "recv", !.recv = @ + 1]
  <2> SUFFICES ASSUME k.c2u = "send" PROVE CallKept(k, r)
    BY Zenon
  <2>1. r \in CallState
    <3>1. k.recv + 1 \in 0..MaxFrames
      BY DEF CallState, CallInv
    <3> QED
      BY <3>1, Zenon DEF CallState
  <2>2. /\ r.st = k.st /\ r.sent = k.sent /\ r.half = k.half /\ r.halfUp = k.halfUp
        /\ r.upEnd = k.upEnd /\ r.resp = k.resp /\ r.u2c = k.u2c /\ r.got = k.got
        /\ r.verdict = k.verdict
        /\ r.c2u = "recv" /\ r.recv = k.recv + 1
    BY Zenon DEF CallState
  <2> HIDE DEF r
  <2>3. k.sent \in Nat /\ k.recv \in Nat /\ k.resp \in Nat /\ k.got \in Nat
    BY SMTT(60) DEF CallState
  <2>4. CallInv(r)
    BY <2>2, <2>3 DEF CallInv
  <2> QED
    BY <2>1, <2>2, <2>4, Zenon DEF CallKept
<1>15. k.c2u = "send" => CallKept(k, [k EXCEPT !.c2u = "eof"])
  BY Zenon DEF CallKept, CallState, CallInv
<1>16. k.c2u = "send" => CallKept(k, [k EXCEPT !.c2u = "err"])
  BY Zenon DEF CallKept, CallState, CallInv
<1>17. k.u2c = "recv" /\ k.resp > k.got => CallKept(k, [k EXCEPT !.u2c = "send"])
  BY Zenon DEF CallKept, CallState, CallInv
<1>18. k.u2c = "recv" /\ k.resp = k.got /\ k.upEnd # "open"
        => CallKept(k, [k EXCEPT !.u2c = IF k.upEnd = "ok" THEN "nil" ELSE "err"])
  BY DEF CallKept, CallState, CallInv
<1>19. k.u2c \in {"recv", "send"} => CallKept(k, [k EXCEPT !.u2c = "err"])
  BY ZenonT(60) DEF CallKept, CallState, CallInv
<1>20. k.u2c = "send" => CallKept(k, [k EXCEPT !.u2c = "recv", !.got = @ + 1])
  <2> DEFINE r == [k EXCEPT !.u2c = "recv", !.got = @ + 1]
  <2> SUFFICES ASSUME k.u2c = "send" PROVE CallKept(k, r)
    BY Zenon
  <2>1. r \in CallState
    <3>1. k.got + 1 \in 0..MaxFrames
      BY DEF CallState, CallInv
    <3> QED
      BY <3>1, ZenonT(60) DEF CallState
  <2>2. /\ r.st = k.st /\ r.sent = k.sent /\ r.half = k.half /\ r.c2u = k.c2u
        /\ r.recv = k.recv /\ r.halfUp = k.halfUp /\ r.upEnd = k.upEnd /\ r.resp = k.resp
        /\ r.verdict = k.verdict
        /\ r.u2c = "recv" /\ r.got = k.got + 1
    BY Zenon DEF CallState
  <2> HIDE DEF r
  <2>3. k.sent \in Nat /\ k.recv \in Nat /\ k.resp \in Nat /\ k.got \in Nat
    BY DEF CallState
  <2>4. CallInv(r)
    BY <2>2, <2>3 DEF CallInv
  <2> QED
    BY <2>1, <2>2, <2>4, Zenon DEF CallKept
<1>21. k.st = "piping" /\ k.u2c \in {"nil", "err"} =>
        CallKept(k, [k EXCEPT !.st = "ended",
        !.verdict = IF k.u2c = "err" THEN "upstream" ELSE IF k.c2u = "err" THEN "client" ELSE "ok"])
  BY ZenonT(60) DEF CallKept, CallState, CallInv
<1>22. CallKept(k, [k EXCEPT !.deaf = TRUE])
  <2> DEFINE r == [k EXCEPT !.deaf = TRUE]
  <2> SUFFICES CallKept(k, r)
    BY Zenon
  <2>1. r \in CallState
    BY Zenon DEF CallState, CallInv
  <2>2. /\ r.st = k.st /\ r.sent = k.sent /\ r.half = k.half /\ r.c2u = k.c2u
        /\ r.recv = k.recv /\ r.halfUp = k.halfUp /\ r.upEnd = k.upEnd /\ r.resp = k.resp
        /\ r.u2c = k.u2c /\ r.got = k.got /\ r.verdict = k.verdict
        /\ r.deaf
    BY Zenon DEF CallState
  <2> HIDE DEF r
  <2>4. CallInv(r)
    BY <2>2, ZenonT(60) DEF CallInv
  <2> QED
    BY <2>1, <2>2, <2>4, Zenon DEF CallKept
<1> QED
  BY <1>1, <1>2, <1>3, <1>4, <1>5, <1>6, <1>7, <1>8, <1>9, <1>10, <1>11, <1>12,
     <1>13, <1>14, <1>15, <1>16, <1>17, <1>18, <1>19, <1>20, <1>21, <1>22, SMTT(60)

\* A step of a call.
LEMMA CallStepKeeps ==
  ASSUME ProcInv, NEW c \in Call, CallStep(c), UNCHANGED pluginVars
  PROVE  ProcInv'
<1> DEFINE k == call[c]
<1>1. k \in CallState /\ CallInv(k) /\ call \in [Call -> CallState] /\ setup \in Setup
  BY Zenon DEF ProcInv
<1>2. UNCHANGED <<setup, boot>>
  BY Zenon DEF pluginVars
\* It is enough to look at the record.
<1>3. ASSUME NEW r, CallKept(k, r), Set(c, r), conn' = conn \/ (conn' = TRUE /\ Active(c))
      PROVE  ProcInv'
  <2>1. /\ call' \in [Call -> CallState] /\ call'[c] = r /\ \A d \in Call \ {c} : call'[d] = call[d]
        /\ UNCHANGED <<phase, deadline, forced, http>>
    BY <1>1, <1>3, Zenon DEF Set, CallKept
  <2>2. \A d \in Call : CallInv(call'[d])
    BY <1>3, <2>1, Zenon DEF CallKept, ProcInv
  <2>3. \A d \in Call : Active(d)' => Active(d)
    BY <1>3, <2>1, Zenon DEF CallKept, Active
  <2>4. conn' \in BOOLEAN
    BY <1>3, Zenon DEF ProcInv
  <2> QED
    BY <1>2, <1>3, <2>1, <2>2, <2>3, <2>4, SMTT(60) DEF ProcInv
<1>4. CASE CallArrives(c)
  <2> DEFINE r == [Idle EXCEPT !.st = "authz"]
  <2>1. r \in CallState /\ CallInv(r)
    <3>1. r \in CallState
      <4>1. Idle \in CallState
        BY ProcessAssumption DEF Idle, CallState
      <4> QED
        BY <4>1, Zenon DEF CallState
    <3>2. /\ r.st = "authz" /\ r.sent = 0 /\ r.c2u = "idle" /\ r.recv = 0 /\ r.halfUp = FALSE
          /\ r.resp = 0 /\ r.u2c = "idle" /\ r.got = 0 /\ r.verdict = "none"
      BY Zenon DEF Idle
    <3> HIDE DEF r
    <3> QED
      BY <3>1, <3>2 DEF CallInv
  <2>2. Set(c, r) /\ UNCHANGED conn /\ phase \in {"serving", "hooks"} /\ setup.grpc
    BY <1>4, Zenon DEF CallArrives
  <2> HIDE DEF r
  <2>3. /\ call' \in [Call -> CallState] /\ call'[c] = r /\ \A d \in Call \ {c} : call'[d] = call[d]
        /\ UNCHANGED <<phase, deadline, forced, http>>
    BY <1>1, <2>1, <2>2, Zenon DEF Set
  <2>4. \A d \in Call : CallInv(call'[d])
    BY <2>1, <2>3, Zenon DEF ProcInv
  <2> QED
    BY <1>2, <2>2, <2>3, <2>4, ZenonT(60) DEF ProcInv
<1>5. CASE Authorize(c)
  BY <1>1, <1>3, <1>5, FieldsKept, ZenonT(30) DEF Authorize, End
<1>6. CASE clientConn(c)
  BY <1>1, <1>3, <1>6, FieldsKept, ZenonT(30) DEF clientConn, End, Active
<1>7. CASE NewStream(c)
  BY <1>1, <1>3, <1>7, FieldsKept, ZenonT(30) DEF NewStream, End
<1>8. CASE ClientSends(c) \/ ClientHalfCloses(c) \/ ClientCancels(c)
  BY <1>1, <1>3, <1>8, FieldsKept, ZenonT(30) DEF ClientSends, ClientHalfCloses, ClientCancels
<1>9. CASE UpstreamSends(c) \/ UpstreamEnds(c)
  BY <1>1, <1>3, <1>9, FieldsKept, ZenonT(30) DEF UpstreamSends, UpstreamEnds
<1>10. CASE ClientRecv(c)
  BY <1>1, <1>3, <1>10, FieldsKept, ZenonT(60) DEF ClientRecv
<1>11. CASE SendUpstream(c)
  BY <1>1, <1>3, <1>11, FieldsKept, ZenonT(60) DEF SendUpstream
<1>12. CASE UpstreamRecv(c)
  BY <1>1, <1>3, <1>12, FieldsKept, ZenonT(30) DEF UpstreamRecv
<1>13. CASE SendClient(c)
  BY <1>1, <1>3, <1>13, FieldsKept, ZenonT(30) DEF SendClient
<1>14. CASE director(c)
  BY <1>1, <1>3, <1>14, FieldsKept, Zenon DEF director, End
<1>15. CASE PeerStopsReading(c)
  BY <1>1, <1>3, <1>15, FieldsKept, ZenonT(30) DEF PeerStopsReading
<1> QED
  BY <1>4, <1>5, <1>6, <1>7, <1>8, <1>9, <1>10, <1>11, <1>12, <1>13, <1>14, <1>15, Zenon DEF CallStep
\* A step of main.
LEMMA MainStepKeeps ==
  ASSUME ProcInv, MainStep, UNCHANGED pluginVars
  PROVE  ProcInv'
<1>1. UNCHANGED <<setup, boot>> /\ setup \in Setup
  BY Zenon DEF pluginVars, ProcInv
<1>2. CASE StartServers \/ ListenAndServeFails \/ Signal \/ HooksDone \/ Shutdown
  <2>1. UNCHANGED <<conn, call, http, forced, deadline>> /\ \A c \in Call : Active(c)' <=> Active(c)
    BY <1>2, Zenon DEF StartServers, ListenAndServeFails, Signal, HooksDone, Shutdown, Keep, Active
  <2> QED
    BY <1>1, <1>2, <2>1, SMTT(60) DEF StartServers, ListenAndServeFails, Signal, HooksDone, Shutdown, ProcInv
<1>3. CASE HttpArrives \/ HttpDone
  <2>1. /\ UNCHANGED <<conn, call, phase, forced, deadline>> /\ \A c \in Call : Active(c)' <=> Active(c)
        /\ phase # "exited"
    BY <1>3, Zenon DEF HttpArrives, HttpDone, Active, Running
  <2>2. http' \in 0..MaxHttp
    BY <1>3, ProcessAssumption, SMTT(30) DEF HttpArrives, HttpDone, ProcInv
  <2> QED
    BY <1>1, <2>1, <2>2, Zenon DEF ProcInv
<1>4. CASE Deadline
  <2>1. /\ UNCHANGED <<conn, call, phase, forced, http>> /\ deadline' = TRUE
        /\ \A c \in Call : Active(c)' <=> Active(c)
    BY <1>4, Zenon DEF Deadline, Active
  <2> QED
    BY <1>1, <2>1, Zenon DEF ProcInv
<1>5. CASE StopGRPC
  <2>1. phase = "draining" /\ phase' = "closing" /\ UNCHANGED <<deadline, http, conn>>
    BY <1>5, Zenon DEF StopGRPC
  <2>2. CASE (\A c \in Call : ~Active(c)) /\ UNCHANGED <<call, forced>>
    BY <1>1, <2>1, <2>2, Zenon DEF ProcInv, Active
  <2>3. CASE /\ deadline /\ forced' = TRUE
             /\ call' = [c \in Call |-> IF Active(c) THEN [call[c] EXCEPT !.gone = TRUE] ELSE call[c]]
    <3>1. \A c \in Call : CallKept(call[c], [call[c] EXCEPT !.gone = TRUE])
      BY FieldsKept, Zenon DEF ProcInv
    <3>2. \A c \in Call : call'[c] \in CallState /\ CallInv(call'[c]) /\ (Active(c)' => Active(c))
      BY <2>3, <3>1, Zenon DEF CallKept, Active, ProcInv
    <3>3. call' \in [Call -> CallState]
      BY <2>3, <3>2, Zenon
    <3> QED
      BY <1>1, <2>1, <2>3, <3>2, <3>3, ZenonT(60) DEF ProcInv
  <2> QED
    BY <1>5, <2>2, <2>3, Zenon DEF StopGRPC
<1>6. CASE CloseForwarder
  <2>1. /\ UNCHANGED <<call, deadline, forced, http>> /\ conn' = FALSE /\ phase = "closing" /\ phase' = "http"
        /\ \A c \in Call : Active(c)' <=> Active(c)
    BY <1>6, Zenon DEF CloseForwarder, Active
  <2> QED
    BY <1>1, <2>1, ZenonT(30) DEF ProcInv
<1> QED
  BY <1>2, <1>3, <1>4, <1>5, <1>6, ZenonT(60) DEF MainStep

\* Start-up leaves the process alone and never changes the configuration.
LEMMA StartupKeeps ==
  ASSUME ProcInv, phase = "starting", PluginsNext, UNCHANGED procVars
  PROVE  ProcInv'
<1>1. UNCHANGED setup
  BY Zenon DEF PluginsNext, ReadKey, discoverSingle, WalkEnds, SeedQueue, Pop, Sorted, BuildPolicy,
         buildPipelinePlugins, AddEdges
<1> QED
  BY <1>1, Zenon DEF ProcInv, procVars, Active

LEMMA ProcInvInductive == Spec => []ProcInv
<1>1. ProcInv /\ [Next]_vars => ProcInv'
  <2> SUFFICES ASSUME ProcInv, [Next]_vars PROVE ProcInv'
    BY Zenon
  <2>1. CASE UNCHANGED vars
    BY <2>1, Zenon DEF ProcInv, Active, vars, pluginVars, procVars
  <2> QED
    BY <2>1, StartupKeeps, MainStepKeeps, CallStepKeeps, Zenon DEF Next
<1> QED
  BY InitProcInv, <1>1, PTL DEF Spec

\* Every call a client sees succeed was forwarded whole, a refused one sent
\* nothing upstream, and the upstream learns of the end of the request only
\* after its last frame (director, forwardClientToUpstream,
\* forwardUpstreamToClient).
THEOREM CallsForwardedWhole == Spec => []ForwardedWhole
<1>1. ProcInv => ForwardedWhole
  BY Zenon DEF ProcInv, CallInv, ForwardedWhole
<1> QED
  BY ProcInvInductive, <1>1, PTL

\* What is left running at exit is left because the deadline has passed, and
\* an upstream connection outlives the forwarder only after a forced stop
\* (main, upstreamForwarder.Close).
THEOREM ShutdownLeavesOnlyAtDeadline == Spec => []LeftOnlyAtDeadline
<1>1. ProcInv => LeftOnlyAtDeadline
  BY Zenon DEF ProcInv, LeftOnlyAtDeadline
<1> QED
  BY ProcInvInductive, <1>1, PTL

-----------------------------------------------------------------------------
(* Start-up in the process.                                                *)

LEMMA PlugInvInductive == Spec => []PlugInv
<1>1. Init => PlugInv
  BY InitPlugInv, Zenon DEF Init
<1>2. PlugInv /\ [Next]_vars => PlugInv'
  <2> SUFFICES ASSUME PlugInv, [Next]_vars PROVE PlugInv'
    BY Zenon
  <2>1. CASE UNCHANGED pluginVars
    BY <2>1, MovesOn, Zenon
  <2>2. CASE PluginsNext
    BY <2>2, MovesOn, DiscoverKeeps, AddEdgesKeeps, SeedKeeps, PopKeeps, SortedKeeps, ZenonT(60) DEF PluginsNext
  <2> QED
    BY <2>1, <2>2, Zenon DEF Next, vars
<1> QED
  BY <1>1, <1>2, PTL DEF Spec

\* Every variable has its type: what the registry names is registered, a degree
\* never falls below 0, and the process serves only with a handler that was
\* built (bootstrap, BuildDependencyGraph, main).
THEOREM ProcessTypeCorrect == Spec => []TypeOK
<1>1. PlugInv /\ ProcInv => TypeOK
  <2> SUFFICES ASSUME PlugInv, ProcInv PROVE TypeOK
    BY Zenon
  <2>1. ASSUME NEW e \in dependents PROVE Dependent(e) \in DOMAIN dependencies /\ Provider(e) \in DOMAIN byID
    <3>1. PICK id \in DOMAIN dependencies : e \in AllEdges(id)
      BY Zenon DEF PlugInv, EdgeInv
    <3>2. PICK i \in DOMAIN dependencies[id] : \E p \in byCapability[dependencies[id][i]] : e = <<<<id, i>>, p>>
      BY <3>1, EdgesMean, SMTT(60) DEF AllEdges
    <3>3. dependencies[id][i] \in Capability
      BY SMTT(30) DEF PlugInv, RegInv
    <3> QED
      BY <3>2, <3>3 DEF PlugInv, RegInv, Dependent, Provider
  <2>2. PluginsTypeOK
    BY <2>1, Zenon DEF PlugInv, RegInv, WalkInv, EdgeInv, DegreesInv, PluginsTypeOK
  <2> QED
    BY <2>2, Zenon DEF ProcInv, TypeOK
<1> QED
  BY PlugInvInductive, ProcInvInductive, <1>1, PTL

\* BuildDependencyGraph is right for every registry and every order in which
\* Go ranges over its maps: a startup order names every plugin once and each
\* after its providers, a cycle or a missing capability is reported only when
\* there is one.
THEOREM StartupOrderCorrect == Spec => []GraphVerdict
<1>1. PlugInv => GraphVerdict
  BY Zenon DEF PlugInv
<1> QED
  BY PlugInvInductive, <1>1, PTL

\* A process that built its handler registered the manifests before the first
\* bad one and none after it; in strict mode there is none (Discover,
\* discoverSingle, bootstrap).
THEOREM DiscoveryKeepsPrefix == Spec => []DiscoversPrefix
<1>1. PlugInv => DiscoversPrefix
  BY Zenon DEF PlugInv, WalkInv, DiscoversPrefix, BuiltinIds
<1> QED
  BY PlugInvInductive, <1>1, PTL
=============================================================================
