---------------------------- MODULE PolicyReload ----------------------------
(***************************************************************************)
(* The policy engine of accessgate-proxy: loading a bundle (BundleLoader   *)
(* for WASM, RegoEngine.Load for Rego), the HotWatcher that reloads it     *)
(* when its mtime changes, and the evaluations that run meanwhile.         *)
(*                                                                         *)
(* A load is split at every access to the file system, because whoever     *)
(* publishes a bundle writes the file and its signature in between.        *)
(* Contents are versions; what the policy of a version says about an input *)
(* is the constant Says.  A WASM evaluation is split at its three accesses *)
(* to the memory of the module instance, which no lock protects.           *)
(***************************************************************************)
EXTENDS Integers, Sequences

CONSTANTS
  Version,      \* contents of the bundle file
  Compiles,     \* the versions that compile; those are taken to have the exports
  Signed,       \* the versions whoever holds the key signs
  First,        \* the version at start
  Input,        \* inputs of an evaluation
  Says,         \* Says[v][i]: "allow", "deny", "silent" (no allow field) or "bad"
  Eval,         \* evaluations in progress
  None,
  Kinds,        \* engines to start with: "wasm", "rego"
  Keys,         \* bundle keys to start with: "none", "pem", "base64" or "broken"
  Forms,        \* encodings of a signature file: "base64", "raw" or "garbled"
  MaxWrites,    \* bound on the writes to the bundle file and to its signature
  MaxFaults     \* bound on failed file accesses and evaluations

ASSUME PolicyAssumption ==
  /\ Compiles \subseteq Version /\ Signed \subseteq Version /\ First \in Signed
  /\ None \notin Version /\ None \notin Input
  /\ Says \in [Version -> [Input -> {"allow", "deny", "silent", "bad"}]]
  /\ Kinds \subseteq {"wasm", "rego"}
  /\ Keys \subseteq {"none", "pem", "base64", "broken"}
  /\ "base64" \in Forms /\ Forms \subseteq {"base64", "raw", "garbled"}
  /\ MaxWrites \in Nat /\ MaxFaults \in Nat

VARIABLES
  kind, key, fallbackAllow,   \* the configuration
  file,       \* the bundle file: content and mtime
  sig,        \* the signature file: what it signs (or None) and its encoding
  cache,      \* the loader's cached module: content and mtime
  engines,    \* the engines instantiated so far, by content; Rego has one
  current,    \* index of the engine that serves
  lastMod,    \* mtime of the last successful reload
  load,       \* the load in progress: pc, the watcher's stat, its own, the bytes
  ev,         \* the evaluations
  mem,        \* what the memory of each engine holds at offset 0
  missed,     \* the file changed in a way no mtime comparison can see
  writes, faults

cfgVars == <<kind, key, fallbackAllow>>
fileVars == <<file, sig, missed, writes>>
vars == <<kind, key, fallbackAllow, file, sig, cache, engines, current, lastMod,
          load, ev, mem, missed, writes, faults>>

Idle == [pc |-> "idle", input |-> None, engine |-> 0, by |-> None,
         overlap |-> FALSE, verdict |-> None]

Decision == [allow : BOOLEAN, status : Nat]

LoadState ==
  [pc : {"stat", "read", "install", "seed", "tick", "stopped", "failed"},
   seen : Nat, mtime : Nat, bytes : Version \cup {None}]

EvalState ==
  [pc : {"idle", "write", "call", "read", "done"}, input : Input \cup {None},
   engine : Nat, by : Version \cup {None}, overlap : BOOLEAN,
   verdict : {None} \cup Decision]

\* Every variable has its type; a Rego engine is replaced in place while a WASM
\* reload adds an instance, and the one that serves exists (HotWatcher).
TypeOK ==
  /\ kind \in Kinds /\ key \in Keys /\ fallbackAllow \in BOOLEAN
  /\ file \in [content : Version, mtime : Nat]
  /\ sig \in [over : Version \cup {None}, form : Forms]
  /\ cache \in [content : Version \cup {None}, mtime : Nat]
  /\ engines \in Seq(Version) /\ (kind = "rego" => Len(engines) <= 1)
  /\ current \in 0 .. Len(engines)
  /\ lastMod \in Nat
  /\ load \in LoadState
  /\ ev \in [Eval -> EvalState] /\ \A e \in Eval : ev[e].engine <= Len(engines)
  /\ mem \in Seq(Input \cup {None}) /\ Len(mem) = Len(engines)
  /\ missed \in BOOLEAN /\ writes \in 0 .. MaxWrites /\ faults \in 0 .. MaxFaults

Init ==
  /\ kind \in Kinds /\ key \in Keys /\ fallbackAllow \in BOOLEAN
  /\ file = [content |-> First, mtime |-> 1]
  /\ sig = [over |-> First, form |-> "base64"]
  /\ cache = [content |-> None, mtime |-> 0]
  /\ engines = <<>> /\ mem = <<>> /\ current = 0 /\ lastMod = 0
  /\ load = [pc |-> IF kind = "wasm" THEN "stat" ELSE "read",
             seen |-> 0, mtime |-> 0, bytes |-> None]
  /\ ev = [e \in Eval |-> Idle]
  /\ missed = FALSE /\ writes = 0 /\ faults = 0

-----------------------------------------------------------------------------
\* Whoever publishes policies.  A write gives the file a new mtime, or, on a
\* file system with coarse times, the one it had.
Publish(v) ==
  /\ writes < MaxWrites /\ v # file.content
  /\ \E m \in {file.mtime, file.mtime + 1} :
        /\ file' = [content |-> v, mtime |-> m]
        /\ missed' = (m = file.mtime)
  /\ writes' = writes + 1
  /\ UNCHANGED <<cfgVars, sig, cache, engines, current, lastMod, load, ev, mem, faults>>

\* The signature file is replaced, or removed (None).
Sign(v, form) ==
  /\ writes < MaxWrites
  /\ sig' = [over |-> v, form |-> form]
  /\ writes' = writes + 1
  /\ UNCHANGED <<cfgVars, file, cache, engines, current, lastMod, load, ev, mem,
                 missed, faults>>

-----------------------------------------------------------------------------
\* parseEd25519PublicKey takes a PEM block or bare base64.
parseEd25519PublicKey == key \in {"pem", "base64"}

\* decodeSignature takes base64 or the 64 raw bytes.
decodeSignature == sig.form \in {"base64", "raw"}

\* Mutant: the signature need not be one over these bytes.
BugVerifyBundleFile(v) == parseEd25519PublicKey /\ decodeSignature /\ sig.over # None

\* verifyBundleFile reads the signature file and checks it against the bytes
\* that were read before; a missing file, key or signature is an error.
verifyBundleFile(v) == parseEd25519PublicKey /\ decodeSignature /\ sig.over = v

\* A load that ends without an engine: at start the process stops, under the
\* watcher the last good engine stays and lastMod is not advanced.
LoadFails ==
  /\ load' = [pc |-> IF load.seen = 0 THEN "failed" ELSE "tick",
              seen |-> 0, mtime |-> 0, bytes |-> None]
  /\ UNCHANGED <<engines, current, lastMod, mem>>

\* Mutant: a Rego reload makes an engine of its own, too.
BugInstantiate(v) ==
  /\ engines' = Append(engines, v)
  /\ mem' = Append(mem, None)
  /\ current' = Len(engines) + 1

\* A WASM load instantiates the module anew (loadCompiled) and leaves the old
\* instance to the evaluations that run in it; a Rego load replaces the query
\* of the one engine.
Instantiate(v) ==
  IF kind = "rego" /\ current # 0
  THEN engines' = <<v>> /\ UNCHANGED <<current, mem>>
  ELSE /\ engines' = Append(engines, v)
       /\ mem' = Append(mem, None)
       /\ current' = Len(engines) + 1

LoadDone ==
  load' = [pc |-> IF load.seen = 0 THEN "seed" ELSE "tick",
           seen |-> 0, mtime |-> 0, bytes |-> None]

\* A new engine serves.  The first one is wrapped by NewHotWatcher next; a
\* later one is swapped in together with the mtime the watcher saw.
Swap(v) == Instantiate(v) /\ LoadDone /\ lastMod' = load.seen

\* LoadBundle stats the file first.
LoadStat ==
  /\ load.pc = "stat"
  /\ load' = [load EXCEPT !.pc = "read", !.mtime = file.mtime]
  /\ UNCHANGED <<cfgVars, fileVars, cache, engines, current, lastMod, ev, mem, faults>>

\* Then it reads the file (RegoEngine.Load only does that).
LoadRead ==
  /\ load.pc = "read"
  /\ load' = [load EXCEPT !.pc = "install", !.bytes = file.content]
  /\ UNCHANGED <<cfgVars, fileVars, cache, engines, current, lastMod, ev, mem, faults>>

\* The loader has a module compiled from the file of that mtime.
Cached == cache.content # None /\ cache.mtime = load.mtime

\* The cached module has the mtime of the stat: the bytes just read are
\* dropped and it is instantiated again, without a new verification.
InstallCached ==
  /\ load.pc = "install" /\ kind = "wasm" /\ Cached
  /\ Swap(cache.content)
  /\ UNCHANGED <<cfgVars, fileVars, cache, ev, faults>>

\* Otherwise LoadBundle verifies, compiles and caches under the stat's mtime,
\* before it instantiates: if that fails the cached module stays.
InstallWasm ==
  /\ load.pc = "install" /\ kind = "wasm" /\ ~Cached
  /\ IF (key = "none" \/ verifyBundleFile(load.bytes)) /\ load.bytes \in Compiles
     THEN /\ cache' = [content |-> load.bytes, mtime |-> load.mtime]
          /\ \/ Swap(load.bytes) /\ UNCHANGED faults
             \/ LoadFails /\ faults < MaxFaults /\ faults' = faults + 1
     ELSE LoadFails /\ UNCHANGED <<cache, faults>>
  /\ UNCHANGED <<cfgVars, fileVars, ev>>

\* RegoEngine.Load compiles and replaces the query of the one engine in place.
InstallRego ==
  /\ load.pc = "install" /\ kind = "rego"
  /\ IF load.bytes \in Compiles THEN Swap(load.bytes) ELSE LoadFails
  /\ UNCHANGED <<cfgVars, fileVars, cache, ev, faults>>

\* A file access of the load fails, or the instantiation of a cached module.
LoadError ==
  /\ load.pc \in {"stat", "read", "install"}
  /\ faults < MaxFaults
  /\ faults' = faults + 1
  /\ LoadFails
  /\ UNCHANGED <<cfgVars, fileVars, cache, ev>>

-----------------------------------------------------------------------------
\* NewHotWatcher seeds lastMod with a stat of its own, after the load; a stat
\* that fails leaves it zero.
Seed ==
  /\ load.pc = "seed"
  /\ \/ /\ lastMod' = file.mtime
        /\ missed' = (file.content # engines[current])
        /\ UNCHANGED faults
     \/ /\ faults < MaxFaults
        /\ faults' = faults + 1
        /\ UNCHANGED <<lastMod, missed>>
  /\ load' = [load EXCEPT !.pc = "tick"]
  /\ UNCHANGED <<cfgVars, file, sig, writes, cache, engines, current, ev, mem>>

\* Mutant: lastMod is advanced before the reload, so that a failed one is
\* never retried.
BugTick ==
  /\ load.pc = "tick" /\ file.mtime # lastMod
  /\ load' = [load EXCEPT !.pc = IF kind = "wasm" THEN "stat" ELSE "read",
                          !.seen = file.mtime]
  /\ lastMod' = file.mtime
  /\ UNCHANGED <<cfgVars, fileVars, cache, engines, current, ev, mem, faults>>

\* checkAndReload: the mtime differs from lastMod, so reload() runs.  A tick
\* that sees no change, or whose stat fails, changes nothing.
Tick ==
  /\ load.pc = "tick" /\ file.mtime # lastMod
  /\ load' = [load EXCEPT !.pc = IF kind = "wasm" THEN "stat" ELSE "read",
                          !.seen = file.mtime]
  /\ UNCHANGED <<cfgVars, fileVars, cache, engines, current, lastMod, ev, mem, faults>>

\* HotWatcher.Stop: the loop ends when it is next in its select.
Stop ==
  /\ load.pc = "tick"
  /\ load' = [load EXCEPT !.pc = "stopped"]
  /\ UNCHANGED <<cfgVars, fileVars, cache, engines, current, lastMod, ev, mem, faults>>

-----------------------------------------------------------------------------
fallbackDecision ==
  IF fallbackAllow THEN [allow |-> TRUE, status |-> 200]
                   ELSE [allow |-> FALSE, status |-> 503]

\* WASMRuntime.Evaluate decodes the output into a zero Decision.
WasmDecision(said) ==
  IF said = "bad" THEN fallbackDecision
  ELSE [allow |-> said = "allow", status |-> 0]

\* decisionFromAny starts from the fallback and overrides what is there.
decisionFromAny(said) ==
  IF said \in {"allow", "deny"}
  THEN [fallbackDecision EXCEPT !.allow = (said = "allow")]
  ELSE fallbackDecision

Others(e) == {o \in Eval \ {e} : ev[o].pc \in {"call", "read"} /\ ev[o].engine = ev[e].engine}

\* HotWatcher.Evaluate takes the engine that serves now.
Begin(e, i) ==
  /\ ev[e].pc = "idle" /\ current # 0 /\ load.pc \notin {"seed", "failed"}
  /\ ev' = [ev EXCEPT ![e] = [Idle EXCEPT !.pc = "write", !.input = i, !.engine = current]]
  /\ UNCHANGED <<cfgVars, fileVars, cache, engines, current, lastMod, load, mem, faults>>

\* RegoEngine.Evaluate reads the prepared query once and evaluates it.
EvaluateRego(e) ==
  /\ ev[e].pc = "write" /\ kind = "rego"
  /\ ev' = [ev EXCEPT ![e].pc = "done", ![e].by = engines[ev[e].engine],
       ![e].verdict = decisionFromAny(Says[engines[ev[e].engine]][ev[e].input])]
  /\ UNCHANGED <<cfgVars, fileVars, cache, engines, current, lastMod, load, mem, faults>>

\* mem.Write(0, inputJSON): whoever is between its own write and read on this
\* engine now shares the memory with e.
EvaluateWrite(e) ==
  /\ ev[e].pc = "write" /\ kind = "wasm"
  /\ mem' = [mem EXCEPT ![ev[e].engine] = ev[e].input]
  /\ ev' = [o \in Eval |->
       IF o = e THEN [ev[e] EXCEPT !.pc = "call", !.overlap = Others(e) # {}]
       ELSE IF o \in Others(e) THEN [ev[o] EXCEPT !.overlap = TRUE] ELSE ev[o]]
  /\ UNCHANGED <<cfgVars, fileVars, cache, engines, current, lastMod, load, faults>>

\* eval.Call runs the policy on what the memory holds and leaves its output
\* there: the verdict of that input.
EvaluateCall(e) ==
  /\ ev[e].pc = "call"
  /\ ev' = [ev EXCEPT ![e].pc = "read", ![e].by = engines[ev[e].engine],
       ![e].verdict = WasmDecision(Says[engines[ev[e].engine]][mem[ev[e].engine]])]
  /\ UNCHANGED <<cfgVars, fileVars, cache, engines, current, lastMod, load, mem, faults>>

\* mem.Read of the output.  Another call in between may have overwritten it
\* with its own output, or with something that does not parse.
EvaluateRead(e) ==
  /\ ev[e].pc = "read"
  /\ \E v \in {ev[e].verdict} \cup
          {ev[o].verdict : o \in {x \in Others(e) : ev[x].pc = "read"}} \cup
          (IF ev[e].overlap THEN {fallbackDecision} ELSE {}) :
       ev' = [ev EXCEPT ![e].pc = "done", ![e].verdict = v]
  /\ UNCHANGED <<cfgVars, fileVars, cache, engines, current, lastMod, load, mem, faults>>

\* The call trapped, or returned nothing.
EvaluateFails(e) ==
  /\ ev[e].pc = "call" /\ faults < MaxFaults
  /\ faults' = faults + 1
  /\ ev' = [ev EXCEPT ![e].pc = "done", ![e].verdict = fallbackDecision]
  /\ UNCHANGED <<cfgVars, fileVars, cache, engines, current, lastMod, load, mem>>

Return(e) ==
  /\ ev[e].pc = "done"
  /\ ev' = [ev EXCEPT ![e] = Idle]
  /\ UNCHANGED <<cfgVars, fileVars, cache, engines, current, lastMod, load, mem, faults>>

-----------------------------------------------------------------------------
Watcher ==
  \/ LoadStat \/ LoadRead \/ InstallCached \/ InstallWasm \/ InstallRego
  \/ Seed \/ Tick

Evaluation(e) ==
  \/ EvaluateRego(e) \/ EvaluateWrite(e) \/ EvaluateCall(e) \/ EvaluateRead(e)
  \/ EvaluateFails(e) \/ Return(e)

Next ==
  \/ \E v \in Version : Publish(v)
  \/ \E v \in Signed \cup {None}, form \in Forms : Sign(v, form)
  \/ Watcher \/ LoadError \/ Stop
  \/ \E e \in Eval : Evaluation(e) \/ \E i \in Input : Begin(e, i)

Spec == Init /\ [][Next]_vars

\* The ticker keeps firing and file accesses return: the watcher's own steps
\* are weakly fair.  Nothing is assumed of publishers, faults and requests.
FairSpec == Spec /\ WF_vars(Watcher)

-----------------------------------------------------------------------------
Signable(v) == kind = "rego" \/ key = "none" \/ v \in Signed

\* Whatever is written to the bundle and its signature while they are read,
\* only a content that compiles and, when a key is configured for WASM, that
\* the holder of the key signed ever decides about a request; and without
\* fallback_allow a request is allowed only because that content allows its
\* own input, whatever is reloaded meanwhile, unless another evaluation used
\* the memory of the same WASM instance (BundleLoader.LoadBundle,
\* verifyBundleFile, WASMRuntime.Evaluate, RegoEngine.Evaluate).
AllowIsSaid ==
  \A e \in Eval : ev[e].pc = "done" =>
    /\ ev[e].by # None => ev[e].by \in Compiles /\ Signable(ev[e].by)
    /\ ~fallbackAllow /\ ~ev[e].overlap /\ ev[e].verdict.allow
         => Says[ev[e].by][ev[e].input] = "allow"

\* The file on disk is one the loader accepts.
GoodFile ==
  /\ file.content \in Compiles
  /\ kind = "rego" \/ key = "none" \/ verifyBundleFile(file.content)

\* Once publishing and faults are over, a bundle that loads is the one that
\* serves, although reloads failed before, the signature came after the bundle
\* or the file changed while it was read.  Excepted are the changes that an
\* mtime comparison cannot see: a write that keeps the mtime, and one between
\* the first load and the stat of NewHotWatcher (HotWatcher.checkAndReload).
NewestServed ==
  <>[](GoodFile /\ ~missed /\ load.pc \notin {"stopped", "failed"}
         => current # 0 /\ engines[current] = file.content)

-----------------------------------------------------------------------------
\* What the documentation says and the code does not guarantee.

\* wasm.go: "Evaluate runs the loaded WASM policy with the given input": the
\* decision an evaluation returns is the fallback or the policy's decision on
\* its own input (WASMRuntime.Evaluate).
EvaluatesOwnInput ==
  \A e \in Eval :
    ev[e].pc = "done" /\ kind = "wasm" /\ ev[e].by # None
      => ev[e].verdict \in {fallbackDecision, WasmDecision(Says[ev[e].by][ev[e].input])}
=============================================================================
