------------------------- MODULE PolicyReloadProofs -------------------------
(***************************************************************************)
(* Type correctness of PolicyReload and the safety of what decides about a *)
(* request, for any number of versions, inputs and evaluations and for any *)
(* bound on writes and faults.                                             *)
(***************************************************************************)
EXTENDS PolicyReload, SequenceTheorems, TLAPS

\* A content that may decide: it compiles and it passed the signature check.
Trusted(v) == v \in Compiles /\ Signable(v)

\* The loader: what the cache and every instance hold was accepted once, what
\* is being installed was read from the file, and signatures come from the
\* holder of the key.
LoaderInv ==
  /\ sig.over \in Signed \cup {None}
  /\ cache.content # None => Trusted(cache.content)
  /\ current = Len(engines)
  /\ \A n \in 1 .. Len(engines) : Trusted(engines[n])
  /\ load.pc = "install" => load.bytes \in Version

\* One evaluation: it runs in an instance that exists; while it has the memory
\* to itself the memory holds its own input; and an allow that is not the
\* fallback is what the content that ran says of that input.
EvalInv(e) ==
  /\ ev[e].pc # "idle" => ev[e].input \in Input /\ ev[e].engine \in 1 .. Len(engines)
  /\ ev[e].by # None => Trusted(ev[e].by)
  /\ ev[e].pc = "call" /\ ~ev[e].overlap => mem[ev[e].engine] = ev[e].input
  /\ ev[e].pc \in {"read", "done"} => ev[e].verdict \in Decision
  /\ ev[e].pc \in {"read", "done"} /\ ~fallbackAllow /\ ~ev[e].overlap /\ ev[e].verdict.allow
       => Says[ev[e].by][ev[e].input] = "allow"

\* Two evaluations between their write and their read on one instance both
\* know that they share it.
SharingKnown ==
  \A e, o \in Eval :
    e # o /\ {ev[e].pc, ev[o].pc} \subseteq {"call", "read"} /\ ev[e].engine = ev[o].engine
      => ev[e].overlap

\* The inductive invariant.
IInv == TypeOK /\ LoaderInv /\ (\A e \in Eval : EvalInv(e)) /\ SharingKnown

-----------------------------------------------------------------------------
\* What EvaluateWrite makes of the evaluation that writes.
LEMMA CallTyped ==
  ASSUME NEW x \in EvalState, NEW b \in BOOLEAN
  PROVE  [x EXCEPT !.pc = "call", !.overlap = b] \in EvalState
BY Zenon DEF EvalState

\* What it makes of the others on the instance.
LEMMA OverlapTyped ==
  ASSUME NEW x \in EvalState
  PROVE  LET y == [x EXCEPT !.overlap = TRUE] IN
         /\ y \in EvalState /\ y.pc = x.pc /\ y.overlap
         /\ y.engine = x.engine /\ y.input = x.input /\ y.by = x.by /\ y.verdict = x.verdict
BY Zenon DEF EvalState

LEMMA InitIInv == Init => IInv
<1> SUFFICES ASSUME Init PROVE IInv
  BY Zenon
<1>1. TypeOK
  <2>1. /\ kind \in Kinds /\ key \in Keys /\ fallbackAllow \in BOOLEAN /\ missed \in BOOLEAN
    BY Zenon DEF Init
  <2>2. /\ file \in [content : Version, mtime : Nat]
        /\ sig \in [over : Version \cup {None}, form : Forms]
        /\ cache \in [content : Version \cup {None}, mtime : Nat]
        /\ engines \in Seq(Version) /\ (kind = "rego" => Len(engines) <= 1)
        /\ current \in 0 .. Len(engines)
        /\ lastMod \in Nat
        /\ mem \in Seq(Input \cup {None}) /\ Len(mem) = Len(engines)
        /\ writes \in 0 .. MaxWrites /\ faults \in 0 .. MaxFaults
    BY PolicyAssumption DEF Init
  <2>3. load \in LoadState
    BY PolicyAssumption, Zenon DEF Init, LoadState
  <2>4. Idle \in EvalState
    BY Zenon DEF Idle, EvalState
  <2>5. ev \in [Eval -> EvalState] /\ \A e \in Eval : ev[e].engine <= Len(engines)
    BY <2>4 DEF Init, Idle
  <2> QED
    BY <2>1, <2>2, <2>3, <2>5, Zenon DEF TypeOK
<1>2. LoaderInv
  BY PolicyAssumption DEF Init, LoaderInv
<1>3. \A e \in Eval : EvalInv(e)
  BY Zenon DEF Init, EvalInv, Idle
<1>4. SharingKnown
  BY Zenon DEF Init, SharingKnown, Idle
<1> QED
  BY <1>1, <1>2, <1>3, <1>4, Zenon DEF IInv

-----------------------------------------------------------------------------
\* A step that touches neither the instances nor the evaluations keeps what
\* is known of the evaluations.
LEMMA EvalsKept ==
  ASSUME IInv, UNCHANGED <<kind, key, fallbackAllow, engines, mem, ev>>
  PROVE  (\A e \in Eval : EvalInv(e))' /\ SharingKnown'
<1>1. \A v : Trusted(v)' <=> Trusted(v)
  BY Zenon DEF Trusted, Signable
<1>2. (\A e \in Eval : EvalInv(e))'
  BY <1>1, Zenon DEF IInv, EvalInv
<1>3. SharingKnown'
  BY Zenon DEF IInv, SharingKnown
<1> QED
  BY <1>2, <1>3, Zenon

\* A new engine: what ran before keeps its instance, and what it may decide.
LEMMA SwapKeeps ==
  ASSUME IInv, NEW v \in Version, Trusted(v), Swap(v), UNCHANGED <<cfgVars, ev>>
  PROVE  /\ engines' \in Seq(Version) /\ (kind' = "rego" => Len(engines') <= 1)
         /\ current' = Len(engines')
         /\ lastMod' \in Nat /\ load' \in LoadState /\ load'.pc # "install"
         /\ mem' \in Seq(Input \cup {None}) /\ Len(mem') = Len(engines')
         /\ \A e \in Eval : ev'[e].engine <= Len(engines')
         /\ (\A n \in 1 .. Len(engines) : Trusted(engines[n]))'
         /\ (\A e \in Eval : EvalInv(e))' /\ SharingKnown'
<1>1. \A w : Trusted(w)' <=> Trusted(w)
  BY Zenon DEF Trusted, Signable, cfgVars
<1>2. lastMod' \in Nat /\ load' \in LoadState /\ load'.pc # "install"
  <2>1. load.seen \in Nat
    BY Zenon DEF IInv, TypeOK, LoadState
  <2> QED
    BY <2>1, Zenon DEF Swap, LoadDone, LoadState
<1>3. SharingKnown'
  BY Zenon DEF IInv, SharingKnown
<1>4. /\ engines \in Seq(Version) /\ mem \in Seq(Input \cup {None}) /\ Len(mem) = Len(engines)
      /\ current = Len(engines) /\ (kind = "rego" => Len(engines) <= 1)
      /\ \A n \in 1 .. Len(engines) : Trusted(engines[n])
      /\ kind' = kind
  BY Zenon DEF IInv, TypeOK, LoaderInv, cfgVars
<1>5. /\ engines' \in Seq(Version) /\ (kind' = "rego" => Len(engines') <= 1)
      /\ current' = Len(engines') /\ Len(engines') >= Len(engines)
      /\ mem' \in Seq(Input \cup {None}) /\ Len(mem') = Len(engines')
      /\ \A n \in 1 .. Len(engines') : Trusted(engines'[n])
      /\ \A n \in 1 .. Len(engines) : mem'[n] = mem[n]
  <2>1. CASE kind = "rego" /\ current # 0
    <3>1. engines' = <<v>> /\ UNCHANGED <<current, mem>> /\ Len(engines) = 1
      BY <1>4, <2>1 DEF Swap, Instantiate
    <3> QED
      BY <1>4, <2>1, <3>1
  <2>2. CASE ~(kind = "rego" /\ current # 0)
    <3>1. engines' = Append(engines, v) /\ mem' = Append(mem, None) /\ current' = Len(engines) + 1
      BY <2>2, Zenon DEF Swap, Instantiate
    <3> QED
      BY <1>4, <2>2, <3>1
  <2> QED
    BY <2>1, <2>2, Zenon
<1>6. \A e \in Eval : ev'[e].engine <= Len(engines')
  <2>1. \A e \in Eval : ev[e].engine \in Nat /\ ev[e].engine <= Len(engines)
    BY ZenonT(60) DEF IInv, TypeOK, EvalState
  <2> QED
    BY <1>4, <1>5, <2>1
<1>7. ASSUME NEW e \in Eval
      PROVE  EvalInv(e)'
  <2>1. EvalInv(e) /\ UNCHANGED <<ev, fallbackAllow>>
    BY Zenon DEF IInv, cfgVars
  <2> QED
    BY <1>1, <1>4, <1>5, <2>1 DEF EvalInv
<1> QED
  BY <1>1, <1>2, <1>3, <1>5, <1>6, <1>7, Zenon

\* Publishers and the loader.
LEMMA LoaderStep ==
  ASSUME IInv,
         \/ \E v \in Version : Publish(v)
         \/ \E v \in Signed \cup {None}, form \in Forms : Sign(v, form)
         \/ Watcher \/ LoadError \/ Stop
  PROVE  IInv'
<1> USE PolicyAssumption
<1>0. \A v : Trusted(v) => v \in Version
  BY Zenon DEF Trusted
<1>1. ASSUME NEW v \in Version, Publish(v) PROVE IInv'
  <2>1. UNCHANGED <<kind, key, fallbackAllow, engines, mem, ev>>
    BY <1>1, Zenon DEF Publish, cfgVars
  <2>2. file' \in [content : Version, mtime : Nat] /\ missed' \in BOOLEAN /\ writes' \in 0 .. MaxWrites
    BY <1>1 DEF Publish, IInv, TypeOK
  <2>3. TypeOK'
    BY <1>1, <2>1, <2>2, ZenonT(60) DEF Publish, IInv, TypeOK
  <2>4. LoaderInv'
    BY <1>1, <2>1, Zenon DEF Publish, IInv, LoaderInv, Trusted, Signable
  <2> QED
    BY <2>1, <2>3, <2>4, EvalsKept, Zenon DEF IInv
<1>2. ASSUME NEW v \in Signed \cup {None}, NEW form \in Forms, Sign(v, form) PROVE IInv'
  <2>1. UNCHANGED <<kind, key, fallbackAllow, engines, mem, ev>>
    BY <1>2, Zenon DEF Sign, cfgVars
  <2>2. sig' \in [over : Version \cup {None}, form : Forms] /\ writes' \in 0 .. MaxWrites
    BY <1>2 DEF Sign, IInv, TypeOK
  <2>3. TypeOK'
    BY <1>2, <2>1, <2>2 DEF Sign, IInv, TypeOK
  <2>4. LoaderInv'
    BY <1>2, <2>1, Zenon DEF Sign, IInv, LoaderInv, Trusted, Signable
  <2> QED
    BY <2>1, <2>3, <2>4, EvalsKept, Zenon DEF IInv
<1>3. ASSUME LoadStat \/ LoadRead \/ Seed \/ Tick \/ Stop \/ LoadError PROVE IInv'
  <2>1. UNCHANGED <<kind, key, fallbackAllow, file, sig, cache, engines, current, mem, ev, writes>>
    BY <1>3, Zenon DEF LoadStat, LoadRead, Seed, Tick, Stop, LoadError, LoadFails, cfgVars, fileVars
  <2>2. load' \in LoadState /\ (load'.pc = "install" => load'.bytes \in Version)
    <3>1. /\ load \in LoadState /\ file.mtime \in Nat /\ file.content \in Version
          /\ load.pc = "install" => load.bytes \in Version
      BY Zenon DEF IInv, TypeOK, LoaderInv
    <3>2. CASE LoadStat
      BY <3>1, <3>2, Zenon DEF LoadStat, LoadState
    <3>3. CASE LoadRead
      BY <3>1, <3>3, Zenon DEF LoadRead, LoadState
    <3>4. CASE Tick
      BY <3>1, <3>4, Zenon DEF Tick, LoadState
    <3>5. CASE Seed \/ Stop
      BY <3>1, <3>5, ZenonT(60) DEF Seed, Stop, LoadState
    <3>6. CASE LoadError
      BY <3>6, Zenon DEF LoadError, LoadFails, LoadState
    <3> QED
      BY <1>3, <3>2, <3>3, <3>4, <3>5, <3>6, Zenon
  <2>3. lastMod' \in Nat /\ faults' \in 0 .. MaxFaults
    BY <1>3, SMTT(60) DEF LoadStat, LoadRead, Seed, Tick, Stop, LoadError, LoadFails, IInv, TypeOK
  <2>4. missed' \in BOOLEAN
    BY <1>3, Zenon DEF LoadStat, LoadRead, Seed, Tick, Stop, LoadError, LoadFails, IInv, TypeOK, fileVars
  <2>5. TypeOK'
    BY <2>1, <2>2, <2>3, <2>4, Zenon DEF IInv, TypeOK
  <2>6. LoaderInv'
    BY <2>1, <2>2, Zenon DEF IInv, LoaderInv, Trusted, Signable
  <2> QED
    BY <2>1, <2>5, <2>6, EvalsKept, Zenon DEF IInv
<1>4. ASSUME NEW v \in Version, Trusted(v), Swap(v), UNCHANGED <<cfgVars, fileVars, ev>>,
             faults' \in 0 .. MaxFaults,
             cache' \in [content : Version \cup {None}, mtime : Nat],
             cache'.content # None => Trusted(cache'.content)
      PROVE  IInv'
  <2>1. TypeOK'
    <3>1. current' \in 0 .. Len(engines')
      BY <1>4, SwapKeeps, SMTT(30)
    <3> QED
      BY <1>4, <3>1, SwapKeeps, Zenon DEF IInv, TypeOK, cfgVars, fileVars
  <2>2. LoaderInv'
    BY <1>4, SwapKeeps, Zenon DEF IInv, LoaderInv, cfgVars, fileVars, Trusted, Signable
  <2> QED
    BY <1>4, <2>1, <2>2, SwapKeeps, Zenon DEF IInv
<1>5. ASSUME InstallCached PROVE IInv'
  <2>1. cache.content # None /\ cache.content \in Version /\ Trusted(cache.content)
    BY <1>0, <1>5, Zenon DEF InstallCached, Cached, IInv, LoaderInv
  <2>2. Swap(cache.content) /\ UNCHANGED <<cfgVars, fileVars, ev, cache, faults>>
    BY <1>5, Zenon DEF InstallCached
  <2> QED
    BY <1>4, <2>1, <2>2, Zenon DEF IInv, TypeOK
<1>6. ASSUME InstallWasm PROVE IInv'
  <2>1. UNCHANGED <<cfgVars, fileVars, ev>>
    BY <1>6, Zenon DEF InstallWasm
  <2>2. CASE (key = "none" \/ verifyBundleFile(load.bytes)) /\ load.bytes \in Compiles
    <3>1. load.bytes \in Version /\ Trusted(load.bytes)
      BY <1>6, <2>2 DEF InstallWasm, IInv, LoaderInv, TypeOK, Trusted, Signable, verifyBundleFile
    <3>2. /\ cache' \in [content : Version \cup {None}, mtime : Nat]
          /\ cache'.content = load.bytes
      BY <1>6, <2>2, <3>1, SMTT(30) DEF InstallWasm, IInv, TypeOK, LoadState
    <3>3. CASE Swap(load.bytes) /\ UNCHANGED faults
      BY <1>4, <2>1, <3>1, <3>2, <3>3, Zenon DEF IInv, TypeOK
    <3>4. CASE LoadFails /\ faults < MaxFaults /\ faults' = faults + 1
      <4>1. UNCHANGED <<kind, key, fallbackAllow, file, sig, engines, current, lastMod, mem, ev, writes, missed>>
        BY <2>1, <3>4, Zenon DEF LoadFails, cfgVars, fileVars
      <4>2. load' \in LoadState /\ load'.pc # "install"
        BY <3>4, Zenon DEF LoadFails, LoadState
      <4>3. TypeOK'
        BY <3>2, <3>4, <4>1, <4>2, SMTT(60) DEF IInv, TypeOK
      <4>4. LoaderInv'
        BY <3>1, <3>2, <4>1, <4>2, Zenon DEF IInv, LoaderInv, Trusted, Signable
      <4> QED
        BY <4>1, <4>3, <4>4, EvalsKept, Zenon DEF IInv
    <3> QED
      BY <1>6, <2>2, <3>3, <3>4, Zenon DEF InstallWasm
  <2>3. CASE ~((key = "none" \/ verifyBundleFile(load.bytes)) /\ load.bytes \in Compiles)
    <3>1. LoadFails /\ UNCHANGED <<cache, faults>>
      BY <1>6, <2>3, Zenon DEF InstallWasm
    <3>2. UNCHANGED <<kind, key, fallbackAllow, file, sig, cache, engines, current, lastMod, mem, ev,
                      writes, missed, faults>>
      BY <2>1, <3>1, Zenon DEF LoadFails, cfgVars, fileVars
    <3>3. load' \in LoadState /\ load'.pc # "install"
      BY <3>1, Zenon DEF LoadFails, LoadState
    <3> QED
      BY <3>2, <3>3, EvalsKept, ZenonT(60) DEF IInv, TypeOK, LoaderInv, Trusted, Signable
  <2> QED
    BY <2>2, <2>3, Zenon
<1>7. ASSUME InstallRego PROVE IInv'
  <2>1. UNCHANGED <<cfgVars, fileVars, cache, ev, faults>> /\ kind = "rego"
    BY <1>7, Zenon DEF InstallRego
  <2>2. CASE load.bytes \in Compiles
    <3>1. load.bytes \in Version /\ Trusted(load.bytes) /\ Swap(load.bytes)
      BY <1>7, <2>2, Zenon DEF InstallRego, IInv, LoaderInv, Trusted, Signable
    <3> QED
      BY <1>4, <2>1, <3>1, Zenon DEF IInv, TypeOK, LoaderInv
  <2>3. CASE load.bytes \notin Compiles
    <3>1. UNCHANGED <<kind, key, fallbackAllow, file, sig, cache, engines, current, lastMod, mem, ev,
                      writes, missed, faults>>
      BY <1>7, <2>1, <2>3, Zenon DEF InstallRego, LoadFails, cfgVars, fileVars
    <3>2. load' \in LoadState /\ load'.pc # "install"
      BY <1>7, <2>3 DEF InstallRego, LoadFails, LoadState
    <3> QED
      BY <3>1, <3>2, EvalsKept, Zenon DEF IInv, TypeOK, LoaderInv, Trusted, Signable
  <2> QED
    BY <2>2, <2>3, Zenon
<1> QED
  BY <1>1, <1>2, <1>3, <1>5, <1>6, <1>7, Zenon DEF Watcher

-----------------------------------------------------------------------------
\* What the decisions of the two engines are, and when they allow.
LEMMA Decisions ==
  ASSUME fallbackAllow \in BOOLEAN
  PROVE  /\ fallbackDecision \in Decision
         /\ ~fallbackAllow => ~fallbackDecision.allow
         /\ \A said : WasmDecision(said) \in Decision /\ decisionFromAny(said) \in Decision
         /\ \A said : ~fallbackAllow /\ (WasmDecision(said).allow \/ decisionFromAny(said).allow)
                      => said = "allow"
<1>1. fallbackDecision \in Decision /\ (~fallbackAllow => ~fallbackDecision.allow)
  BY DEF fallbackDecision, Decision
<1>2. \A said : WasmDecision(said) \in Decision
  BY <1>1, Zenon DEF WasmDecision, Decision
<1>3. \A said : decisionFromAny(said) \in Decision
  BY <1>1, Zenon DEF decisionFromAny, Decision
<1>4. \A said : ~fallbackAllow /\ WasmDecision(said).allow => said = "allow"
  BY <1>1, Zenon DEF WasmDecision
<1>5. \A said : ~fallbackAllow /\ decisionFromAny(said).allow => said = "allow"
  BY <1>1, Zenon DEF decisionFromAny, fallbackDecision
<1> QED
  BY <1>1, <1>2, <1>3, <1>4, <1>5, Zenon

\* An evaluation step writes its own record and, in EvaluateWrite, the overlap
\* marks of those it now shares the memory with.
LEMMA EvalStep ==
  ASSUME IInv, NEW e \in Eval, Evaluation(e) \/ \E i \in Input : Begin(e, i)
  PROVE  IInv'
<1> USE PolicyAssumption
<1>1. \A v : Trusted(v)' <=> Trusted(v)
  BY ZenonT(30) DEF Evaluation, EvaluateRego, EvaluateWrite, EvaluateCall, EvaluateRead, EvaluateFails,
         Return, Begin, cfgVars, Trusted, Signable
<1>2. UNCHANGED <<kind, key, fallbackAllow, file, sig, missed, writes, cache, engines, current,
                  lastMod, load>>
  BY Zenon DEF Evaluation, EvaluateRego, EvaluateWrite, EvaluateCall, EvaluateRead, EvaluateFails,
         Return, Begin, cfgVars, fileVars
<1>3. LoaderInv'
  BY <1>1, <1>2, Zenon DEF IInv, LoaderInv
<1>4. faults' \in 0 .. MaxFaults
  <2>1. faults \in 0 .. MaxFaults
    BY Zenon DEF IInv, TypeOK
  <2>2. UNCHANGED faults \/ (faults < MaxFaults /\ faults' = faults + 1)
    BY Zenon DEF Evaluation, EvaluateRego, EvaluateWrite, EvaluateCall, EvaluateRead, EvaluateFails,
           Return, Begin
  <2> QED
    BY <2>1, <2>2
<1>5. fallbackAllow \in BOOLEAN
  BY Zenon DEF IInv, TypeOK
<1>6. /\ ev \in [Eval -> EvalState] /\ \A o \in Eval : EvalInv(o) /\ ev[o].engine <= Len(engines)
      /\ engines \in Seq(Version) /\ mem \in Seq(Input \cup {None}) /\ Len(mem) = Len(engines)
      /\ current \in Nat /\ current = Len(engines)
      /\ \A n \in 1 .. Len(engines) : Trusted(engines[n])
  BY DEF IInv, TypeOK, LoaderInv
\* It is enough to look at the evaluations and the memory.
<1>7. ASSUME ev' \in [Eval -> EvalState],
             mem' \in Seq(Input \cup {None}), Len(mem') = Len(engines'),
             (\A o \in Eval : EvalInv(o))', SharingKnown',
             \A o \in Eval : ev'[o].engine <= Len(engines)
      PROVE  IInv'
  BY <1>2, <1>3, <1>4, <1>7, Zenon DEF IInv, TypeOK
\* A step that changes only e, and does not bring it into the shared section.
<1>8. ASSUME NEW r \in EvalState, ev' = [ev EXCEPT ![e] = r], UNCHANGED mem,
             EvalInv(e)', r.engine <= Len(engines),
             r.pc \in {"call", "read"} => ev[e].pc \in {"call", "read"} /\ r.engine = ev[e].engine
                                          /\ r.overlap = ev[e].overlap
      PROVE  IInv'
  <2>1. ev' \in [Eval -> EvalState]
    BY <1>6, <1>8, Zenon
  <2>2. \A o \in Eval : o # e => ev'[o] = ev[o]
    BY <1>6, <1>8, Zenon
  <2>3. (\A o \in Eval : EvalInv(o))'
    <3> SUFFICES ASSUME NEW o \in Eval, o # e PROVE EvalInv(o)'
      BY <1>8, Zenon
    <3> QED
      BY <1>1, <1>2, <1>6, <1>8, <2>2, ZenonT(60) DEF EvalInv
  <2>4. SharingKnown'
    BY <1>6, <1>8, <2>2 DEF SharingKnown, IInv
  <2>5. \A o \in Eval : ev'[o].engine <= Len(engines)
    BY <1>6, <1>8, <2>2, ZenonT(60) DEF IInv, TypeOK
  <2> QED
    BY <1>2, <1>6, <1>7, <1>8, <2>1, <2>3, <2>4, <2>5, Zenon
<1>9. ASSUME NEW i \in Input, Begin(e, i) PROVE IInv'
  <2> DEFINE r == [Idle EXCEPT !.pc = "write", !.input = i, !.engine = current]
  <2>1. ev' = [ev EXCEPT ![e] = r] /\ UNCHANGED mem /\ current # 0
    BY <1>9, Zenon DEF Begin
  <2>2. /\ r \in EvalState /\ r.pc = "write" /\ r.engine = current /\ r.input = i /\ r.by = None
        /\ r.engine <= Len(engines)
    <3>1. current \in Nat /\ current <= Len(engines)
      BY <1>6
    <3> QED
      BY <3>1, Zenon DEF Idle, EvalState
  <2>3. ev'[e] = r
    BY <1>6, <2>1, Zenon
  <2>4. EvalInv(e)'
    BY <1>2, <1>6, <2>1, <2>2, <2>3 DEF EvalInv
  <2> QED
    BY <1>8, <2>1, <2>2, <2>4, Zenon
<1>10. ASSUME EvaluateRego(e) PROVE IInv'
  <2> DEFINE by == engines[ev[e].engine]
             r == [ev[e] EXCEPT !.pc = "done", !.by = by,
                                !.verdict = decisionFromAny(Says[by][ev[e].input])]
  <2>1. ev' = [ev EXCEPT ![e] = r] /\ UNCHANGED mem /\ ev[e].pc = "write"
    BY <1>6, <1>10, Zenon DEF EvaluateRego
  <2>2. EvalInv(e) /\ ev[e] \in EvalState /\ ev[e].engine \in 1 .. Len(engines) /\ ev[e].input \in Input
    BY <1>6, <2>1, Zenon DEF EvalInv
  <2>3. by \in Version /\ Trusted(by)
    BY <1>6, <2>2
  <2>4. /\ decisionFromAny(Says[by][ev[e].input]) \in Decision
        /\ ~fallbackAllow /\ decisionFromAny(Says[by][ev[e].input]).allow => Says[by][ev[e].input] = "allow"
    BY <1>5, Decisions, Zenon
  <2>5. /\ r \in EvalState /\ r.pc = "done" /\ r.engine = ev[e].engine /\ r.input = ev[e].input
        /\ r.by = by /\ r.verdict = decisionFromAny(Says[by][ev[e].input])
    <3> HIDE DEF by
    <3> QED
      BY <2>2, <2>3, <2>4, Zenon DEF EvalState
  <2>6. ev'[e] = r
    BY <1>6, <2>1, Zenon
  <2>7. EvalInv(e)'
    <3> HIDE DEF r, by
    <3> QED
      BY <1>1, <1>2, <2>2, <2>3, <2>4, <2>5, <2>6, Zenon DEF EvalInv
  <2>8. r.engine <= Len(engines)
    BY <1>6, <2>5, Zenon
  <2> HIDE DEF r
  <2> QED
    BY <1>8, <2>1, <2>5, <2>7, <2>8, Zenon
<1>11. ASSUME EvaluateCall(e) PROVE IInv'
  <2> DEFINE by == engines[ev[e].engine]
             said == Says[by][mem[ev[e].engine]]
             r == [ev[e] EXCEPT !.pc = "read", !.by = by, !.verdict = WasmDecision(said)]
  <2>1. ev' = [ev EXCEPT ![e] = r] /\ UNCHANGED mem /\ ev[e].pc = "call"
    BY <1>6, <1>11, Zenon DEF EvaluateCall
  <2>2. EvalInv(e) /\ ev[e] \in EvalState /\ ev[e].engine \in 1 .. Len(engines) /\ ev[e].input \in Input
    BY <1>6, <2>1, Zenon DEF EvalInv
  <2>3. by \in Version /\ Trusted(by)
    BY <1>6, <2>2
  <2>4. /\ WasmDecision(said) \in Decision
        /\ ~fallbackAllow /\ WasmDecision(said).allow => said = "allow"
    BY <1>5, Decisions, Zenon
  <2>5. ~ev[e].overlap => said = Says[by][ev[e].input]
    BY <2>1, <2>2, Zenon DEF EvalInv
  <2>6. /\ r \in EvalState /\ r.pc = "read" /\ r.engine = ev[e].engine /\ r.input = ev[e].input
        /\ r.by = by /\ r.verdict = WasmDecision(said) /\ r.overlap = ev[e].overlap
    <3> HIDE DEF by, said
    <3> QED
      BY <2>2, <2>3, <2>4, Zenon DEF EvalState
  <2>7. ev'[e] = r
    BY <1>6, <2>1, Zenon
  <2>8. EvalInv(e)'
    <3> HIDE DEF r, by, said
    <3> QED
      BY <1>1, <1>2, <2>2, <2>3, <2>4, <2>5, <2>6, <2>7, Zenon DEF EvalInv
  <2>9. r.engine <= Len(engines)
    BY <1>6, <2>6, Zenon
  <2> HIDE DEF r
  <2> QED
    BY <1>8, <2>1, <2>6, <2>8, <2>9, Zenon
<1>12. ASSUME EvaluateRead(e) PROVE IInv'
  <2>1. ev[e].pc = "read" /\ UNCHANGED mem
    BY <1>12, Zenon DEF EvaluateRead
  <2>2. EvalInv(e) /\ ev[e] \in EvalState /\ ev[e].engine \in 1 .. Len(engines) /\ ev[e].input \in Input
    BY <1>6, <2>1, Zenon DEF EvalInv
  <2>3. PICK v \in {ev[e].verdict} \cup
                  {ev[o].verdict : o \in {x \in Others(e) : ev[x].pc = "read"}} \cup
                  (IF ev[e].overlap THEN {fallbackDecision} ELSE {}) :
               ev' = [ev EXCEPT ![e].pc = "done", ![e].verdict = v]
    BY <1>12, Zenon DEF EvaluateRead
  <2>4. v \in Decision
    BY <1>5, <1>6, <2>1, <2>2, <2>3, Decisions DEF Others, EvalInv
  <2>5. ~ev[e].overlap => v = ev[e].verdict
    BY <2>1, <2>3, Zenon DEF Others, IInv, SharingKnown
  <2> DEFINE r == [ev[e] EXCEPT !.pc = "done", !.verdict = v]
  <2>6. ev' = [ev EXCEPT ![e] = r] /\ ev'[e] = r
    BY <1>6, <2>3, Zenon
  <2>7. /\ r \in EvalState /\ r.pc = "done" /\ r.engine = ev[e].engine /\ r.input = ev[e].input
        /\ r.by = ev[e].by /\ r.verdict = v /\ r.overlap = ev[e].overlap
    BY <2>2, <2>4, ZenonT(60) DEF EvalState
  <2>8. EvalInv(e)'
    <3> HIDE DEF r
    <3> QED
      BY <1>1, <1>2, <2>1, <2>2, <2>4, <2>5, <2>6, <2>7 DEF EvalInv
  <2>9. r.engine <= Len(engines)
    BY <1>6, <2>7, Zenon
  <2> HIDE DEF r
  <2> QED
    BY <1>8, <2>1, <2>6, <2>7, <2>8, <2>9, Zenon
<1>13. ASSUME EvaluateFails(e) PROVE IInv'
  <2> DEFINE r == [ev[e] EXCEPT !.pc = "done", !.verdict = fallbackDecision]
  <2>1. ev[e].pc = "call" /\ UNCHANGED mem /\ ev' = [ev EXCEPT ![e] = r] /\ ev'[e] = r
    BY <1>6, <1>13, Zenon DEF EvaluateFails
  <2>2. EvalInv(e) /\ ev[e] \in EvalState /\ ev[e].engine \in 1 .. Len(engines) /\ ev[e].input \in Input
    BY <1>6, <2>1, Zenon DEF EvalInv
  <2>3. fallbackDecision \in Decision /\ (~fallbackAllow => ~fallbackDecision.allow)
    BY <1>5, Decisions, Zenon
  <2>4. /\ r \in EvalState /\ r.pc = "done" /\ r.engine = ev[e].engine /\ r.input = ev[e].input
        /\ r.by = ev[e].by /\ r.verdict = fallbackDecision
    BY <2>2, <2>3, Zenon DEF EvalState
  <2>5. EvalInv(e)'
    <3> HIDE DEF r
    <3> QED
      BY <1>1, <1>2, <2>1, <2>2, <2>3, <2>4, Zenon DEF EvalInv
  <2>6. r.engine <= Len(engines)
    BY <1>6, <2>4, Zenon
  <2> HIDE DEF r
  <2> QED
    BY <1>8, <2>1, <2>4, <2>5, <2>6, Zenon
<1>14. ASSUME Return(e) PROVE IInv'
  <2>1. ev' = [ev EXCEPT ![e] = Idle] /\ ev'[e] = Idle /\ UNCHANGED mem
    BY <1>6, <1>14, Zenon DEF Return
  <2>2. Idle \in EvalState /\ Idle.engine = 0 /\ Idle.pc = "idle" /\ Idle.by = None
    BY Zenon DEF Idle, EvalState
  <2>3. EvalInv(e)'
    BY <1>2, <2>1, <2>2, Zenon DEF EvalInv
  <2>4. Idle.engine <= Len(engines)
    BY <1>6, <2>2, SMTT(30)
  <2> QED
    BY <1>8, <2>1, <2>2, <2>3, <2>4, Zenon
\* The write into the memory of the instance: everyone else between write and
\* read there is marked, and everyone on another instance keeps its memory.
<1>15. ASSUME EvaluateWrite(e) PROVE IInv'
  <2>1. /\ ev[e].pc = "write" /\ mem' = [mem EXCEPT ![ev[e].engine] = ev[e].input]
        /\ ev' = [o \in Eval |->
             IF o = e THEN [ev[e] EXCEPT !.pc = "call", !.overlap = Others(e) # {}]
             ELSE IF o \in Others(e) THEN [ev[o] EXCEPT !.overlap = TRUE] ELSE ev[o]]
    BY <1>15, ZenonT(30) DEF EvaluateWrite
  <2>2. EvalInv(e) /\ ev[e].engine \in 1 .. Len(engines) /\ ev[e].input \in Input
    BY <1>6, <2>1, Zenon DEF EvalInv
  <2>3. /\ mem' \in Seq(Input \cup {None}) /\ Len(mem') = Len(mem) /\ mem'[ev[e].engine] = ev[e].input
        /\ \A n \in 1 .. Len(mem) : n # ev[e].engine => mem'[n] = mem[n]
    <3>1. mem \in Seq(Input \cup {None}) /\ ev[e].engine \in 1 .. Len(mem) /\ ev[e].input \in Input \cup {None}
      BY <1>6, <2>2, Zenon
    <3>2. \A i \in 1 .. Len(mem), x \in Input \cup {None} :
             /\ [mem EXCEPT ![i] = x] \in Seq(Input \cup {None})
             /\ Len([mem EXCEPT ![i] = x]) = Len(mem)
             /\ \A j \in 1 .. Len(mem) : [mem EXCEPT ![i] = x][j] = IF j = i THEN x ELSE mem[j]
      BY <3>1, ExceptSeq, SMTT(30)
    <3>3. mem' = [mem EXCEPT ![ev[e].engine] = ev[e].input]
      BY <2>1, ZenonT(30)
    <3> QED
      BY <3>1, <3>2, <3>3
  <2>4. ev' \in [Eval -> EvalState]
    <3>1. \A o \in Eval : ev[o] \in EvalState
      BY <1>6, Zenon
    <3>2. [ev[e] EXCEPT !.pc = "call", !.overlap = Others(e) # {}] \in EvalState
      BY <3>1, CallTyped, Zenon
    <3>3. \A o \in Eval : [ev[o] EXCEPT !.overlap = TRUE] \in EvalState
      BY <3>1, OverlapTyped, Zenon
    <3> QED
      BY <2>1, <3>1, <3>2, <3>3, Zenon
  <2>5. /\ ev'[e].pc = "call" /\ (Others(e) # {} => ev'[e].overlap)
        /\ \A o \in Eval : /\ ev'[o].engine = ev[o].engine /\ ev'[o].input = ev[o].input
                          /\ ev'[o].by = ev[o].by /\ ev'[o].verdict = ev[o].verdict
        /\ \A o \in Eval \ {e} : ev'[o].pc = ev[o].pc
        /\ \A o \in Others(e) : ev'[o].overlap
        /\ \A o \in Eval \ ({e} \cup Others(e)) : ev'[o] = ev[o]
    <3>1. \A o \in Eval : ev[o] \in EvalState
      BY <1>6, Zenon
    <3>2. /\ ev'[e] = [ev[e] EXCEPT !.pc = "call", !.overlap = Others(e) # {}]
          /\ \A o \in Others(e) : ev'[o] = [ev[o] EXCEPT !.overlap = TRUE]
          /\ \A o \in Eval \ ({e} \cup Others(e)) : ev'[o] = ev[o]
          /\ Others(e) \subseteq Eval \ {e}
      BY <2>1, Zenon DEF Others
    <3>3. /\ ev'[e].pc = "call" /\ (Others(e) # {} => ev'[e].overlap)
          /\ ev'[e].engine = ev[e].engine /\ ev'[e].input = ev[e].input
          /\ ev'[e].by = ev[e].by /\ ev'[e].verdict = ev[e].verdict
      <4> DEFINE x == ev[e]
                 b == Others(e) # {}
      <4>1. x \in EvalState /\ b \in BOOLEAN
        BY <3>1, Zenon
      <4>2. ev'[e] = [x EXCEPT !.pc = "call", !.overlap = b]
        BY <3>2, Zenon
      <4> HIDE DEF x, b
      <4> DEFINE y == [x EXCEPT !.pc = "call", !.overlap = b]
      <4>3. /\ y \in EvalState /\ y.pc = "call" /\ (b => y.overlap)
            /\ y.engine = x.engine /\ y.input = x.input /\ y.by = x.by /\ y.verdict = x.verdict
        BY <4>1, Zenon DEF EvalState
      <4> QED BY <4>2, <4>3, Zenon DEF x, b
    <3>4. \A o \in Others(e) : /\ ev'[o].engine = ev[o].engine /\ ev'[o].input = ev[o].input
                               /\ ev'[o].by = ev[o].by /\ ev'[o].verdict = ev[o].verdict
                               /\ ev'[o].pc = ev[o].pc /\ ev'[o].overlap
      <4> TAKE o \in Others(e)
      <4>1. ev[o] \in EvalState /\ ev'[o] = [ev[o] EXCEPT !.overlap = TRUE]
        BY <3>1, <3>2, Zenon
      <4> QED
        BY <4>1, OverlapTyped, ZenonT(60)
    <3> QED
      BY <3>2, <3>3, <3>4, Zenon
  <2>6. ASSUME NEW o \in Eval PROVE EvalInv(o)'
    <3>1. CASE o = e
      <4>1. /\ ev'[e].pc = "call" /\ ev'[e].by = ev[e].by /\ ev'[e].input = ev[e].input
            /\ ev'[e].engine = ev[e].engine
        BY <2>5, Zenon
      <4>2. (ev[e].by # None => Trusted(ev[e].by))'
        BY <1>1, <2>2, <4>1, Zenon DEF EvalInv
      <4>3. ev'[e].input \in Input /\ ev'[e].engine \in 1 .. Len(engines')
        BY <1>2, <2>2, <4>1, Zenon
      <4>4. mem'[ev'[e].engine] = ev'[e].input
        BY <2>3, <4>1, Zenon
      <4>5. ev'[e].pc \notin {"read", "done"}
        BY <4>1, Zenon
      <4> QED BY <3>1, <4>2, <4>3, <4>4, <4>5, Zenon DEF EvalInv
    <3>2. CASE o \in Others(e)
      <4>1. /\ ev'[o].pc = ev[o].pc /\ ev'[o].input = ev[o].input /\ ev'[o].engine = ev[o].engine
            /\ ev'[o].by = ev[o].by /\ ev'[o].verdict = ev[o].verdict /\ ev'[o].overlap
        BY <2>5, <3>2, Zenon DEF Others
      <4>2. EvalInv(o)
        BY <1>6, Zenon
      <4>3. ev'[o].pc # "idle" => ev'[o].input \in Input /\ ev'[o].engine \in 1 .. Len(engines')
        BY <1>2, <4>1, <4>2, Zenon DEF EvalInv
      <4>4. (ev[o].by # None => Trusted(ev[o].by))'
        BY <1>1, <4>1, <4>2, Zenon DEF EvalInv
      <4>5. ev'[o].pc \in {"read", "done"} => ev'[o].verdict \in Decision
        BY <4>1, <4>2, Zenon DEF EvalInv
      <4> QED BY <4>1, <4>3, <4>4, <4>5, Zenon DEF EvalInv
    <3>3. CASE o \in Eval \ ({e} \cup Others(e))
      <4>1. ev'[o] = ev[o] /\ EvalInv(o) /\ o # e /\ o \notin Others(e)
        BY <1>6, <2>5, <3>3, Zenon
      <4>2. ev[o].pc # "idle" => ev[o].input \in Input /\ ev[o].engine \in 1 .. Len(engines')
        BY <1>2, <4>1, Zenon DEF EvalInv
      <4>3. (ev[o].by # None => Trusted(ev[o].by))'
        BY <1>1, <4>1, Zenon DEF EvalInv
      <4>4. ev[o].pc = "call" => ev[o].engine # ev[e].engine /\ ev[o].engine \in 1 .. Len(mem)
        <5>1. ev[o].pc = "call" => ev[o].engine # ev[e].engine
          BY <4>1, Zenon DEF Others
        <5>2. Len(mem) = Len(engines')
          BY <1>2, <1>6, Zenon
        <5> QED BY <4>2, <5>1, <5>2, Zenon
      <4>5. ev[o].pc = "call" /\ ~ev[o].overlap => mem'[ev[o].engine] = ev[o].input
        BY <2>3, <4>1, <4>4, Zenon DEF EvalInv
      <4>6. /\ ev[o].pc \in {"read", "done"} => ev[o].verdict \in Decision
            /\ ev[o].pc \in {"read", "done"} /\ ~fallbackAllow' /\ ~ev[o].overlap /\ ev[o].verdict.allow
                 => Says[ev[o].by][ev[o].input] = "allow"
        BY <1>2, <4>1, Zenon DEF EvalInv
      <4> QED BY <4>1, <4>2, <4>3, <4>5, <4>6, Zenon DEF EvalInv
    <3> QED
      BY <3>1, <3>2, <3>3, Zenon
  <2>7. SharingKnown'
    BY <2>5, SMTT(30) DEF SharingKnown, IInv, Others
  <2>8. \A o \in Eval : ev'[o].engine <= Len(engines)
    BY <2>5, Zenon DEF IInv, TypeOK
  <2> QED
    BY <1>2, <1>6, <1>7, <2>3, <2>4, <2>6, <2>7, <2>8, Zenon
<1> QED
  BY <1>9, <1>10, <1>11, <1>12, <1>13, <1>14, <1>15, Zenon DEF Evaluation

-----------------------------------------------------------------------------
LEMMA IInvInductive == Spec => []IInv
<1>1. IInv /\ [Next]_vars => IInv'
  <2> SUFFICES ASSUME IInv, [Next]_vars PROVE IInv'
    BY Zenon
  <2>1. CASE UNCHANGED vars
    BY <2>1, EvalsKept, ZenonT(60) DEF IInv, TypeOK, LoaderInv, Trusted, Signable, vars
  <2> QED
    BY <2>1, LoaderStep, EvalStep, Zenon DEF Next
<1> QED
  BY InitIInv, <1>1, PTL DEF Spec

\* Every variable of the policy engine keeps its type, a Rego engine is never
\* doubled and the engine that serves exists (HotWatcher.checkAndReload,
\* BundleLoader.LoadBundle, RegoEngine.Load).
THEOREM PolicyTypeCorrect == Spec => []TypeOK
BY IInvInductive, PTL DEF IInv

\* Whatever is published while a bundle is read, only contents that compile and
\* that passed the signature check decide, and without fallback_allow an
\* evaluation that had the memory of its instance to itself allows only what
\* that content allows for its own input (LoadBundle, WASMRuntime.Evaluate).
THEOREM AllowIsSaidAlways == Spec => []AllowIsSaid
<1>1. IInv => AllowIsSaid
  BY Zenon DEF IInv, EvalInv, AllowIsSaid, Trusted
<1> QED
  BY IInvInductive, <1>1, PTL
=============================================================================
