-------------------------- MODULE AuthServerProofs --------------------------
(***************************************************************************)
(* What accessgate-auth promises across connectors and restarts, for any   *)
(* configuration files, any number of sessions and users, and any number   *)
(* of restarts, Redis faults and tickets.                                  *)
(*                                                                         *)
(* The argument: every stored session lies under the key its login gave it *)
(* (Stored), and that key is the prefix of a connector of a configuration  *)
(* that was in force followed by the session's id (Births).  Two keys are  *)
(* equal only if prefix and id are, so whoever finds a session under a     *)
(* connector's prefix has found a session of the connector that owns it.   *)
(***************************************************************************)
EXTENDS AuthServer, TLAPS, FiniteSetTheorems

\* The parts of a key or of a cookie name.
Parts == STRING \cup {"auth", "__Host-ess_session", "session"} \cup Sid

LEMMA SeqWidens ==
  ASSUME NEW S, NEW T, S \subseteq T, NEW p \in Seq(S)
  PROVE  p \in Seq(T)
BY SMT

\* A key ends in its session's id.
LEMMA KeyEnds ==
  ASSUME NEW S, NEW p \in Seq(S), NEW a \in S, NEW s \in S
  PROVE  /\ p \o <<a, s>> \in Seq(S)
         /\ Len(p \o <<a, s>>) = Len(p) + 2
         /\ \A i \in 1 .. Len(p) : (p \o <<a, s>>)[i] = p[i]
         /\ (p \o <<a, s>>)[Len(p) + 2] = s
BY SMT

\* Prefix and id of a session can be read off its key.
LEMMA KeysDiffer ==
  ASSUME NEW S, NEW p \in Seq(S), NEW q \in Seq(S), NEW a \in S, NEW s \in S, NEW t \in S,
         p \o <<a, s>> = q \o <<a, t>>
  PROVE  s = t /\ p = q
<1> DEFINE k == p \o <<a, s>>
           l == q \o <<a, t>>
<1>1. /\ Len(k) = Len(p) + 2 /\ k[Len(p) + 2] = s
      /\ \A i \in 1 .. Len(p) : k[i] = p[i]
  BY KeyEnds
<1>2. /\ Len(l) = Len(q) + 2 /\ l[Len(q) + 2] = t
      /\ \A i \in 1 .. Len(q) : l[i] = q[i]
  BY KeyEnds
<1>3. k = l
  BY Zenon
<1> HIDE DEF k, l
<1>4. Len(p) \in Nat /\ Len(q) \in Nat
  OBVIOUS
<1>5. Len(p) = Len(q)
  BY <1>1, <1>2, <1>3, <1>4, SMT
<1>6. \A i \in 1 .. Len(p) : p[i] = q[i]
  BY <1>1, <1>2, <1>3, <1>5, Zenon
<1>7. p = q
  BY <1>5, <1>6, SMTT(60)
<1> QED BY <1>1, <1>2, <1>3, <1>5, <1>7, Zenon

-----------------------------------------------------------------------------
\* The connectors of a file, and the names the others are derived from.
Given(raw) == OrElse(raw.conns, <<Legacy(raw)>>)
BasePrefix(raw) == OrElse(raw.prefix, <<"auth">>)
BaseCookie(raw) == OrElse(raw.cookie, <<"__Host-ess_session">>)

ConnFields == {"id", "dflt", "oidc", "prefix", "cookie", "idClaim", "idKind"}

\* What Normalize makes of one connector.
Filled(g, d, p, n) ==
  LET h == [g EXCEPT !.dflt = d]
  IN  [h EXCEPT !.prefix  = OwnName(@, p, h),
                !.cookie  = OwnName(@, n, h),
                !.idClaim = ClaimMapping(h).claim,
                !.idKind  = ClaimMapping(h).kind]

LEMMA FilledIs ==
  ASSUME NEW g, DOMAIN g = ConnFields, NEW d, NEW p, NEW n
  PROVE  LET x == Filled(g, d, p, n) IN
         /\ x.id = g.id /\ x.dflt = d
         /\ x.prefix = OwnName(g.prefix, p, x) /\ x.cookie = OwnName(g.cookie, n, x)
<1> DEFINE h == [g EXCEPT !.dflt = d]
           x == Filled(g, d, p, n)
<1>1. /\ DOMAIN h = ConnFields /\ h.id = g.id /\ h.dflt = d
      /\ h.prefix = g.prefix /\ h.cookie = g.cookie
  BY Zenon DEF ConnFields
<1> HIDE DEF h
<1>2. x = [h EXCEPT !.prefix  = OwnName(@, p, h), !.cookie  = OwnName(@, n, h),
                    !.idClaim = ClaimMapping(h).claim, !.idKind  = ClaimMapping(h).kind]
  BY Zenon DEF Filled, h
<1> HIDE DEF x
<1>3. /\ x.id = h.id /\ x.dflt = h.dflt
      /\ x.prefix = OwnName(h.prefix, p, h) /\ x.cookie = OwnName(h.cookie, n, h)
  BY <1>1, <1>2, Zenon DEF ConnFields
<1>4. OwnName(h.prefix, p, h) = OwnName(h.prefix, p, x) /\ OwnName(h.cookie, n, h) = OwnName(h.cookie, n, x)
  BY <1>3, Zenon DEF OwnName
<1> QED BY <1>1, <1>3, <1>4, Zenon DEF x

LEMMA BaseTwice ==
  ASSUME NEW p
  PROVE  /\ OrElse(OrElse(p, <<"auth">>), <<"auth">>) = OrElse(p, <<"auth">>)
         /\ OrElse(OrElse(p, <<"__Host-ess_session">>), <<"__Host-ess_session">>)
              = OrElse(p, <<"__Host-ess_session">>)
BY Zenon DEF OrElse

LEMMA ConfigIs ==
  ASSUME NEW raw \in Config
  PROVE  /\ Loaded(raw).secret = raw.secret
         /\ Loaded(raw).conns = [i \in DOMAIN Given(raw) |->
              Filled(Given(raw)[i], Given(raw)[i].dflt \/ Len(Given(raw)) = 1,
                     BasePrefix(raw), BaseCookie(raw))]
<1> DEFINE c == ApplyDefaults(raw)
<1>1. DOMAIN raw = {"redisURL", "appBaseURL", "secret", "prefix", "cookie", "oidc", "admin", "conns"}
  BY Zenon DEF Config
<1>2. /\ DOMAIN c = DOMAIN raw /\ c.secret = raw.secret /\ c.conns = raw.conns /\ c.oidc = raw.oidc
      /\ c.prefix = BasePrefix(raw) /\ c.cookie = BaseCookie(raw)
  BY <1>1, Zenon DEF ApplyDefaults, BasePrefix, BaseCookie
<1> HIDE DEF c
<1>3. Legacy(c) = Legacy(raw)
  BY <1>2, Zenon DEF Legacy
<1>4. OrElse(c.conns, <<Legacy(c)>>) = Given(raw)
  BY <1>2, <1>3, Zenon DEF Given
<1>5. OrElse(c.prefix, <<"auth">>) = BasePrefix(raw) /\ OrElse(c.cookie, <<"__Host-ess_session">>) = BaseCookie(raw)
  BY <1>2, BaseTwice, Zenon DEF BasePrefix, BaseCookie
<1> DEFINE list == [i \in DOMAIN Given(raw) |->
              Filled(Given(raw)[i], Given(raw)[i].dflt \/ Len(Given(raw)) = 1,
                     BasePrefix(raw), BaseCookie(raw))]
<1>6. Normalize(c) = [c EXCEPT !.conns = list]
  <2> DEFINE given == OrElse(c.conns, <<Legacy(c)>>)
             p == OrElse(c.prefix, <<"auth">>)
             n == OrElse(c.cookie, <<"__Host-ess_session">>)
  <2>1. Normalize(c) = [c EXCEPT !.conns = [i \in DOMAIN given |->
          Filled(given[i], given[i].dflt \/ Len(given) = 1, p, n)]]
    BY Zenon DEF Normalize, Filled
  <2>2. given = Given(raw) /\ p = BasePrefix(raw) /\ n = BaseCookie(raw)
    BY <1>4, <1>5, Zenon
  <2> HIDE DEF given, p, n
  <2> QED BY <2>1, <2>2, Zenon
<1> HIDE DEF list
<1>7. Normalize(c).secret = c.secret /\ Normalize(c).conns = list
  BY <1>1, <1>2, <1>6, Zenon
<1> QED BY <1>2, <1>7, Zenon DEF Loaded, c, list

\* A file without connectors has the legacy one.
LEMMA GivenIs ==
  ASSUME NEW raw \in Config
  PROVE  /\ Len(Given(raw)) \in Nat \ {0} /\ DOMAIN Given(raw) = 1 .. Len(Given(raw))
         /\ raw.conns # <<>> => Given(raw) = raw.conns
         /\ raw.conns = <<>> => Given(raw) = <<Legacy(raw)>> /\ Len(Given(raw)) = 1
         /\ \A i \in DOMAIN Given(raw) :
              LET g == Given(raw)[i] IN
              /\ DOMAIN g = ConnFields
              /\ g.prefix \in Seq(STRING)
              /\ g.dflt \/ g.id \in STRING
<1>1. raw.conns \in Seq(ConnectorConfig)
  BY Zenon DEF Config
<1>2. CASE raw.conns = <<>>
  <2>1. Given(raw) = <<Legacy(raw)>>
    BY <1>2, Zenon DEF Given, OrElse
  <2>2. DOMAIN Legacy(raw) = ConnFields /\ Legacy(raw).prefix = <<>> /\ Legacy(raw).dflt
    BY Zenon DEF Legacy, ConnFields
  <2>3. <<>> \in Seq(STRING)
    OBVIOUS
  <2>4. PICK l : l = Legacy(raw)
    BY Zenon
  <2>5. Given(raw) = <<l>>
    BY <2>1, <2>4, Zenon
  <2>6. Len(<<l>>) = 1 /\ DOMAIN <<l>> = 1 .. 1 /\ <<l>>[1] = l
    OBVIOUS
  <2>7. Len(Given(raw)) = 1 /\ DOMAIN Given(raw) = 1 .. 1 /\ Given(raw)[1] = l
    BY <2>5, <2>6, Zenon
  <2>8. \A i \in 1 .. 1 : i = 1
    BY SMT
  <2>9. \A i \in DOMAIN Given(raw) : Given(raw)[i] = l
    BY <2>7, <2>8, Zenon
  <2>10. DOMAIN l = ConnFields /\ l.prefix \in Seq(STRING) /\ l.dflt
    BY <2>2, <2>3, <2>4, Zenon
  <2> QED BY <1>2, <2>1, <2>7, <2>9, <2>10, SMTT(60)
<1>3. CASE raw.conns # <<>>
  <2>1. Given(raw) = raw.conns
    BY <1>3, Zenon DEF Given, OrElse
  <2>2. Len(raw.conns) \in Nat \ {0} /\ DOMAIN raw.conns = 1 .. Len(raw.conns)
    BY <1>1, <1>3
  <2>3. \A i \in DOMAIN raw.conns : raw.conns[i] \in ConnectorConfig
    BY <1>1
  <2>4. \A x \in ConnectorConfig : DOMAIN x = ConnFields /\ x.prefix \in Seq(STRING) /\ x.id \in STRING
    BY Zenon DEF ConnectorConfig, ConnFields
  <2> QED BY <1>3, <2>1, <2>2, <2>3, <2>4, Zenon
<1> QED BY <1>2, <1>3, Zenon

\* What each file becomes.
LEMMA ConnsAre ==
  ASSUME NEW f \in File
  PROVE  /\ Raw[f] \in Config /\ Cfg[f].secret \in STRING
         /\ Cfg[f].conns # <<>> /\ DOMAIN Cfg[f].conns = DOMAIN Given(Raw[f])
         /\ \A i \in DOMAIN Cfg[f].conns :
              LET x == Cfg[f].conns[i]  g == Given(Raw[f])[i] IN
              /\ x.id = g.id /\ x.dflt = (g.dflt \/ Len(Given(Raw[f])) = 1)
              /\ x.prefix = OwnName(g.prefix, BasePrefix(Raw[f]), x)
              /\ x.cookie = OwnName(g.cookie, BaseCookie(Raw[f]), x)
<1> DEFINE raw == Raw[f]
<1>1. raw \in Config /\ Cfg[f] = Loaded(raw)
  BY AuthServerAssumption, Zenon DEF Cfg
<1>2. raw.secret \in STRING
  BY <1>1, Zenon DEF Config
<1> HIDE DEF raw
<1> DEFINE given == Given(raw)
           sole(i) == given[i].dflt \/ Len(given) = 1
           x(i) == Filled(given[i], sole(i), BasePrefix(raw), BaseCookie(raw))
<1>3. Loaded(raw).conns = [i \in DOMAIN given |-> x(i)] /\ Loaded(raw).secret = raw.secret
  BY <1>1, ConfigIs, Zenon
<1>4. \A i \in DOMAIN given : DOMAIN given[i] = ConnFields
  BY <1>1, GivenIs, Zenon
<1>5. \A i \in DOMAIN given :
        /\ x(i).id = given[i].id /\ x(i).dflt = sole(i)
        /\ x(i).prefix = OwnName(given[i].prefix, BasePrefix(raw), x(i))
        /\ x(i).cookie = OwnName(given[i].cookie, BaseCookie(raw), x(i))
  BY <1>4, FilledIs
<1>6. 1 \in DOMAIN given
  BY <1>1, GivenIs
<1> HIDE DEF x
<1>7. DOMAIN Loaded(raw).conns = DOMAIN given /\ \A i \in DOMAIN given : Loaded(raw).conns[i] = x(i)
  BY <1>3, Zenon
<1>8. Loaded(raw).conns # <<>>
  BY <1>6, <1>7
<1> QED BY <1>1, <1>2, <1>3, <1>5, <1>7, <1>8 DEF raw

\* Names are sequences of parts.
LEMMA PrefixTyped ==
  ASSUME NEW f \in File, NEW i \in DOMAIN Cfg[f].conns
  PROVE  Cfg[f].conns[i].prefix \in Seq(Parts)
<1> DEFINE raw == Raw[f]
           g == Given(Raw[f])[i]
           x == Cfg[f].conns[i]
<1>1. raw \in Config /\ g.prefix \in Seq(STRING) /\ (g.dflt \/ g.id \in STRING)
  BY ConnsAre, GivenIs, Zenon
<1>2. x.prefix = OwnName(g.prefix, BasePrefix(raw), x) /\ x.id = g.id /\ (g.dflt => x.dflt)
  BY ConnsAre, Zenon
<1>3. STRING \subseteq Parts /\ "auth" \in Parts
  BY Zenon DEF Parts
<1>4. raw.prefix \in Seq(STRING)
  BY <1>1, Zenon DEF Config
<1> HIDE DEF raw, g, x
<1>5. \A p \in Seq(STRING) : p \in Seq(Parts)
  BY <1>3, SeqWidens, Zenon
<1>6. <<"auth">> \in Seq(Parts)
  BY <1>3
<1>7. BasePrefix(raw) \in Seq(Parts)
  BY <1>4, <1>5, <1>6, Zenon DEF BasePrefix, OrElse
<1>8. ~x.dflt => Append(BasePrefix(raw), x.id) \in Seq(Parts)
  <2>1. ~x.dflt => x.id \in Parts
    BY <1>1, <1>2, <1>3, Zenon
  <2>2. \A a \in Parts : Append(BasePrefix(raw), a) \in Seq(Parts)
    BY <1>7
  <2> QED BY <2>1, <2>2, Zenon
<1>9. x.prefix \in Seq(Parts)
  BY <1>1, <1>2, <1>5, <1>7, <1>8, Zenon DEF OwnName
<1> QED BY <1>9, Zenon DEF x

-----------------------------------------------------------------------------
\* A connector of a file.
Of(f, x) == \E i \in DOMAIN Cfg[f].conns : x = Cfg[f].conns[i]

\* A set of positions with one member has it as its first.
LEMMA FirstOfOne ==
  ASSUME NEW conns, NEW d \in Nat, NEW found, found = {d}, NEW fallback
  PROVE  FirstOf(conns, found, fallback) = conns[d]
<1>1. (CHOOSE i \in found : \A j \in found : i <= j) = d
  <2>1. \E i \in found : \A j \in found : i <= j
    OBVIOUS
  <2> QED BY <2>1, Zenon
<1> QED BY <1>1, Zenon DEF FirstOf

\* A valid configuration has one default connector.
LEMMA DefaultIs ==
  ASSUME NEW f \in File, Validate(Cfg[f])
  PROVE  \E d \in DOMAIN Cfg[f].conns :
           /\ DefaultConnector(Cfg[f]) = Cfg[f].conns[d]
           /\ \A j \in DOMAIN Cfg[f].conns : Cfg[f].conns[j].dflt <=> d = j
<1> DEFINE conns == Cfg[f].conns
<1>1. validateConnectors(Cfg[f])
  BY ConnsAre, Zenon DEF Validate
<1>2. PICK d \in DOMAIN conns : \A j \in DOMAIN conns : conns[j].dflt <=> d = j
  BY <1>1, Zenon DEF validateConnectors
<1>3. d \in Nat
  BY ConnsAre, GivenIs
<1>4. {i \in DOMAIN conns : conns[i].dflt} = {d}
  BY <1>2, Zenon
<1> QED BY <1>2, <1>3, <1>4, FirstOfOne DEF DefaultConnector

\* The HTTP layer and the service agree on a connector the service knows.
LEMMA ConnIs ==
  ASSUME NEW f \in File, Validate(Cfg[f]), NEW id, KnownConnector(Cfg[f], id)
  PROVE  /\ Of(f, conn(Cfg[f], id))
         /\ id = "" => conn(Cfg[f], id) = DefaultConnector(Cfg[f])
         /\ connectorCookie(Cfg[f], id) = conn(Cfg[f], id).cookie
<1> DEFINE conns == Cfg[f].conns
           all == {conns[i] : i \in DOMAIN conns}
<1>1. CASE id = ""
  <2>1. DefaultConnector(Cfg[f]) \in all
    BY DefaultIs, Zenon
  <2>2. conn(Cfg[f], "") = DefaultConnector(Cfg[f])
    BY <2>1, Zenon DEF conn
  <2> QED BY <1>1, <2>1, <2>2, Zenon DEF Of, connectorCookie, ConnectorByID
<1>2. CASE id # ""
  <2>1. PICK i \in DOMAIN conns : conns[i].id = id
    BY <1>2, Zenon DEF KnownConnector
  <2>2. \A j \in DOMAIN conns : conns[j].id = id => j = i
    BY <2>1, ConnsAre, Zenon DEF Validate, validateConnectors
  <2>3. \A x \in all : x.id = id => x = conns[i]
    BY <2>2, Zenon
  <2>4. conn(Cfg[f], id) = conns[i]
    BY <1>2, <2>1, <2>3, ZenonT(60) DEF conn
  <2>5. {j \in DOMAIN conns : conns[j].id = id} = {i} /\ i \in Nat
    BY <2>1, <2>2, ConnsAre, GivenIs, SMTT(60)
  <2>6. ConnectorByID(Cfg[f], id) = conns[i]
    BY <1>2, <2>5, FirstOfOne, Zenon DEF ConnectorByID
  <2> QED BY <1>2, <2>4, <2>6, Zenon DEF Of, connectorCookie
<1> QED BY <1>1, <1>2, Zenon

\* A session key names its connector's prefix and the session.
LEMMA SessionKeyEnds ==
  ASSUME NEW f \in File, NEW x, Of(f, x), NEW s \in Sid
  PROVE  SessionKey(x, s)[Len(SessionKey(x, s))] = s
<1>1. x.prefix \in Seq(Parts) /\ "session" \in Parts /\ s \in Parts
  BY PrefixTyped, Zenon DEF Of, Parts
<1>2. Len(x.prefix \o <<"session", s>>) = Len(x.prefix) + 2
      /\ (x.prefix \o <<"session", s>>)[Len(x.prefix) + 2] = s
  BY <1>1, KeyEnds
<1> QED BY <1>2, Zenon DEF SessionKey

LEMMA SessionKeysDiffer ==
  ASSUME NEW f \in File, NEW g \in File, NEW x, Of(f, x), NEW y, Of(g, y),
         NEW s \in Sid, NEW t \in Sid, SessionKey(x, s) = SessionKey(y, t)
  PROVE  s = t /\ x.prefix = y.prefix
<1>1. x.prefix \in Seq(Parts) /\ y.prefix \in Seq(Parts) /\ "session" \in Parts /\ s \in Parts /\ t \in Parts
  BY PrefixTyped, Zenon DEF Of, Parts
<1>2. x.prefix \o <<"session", s>> = y.prefix \o <<"session", t>>
  BY Zenon DEF SessionKey
<1>3. PICK p \in Seq(Parts), q \in Seq(Parts), a \in Parts :
        p = x.prefix /\ q = y.prefix /\ a = "session"
  BY <1>1, Zenon
<1>4. p \o <<a, s>> = q \o <<a, t>> /\ s \in Parts /\ t \in Parts
  BY <1>1, <1>2, <1>3, Zenon
<1>5. s = t /\ p = q
  <2>1. \A u, v \in Seq(Parts), d, b, c \in Parts : u \o <<d, b>> = v \o <<d, c>> => b = c /\ u = v
    BY KeysDiffer, Zenon
  <2>2. \A b, c \in Parts : p \o <<a, b>> = q \o <<a, c>> => b = c /\ p = q
    BY <2>1, Zenon
  <2> QED BY <1>4, <2>2, Zenon
<1> QED BY <1>3, <1>5, Zenon

-----------------------------------------------------------------------------
\* The process runs with a valid file, and so did its predecessors.
Files ==
  /\ seen \subseteq File /\ \A g \in seen : Validate(Cfg[g])
  /\ file # None => file \in seen

\* A login through a connector of a file that was in force made each session.
Births ==
  /\ DOMAIN born \subseteq Sid
  /\ \A s \in DOMAIN born : \E g \in seen : \E i \in DOMAIN Cfg[g].conns :
       LET x == Cfg[g].conns[i] IN
       /\ born[s].conn = x.id /\ born[s].cookie = x.cookie
       /\ born[s].key = SessionKey(x, s)

\* A stored session lies under the key its login gave it.
Stored ==
  /\ IsFiniteSet(DOMAIN redis)
  /\ \A k \in DOMAIN redis :
       /\ redis[k] \in Sessions
       /\ redis[k].id \in DOMAIN born /\ born[redis[k].id].key = k

\* What cookies and tickets name, and the counters.
Held ==
  /\ \A n \in DOMAIN jar : jar[n] \in [id : Sid, by : STRING]
  /\ \A t \in tickets : t.session \in Sid
  /\ redisUp \in BOOLEAN
  /\ restarts \in 0 .. MaxRestarts /\ faults \in 0 .. MaxFaults /\ issued \in 0 .. MaxTickets

AuthInv == Files /\ Births /\ Stored /\ Held

\* The files in force are files, and their connectors have what the lemmas on
\* configurations say.
LEMMA InForce ==
  ASSUME Files, file # None
  PROVE  file \in File /\ Validate(cfg) /\ cfg = Cfg[file]
BY Zenon DEF Files, cfg

\* A stored session's key ends in its id.
LEMMA StoredKey ==
  ASSUME Files, Births, Stored, NEW k \in DOMAIN redis
  PROVE  /\ k[Len(k)] = redis[k].id /\ redis[k].id \in Sid
         /\ \E g \in seen : \E i \in DOMAIN Cfg[g].conns :
              LET x == Cfg[g].conns[i] IN
              /\ g \in File /\ born[redis[k].id].conn = x.id /\ k = SessionKey(x, redis[k].id)
<1> DEFINE s == redis[k].id
<1>1. s \in DOMAIN born /\ born[s].key = k /\ s \in Sid
  BY Zenon DEF Stored, Births
<1>2. PICK g \in seen : \E i \in DOMAIN Cfg[g].conns :
        /\ born[s].conn = Cfg[g].conns[i].id /\ born[s].key = SessionKey(Cfg[g].conns[i], s)
  BY <1>1, Zenon DEF Births
<1>3. PICK i \in DOMAIN Cfg[g].conns :
        /\ born[s].conn = Cfg[g].conns[i].id /\ born[s].key = SessionKey(Cfg[g].conns[i], s)
  BY <1>2, Zenon
<1>4. g \in File
  BY Zenon DEF Files
<1>5. SessionKey(Cfg[g].conns[i], s)[Len(SessionKey(Cfg[g].conns[i], s))] = s
  BY <1>1, <1>4, SessionKeyEnds, Zenon DEF Of
<1> QED BY <1>1, <1>3, <1>4, <1>5, ZenonT(60)

LEMMA AuthInvInit == Init => AuthInv
<1> SUFFICES ASSUME Init PROVE AuthInv
  BY Zenon
<1>1. DOMAIN redis = {} /\ DOMAIN jar = {} /\ DOMAIN born = {} /\ seen = {} /\ tickets = {} /\ file = None
  BY Zenon DEF Init
<1>2. IsFiniteSet(DOMAIN redis)
  BY <1>1, FS_EmptySet, Zenon
<1>3. Held
  <2>1. restarts \in 0 .. MaxRestarts /\ faults \in 0 .. MaxFaults /\ issued \in 0 .. MaxTickets
    <3>1. MaxRestarts \in Nat /\ MaxFaults \in Nat /\ MaxTickets \in Nat
      BY AuthServerAssumption, Zenon
    <3>2. restarts = 0 /\ faults = 0 /\ issued = 0
      BY Zenon DEF Init
    <3> QED BY <3>1, <3>2
  <2>2. redisUp \in BOOLEAN
    BY Zenon DEF Init
  <2> QED BY <1>1, <2>1, <2>2, Zenon DEF Held
<1> QED BY <1>1, <1>2, <1>3, Zenon DEF AuthInv, Files, Births, Stored

\* A step that creates no session and moves none keeps what is stored.
LEMMA StoreKept ==
  ASSUME Births, Stored, seen \subseteq seen', born' = born, DOMAIN redis' \subseteq DOMAIN redis,
         \A k \in DOMAIN redis' : redis'[k] \in Sessions /\ redis'[k].id = redis[k].id
  PROVE  Births' /\ Stored'
<1>1. Births'
  BY Zenon DEF Births
<1>2. IsFiniteSet(DOMAIN redis')
  BY FS_Subset, Zenon DEF Stored
<1> QED BY <1>1, <1>2, Zenon DEF Stored

\* Deleting keys is such a step, and so is setting a session's lapsed flag.
LEMMA DeletionKeeps ==
  ASSUME Births, Stored, NEW S, redis' = Without(redis, S), born' = born, seen' = seen
  PROVE  Births' /\ Stored'
<1>1. DOMAIN redis' \subseteq DOMAIN redis /\ \A k \in DOMAIN redis' : redis'[k] = redis[k]
  BY Zenon DEF Without
<1>2. \A k \in DOMAIN redis' : redis'[k] \in Sessions /\ redis'[k].id = redis[k].id
  BY <1>1, Zenon DEF Stored
<1> QED BY <1>1, <1>2, StoreKept, Zenon

LEMMA LapseKeeps ==
  ASSUME Births, Stored, NEW k \in DOMAIN redis, NEW b \in BOOLEAN,
         redis' = [redis EXCEPT ![k] = [redis[k] EXCEPT !.lapsed = b]], born' = born, seen' = seen
  PROVE  Births' /\ Stored'
<1>1. PICK r \in Sessions : r = redis[k]
  BY Zenon DEF Stored
<1>2. [r EXCEPT !.lapsed = b] \in Sessions /\ [r EXCEPT !.lapsed = b].id = r.id
  BY Zenon DEF Sessions
<1>3. PICK q \in Sessions : q = [r EXCEPT !.lapsed = b] /\ q.id = r.id
  BY <1>2, Zenon
<1>4. redis' = [redis EXCEPT ![k] = q]
  BY <1>1, <1>3, Zenon
<1>5. DOMAIN redis' = DOMAIN redis /\ redis'[k] = q /\ \A j \in DOMAIN redis : j # k => redis'[j] = redis[j]
  BY <1>4, Zenon
<1>6. \A j \in DOMAIN redis' : redis'[j] \in Sessions /\ redis'[j].id = redis[j].id
  BY <1>1, <1>3, <1>5, Zenon DEF Stored
<1> QED BY <1>5, <1>6, StoreKept, Zenon

-----------------------------------------------------------------------------
\* Which file is in force changes with the process only.
LEMMA FilesKept ==
  ASSUME Files, Next
  PROVE  Files'
<1>1. ASSUME UNCHANGED <<file, seen>> PROVE Files'
  BY <1>1, Zenon DEF Files
<1>2. CASE Environment
  <2>1. ASSUME NEW f \in File, Start(f) PROVE Files'
    BY <2>1, Zenon DEF Start, Files
  <2>2. CASE Exit
    BY <2>2, Zenon DEF Exit, storeVars, Files
  <2>3. CASE RedisFails \/ RedisRecovers \/ \E k \in DOMAIN redis : Expire(k) \/ Lapse(k)
    BY <1>1, <2>3, Zenon DEF RedisFails, RedisRecovers, Expire, Lapse
  <2> QED BY <1>2, <2>1, <2>2, <2>3, Zenon DEF Environment
<1>3. ASSUME NEW c \in ConnId, Public(c) PROVE UNCHANGED <<file, seen>>
  BY <1>3, Zenon DEF Public, Callback, CallbackFails, Session, Resolve, Logout, RedeemHandoff, storeVars
<1>4. ASSUME NEW u \in User, Admin(u) PROVE UNCHANGED <<file, seen>>
  BY <1>4, ZenonT(60) DEF Admin, IssueHandoff, Revoke, RevokeFails, TokenHandoff, storeVars
<1>5. CASE Deliver
  BY <1>1, <1>5, Zenon DEF Deliver, storeVars
<1> QED BY <1>1, <1>2, <1>3, <1>4, <1>5, ZenonT(60) DEF Next

\* A login stores its session under a key no other session has.
LEMMA CallbackStores ==
  ASSUME Files, Births, Stored, NEW c \in ConnId, NEW s \in Sid, NEW u \in User,
         Callback(c, s, u), KnownConnector(cfg, c)
  PROVE  Births' /\ Stored'
<1> DEFINE x == conn(cfg, c)
           k == SessionKey(x, s)
           r == [id |-> s, user |-> u, lapsed |-> FALSE]
           b == [conn |-> x.id, key |-> k, cookie |-> CookieName(c)]
<1>1. /\ file # None /\ s \notin DOMAIN born /\ seen' = seen
      /\ redis' = With(redis, k, r) /\ born' = With(born, s, b)
  BY Zenon DEF Callback
<1>2. file \in seen /\ file \in File /\ cfg = Cfg[file] /\ Validate(Cfg[file])
  BY <1>1, InForce, Zenon DEF Files
<1>3. Of(file, x) /\ CookieName(c) = x.cookie
  BY <1>2, ConnIs, Zenon DEF CookieName
<1>4. PICK i \in DOMAIN Cfg[file].conns : x = Cfg[file].conns[i]
  BY <1>3, Zenon DEF Of
<1>5. b.conn = x.id /\ b.key = k /\ b.cookie = x.cookie
  BY <1>3, Zenon
<1>6. r.id = s /\ r \in Sessions
  BY Zenon DEF Sessions
<1> HIDE DEF x, k, b, r
<1>7. /\ DOMAIN born' = DOMAIN born \cup {s} /\ born'[s] = b
      /\ \A t \in DOMAIN born : born'[t] = born[t]
  BY <1>1, Zenon DEF With
<1>8. /\ DOMAIN redis' = DOMAIN redis \cup {k} /\ redis'[k] = r
      /\ \A j \in DOMAIN redis : j # k => redis'[j] = redis[j]
  BY <1>1, Zenon DEF With
<1>9. Births'
  <2> SUFFICES ASSUME NEW t \in DOMAIN born'
               PROVE  \E g \in seen' : \E j \in DOMAIN Cfg[g].conns :
                        /\ born'[t].conn = Cfg[g].conns[j].id /\ born'[t].cookie = Cfg[g].conns[j].cookie
                        /\ born'[t].key = SessionKey(Cfg[g].conns[j], t)
    BY <1>7, Zenon DEF Births
  <2>1. CASE t = s
    <3>1. born'[t].conn = Cfg[file].conns[i].id /\ born'[t].cookie = Cfg[file].conns[i].cookie
          /\ born'[t].key = SessionKey(Cfg[file].conns[i], t)
      BY <1>4, <1>5, <1>7, <2>1, Zenon DEF k
    <3> QED BY <1>1, <1>2, <3>1, Zenon
  <2>2. CASE t # s
    BY <1>1, <1>7, <2>2, ZenonT(60) DEF Births
  <2> QED BY <2>1, <2>2, Zenon
<1>10. IsFiniteSet(DOMAIN redis')
  BY <1>8, FS_AddElement DEF Stored
<1>11. ASSUME NEW j \in DOMAIN redis'
       PROVE  redis'[j] \in Sessions /\ redis'[j].id \in DOMAIN born' /\ born'[redis'[j].id].key = j
  <2>1. CASE j = k
    BY <1>5, <1>6, <1>7, <1>8, <2>1, ZenonT(60)
  <2>2. CASE j # k
    BY <1>7, <1>8, <2>2, ZenonT(60) DEF Stored
  <2> QED BY <2>1, <2>2, Zenon
<1> QED BY <1>9, <1>10, <1>11, Zenon DEF Stored

\* No step moves a session to another key.
LEMMA StoreStep ==
  ASSUME Files, Births, Stored, Next
  PROVE  Births' /\ Stored'
<1>1. ASSUME UNCHANGED <<redis, born>>, seen \subseteq seen' PROVE Births' /\ Stored'
  BY <1>1, StoreKept, Zenon DEF Stored
<1>2. CASE Environment
  <2>1. CASE (\E f \in File : Start(f)) \/ Exit \/ RedisFails \/ RedisRecovers
    BY <1>1, <2>1, Zenon DEF Start, Exit, RedisFails, RedisRecovers, storeVars
  <2>2. ASSUME NEW k \in DOMAIN redis, Expire(k) PROVE Births' /\ Stored'
    BY <2>2, DeletionKeeps, Zenon DEF Expire
  <2>3. ASSUME NEW k \in DOMAIN redis, Lapse(k) PROVE Births' /\ Stored'
    BY <2>3, LapseKeeps, Zenon DEF Lapse
  <2> QED BY <1>2, <2>1, <2>2, <2>3, ZenonT(60) DEF Environment
<1>3. ASSUME NEW c \in ConnId, Public(c) PROVE Births' /\ Stored'
  <2>1. ASSUME NEW s \in Sid, NEW u \in User, Callback(c, s, u) PROVE Births' /\ Stored'
    BY <1>1, <2>1, CallbackStores, Zenon DEF Callback
  <2>2. CASE CallbackFails(c) \/ \E path \in {"session", "me"} : Session(c, path)
    BY <1>1, <2>2, ZenonT(60) DEF CallbackFails, Session, storeVars
  <2>3. ASSUME NEW refreshed \in BOOLEAN, NEW fails \in BOOLEAN, Resolve(c, refreshed, fails)
        PROVE  Births' /\ Stored'
    <3>1. CASE UNCHANGED redis
      BY <1>1, <2>3, <3>1, Zenon DEF Resolve
    <3>2. CASE Authenticated(c) /\ ~fails
      <4>1. Named(c) \in DOMAIN redis
        BY <3>2, Zenon DEF Authenticated
      <4>2. PICK k \in DOMAIN redis : k = Named(c)
        BY <4>1, Zenon
      <4>3. redis[k].lapsed \in BOOLEAN
        BY Zenon DEF Stored, Sessions
      <4>4. PICK b \in BOOLEAN : b = (redis[k].lapsed /\ ~refreshed)
        BY <4>3, Zenon
      <4>5. redis' = [redis EXCEPT ![k] = [redis[k] EXCEPT !.lapsed = b]]
        BY <2>3, <3>2, <4>2, <4>4, Zenon DEF Resolve
      <4> QED BY <2>3, <4>5, LapseKeeps, Zenon DEF Resolve
    <3> QED BY <2>3, <3>1, <3>2, Zenon DEF Resolve
  <2>4. ASSUME NEW o, NEW r, Logout(c, o, r) PROVE Births' /\ Stored'
    <3>1. redis' = Without(redis, LogoutKeys(c)) \/ UNCHANGED redis
      BY <2>4, Zenon DEF Logout
    <3>2. born' = born /\ seen' = seen
      BY <2>4, Zenon DEF Logout
    <3> QED BY <1>1, <3>1, <3>2, DeletionKeeps, Zenon
  <2>5. ASSUME NEW t \in tickets, RedeemHandoff(c, t)
        PROVE  Births' /\ Stored'
    BY <1>1, <2>5, Zenon DEF RedeemHandoff
  <2> QED BY <1>3, <2>1, <2>2, <2>3, <2>4, <2>5, ZenonT(60) DEF Public
<1>4. ASSUME NEW u \in User, Admin(u) PROVE Births' /\ Stored'
  <2>1. CASE \E c \in ConnId : IssueHandoff(c, u)
    BY <1>1, <2>1, Zenon DEF IssueHandoff
  <2>2. CASE Revoke(u)
    BY <2>2, DeletionKeeps, Zenon DEF Revoke
  <2>3. CASE RevokeFails(u)
    BY <2>3, DeletionKeeps, Zenon DEF RevokeFails
  <2>4. CASE \E fails \in BOOLEAN : TokenHandoff(u, fails)
    BY <1>1, <2>4, Zenon DEF TokenHandoff, storeVars
  <2> QED BY <1>4, <2>1, <2>2, <2>3, <2>4, Zenon DEF Admin
<1>5. CASE Deliver
  BY <1>1, <1>5, Zenon DEF Deliver, storeVars
<1> QED BY <1>2, <1>3, <1>4, <1>5, ZenonT(60) DEF Next

Cookie == [id : Sid, by : STRING]
Jar == \A n \in DOMAIN jar : jar[n] \in Cookie
Pending == \A t \in tickets : t.session \in Sid
Counts ==
  restarts \in 0 .. MaxRestarts /\ faults \in 0 .. MaxFaults /\ issued \in 0 .. MaxTickets

LEMMA HeldIs == Held <=> Jar /\ Pending /\ Counts /\ redisUp \in BOOLEAN
BY Zenon DEF Held, Jar, Pending, Counts, Cookie

LEMMA JarSteps ==
  ASSUME Jar
  PROVE  /\ jar' = jar => Jar'
         /\ \A n : jar' = Without(jar, n) => Jar'
         /\ \A n, v : jar' = With(jar, n, v) /\ v \in Cookie => Jar'
<1> HIDE DEF Cookie
<1>1. jar' = jar => Jar'
  BY Zenon DEF Jar
<1>2. ASSUME NEW n, jar' = Without(jar, n) PROVE Jar'
  BY <1>2, Zenon DEF Jar, Without
<1>3. ASSUME NEW n, NEW v \in Cookie, jar' = With(jar, n, v) PROVE Jar'
  BY <1>3, Zenon DEF Jar, With
<1> QED BY <1>1, <1>2, <1>3, Zenon

\* A cookie is set only for a session, by the secret in force.
LEMMA JarKept ==
  ASSUME Files, Jar, Pending, Next
  PROVE  Jar'
<1>0. ASSUME NEW s \in Sid, file # None PROVE [id |-> s, by |-> cfg.secret] \in Cookie
  <2>1. cfg.secret \in STRING
    BY <1>0, InForce, ConnsAre, Zenon
  <2> QED BY <2>1, Zenon DEF Cookie
<1>1. CASE Environment
  BY <1>1, JarSteps, Zenon DEF Environment, Start, Exit, RedisFails, RedisRecovers, Expire, Lapse, storeVars
<1>2. ASSUME NEW c \in ConnId, Public(c) PROVE Jar'
  <2>1. ASSUME NEW s \in Sid, NEW u \in User, Callback(c, s, u) PROVE Jar'
    <3>1. jar' = jar \/ jar' = With(jar, CookieName(c), [id |-> s, by |-> cfg.secret])
      BY <2>1, Zenon DEF Callback
    <3>2. file # None
      BY <2>1, Zenon DEF Callback
    <3> QED BY <1>0, <3>1, <3>2, JarSteps, Zenon
  <2>2. CASE CallbackFails(c)
    BY <2>2, JarSteps, Zenon DEF CallbackFails
  <2>3. CASE (\E path \in {"session", "me"} : Session(c, path))
             \/ (\E refreshed, fails \in BOOLEAN : Resolve(c, refreshed, fails))
    BY <2>3, JarSteps, Zenon DEF Session, Resolve, storeVars
  <2>4. ASSUME NEW o, NEW r, Logout(c, o, r) PROVE Jar'
    <3>1. jar' = jar \/ jar' = Without(jar, {CookieName(c)})
      BY <2>4, Zenon DEF Logout
    <3> QED BY <3>1, JarSteps, Zenon
  <2>5. ASSUME NEW t \in tickets, RedeemHandoff(c, t) PROVE Jar'
    <3>1. jar' = jar \/ jar' = With(jar, CookieName(t.conn), [id |-> t.session, by |-> cfg.secret])
      BY <2>5, Zenon DEF RedeemHandoff
    <3>2. file # None /\ t.session \in Sid
      BY <2>5, Zenon DEF RedeemHandoff, Pending
    <3> QED BY <1>0, <3>1, <3>2, JarSteps, Zenon
  <2> QED BY <1>2, <2>1, <2>2, <2>3, <2>4, <2>5, Zenon DEF Public
<1>3. ASSUME NEW u \in User, Admin(u) PROVE jar' = jar
  BY <1>3, Zenon DEF Admin, IssueHandoff, Revoke, RevokeFails, TokenHandoff, storeVars
<1>4. CASE Deliver
  BY <1>4, JarSteps, Zenon DEF Deliver, storeVars
<1> QED BY <1>1, <1>2, <1>3, <1>4, JarSteps, Zenon DEF Next

\* A ticket is issued only for a stored session.
LEMMA PendingKept ==
  ASSUME Births, Stored, Pending, Next
  PROVE  Pending'
<1>0. ASSUME tickets' \subseteq tickets PROVE Pending'
  BY <1>0, Zenon DEF Pending
<1>1. CASE Environment
  BY <1>0, <1>1, Zenon DEF Environment, Start, Exit, RedisFails, RedisRecovers, Expire, Lapse, storeVars
<1>2. ASSUME NEW c \in ConnId, Public(c) PROVE tickets' \subseteq tickets
  BY <1>2, ZenonT(60) DEF Public, Callback, CallbackFails, Session, Resolve, Logout, RedeemHandoff, storeVars
<1>3. ASSUME NEW u \in User, Admin(u) PROVE Pending'
  <2>1. ASSUME NEW c \in ConnId, IssueHandoff(c, u) PROVE Pending'
    <3>1. CASE UNCHANGED tickets
      BY <1>0, <3>1, Zenon
    <3>2. CASE \E k \in Found(conn(cfg, c), u) :
                 tickets' = tickets \cup {[n |-> issued, conn |-> conn(cfg, c).id,
                              session |-> redis[k].id, user |-> u, by |-> cfg.secret]}
      <4>1. PICK k \in Found(conn(cfg, c), u) :
              tickets' = tickets \cup {[n |-> issued, conn |-> conn(cfg, c).id,
                              session |-> redis[k].id, user |-> u, by |-> cfg.secret]}
        BY <3>2, Zenon
      <4>2. redis[k].id \in Sid
        BY Zenon DEF Found, Scanned, Stored, Births
      <4> QED BY <4>1, <4>2 DEF Pending
    <3> QED BY <2>1, <3>1, <3>2, Zenon DEF IssueHandoff
  <2>2. CASE Revoke(u) \/ RevokeFails(u) \/ \E fails \in BOOLEAN : TokenHandoff(u, fails)
    BY <1>0, <2>2, Zenon DEF Revoke, RevokeFails, TokenHandoff, storeVars
  <2> QED BY <1>3, <2>1, <2>2, Zenon DEF Admin
<1>4. CASE Deliver
  BY <1>0, <1>4, Zenon DEF Deliver, storeVars
<1> QED BY <1>0, <1>1, <1>2, <1>3, <1>4, Zenon DEF Next

\* The counters stay within their bounds.
LEMMA CountsKept ==
  ASSUME Counts, redisUp \in BOOLEAN, Next
  PROVE  Counts' /\ redisUp' \in BOOLEAN
<1> DEFINE Up(x, y, m) == (y = x) \/ (x < m /\ y = x + 1)
<1>1. ASSUME Up(restarts, restarts', MaxRestarts), Up(faults, faults', MaxFaults),
             Up(issued, issued', MaxTickets)
      PROVE  Counts'
  <2>1. MaxRestarts \in Nat /\ MaxFaults \in Nat /\ MaxTickets \in Nat
    BY AuthServerAssumption, Zenon
  <2> QED BY <1>1, <2>1 DEF Counts
<1>2. CASE Environment
  <2>1. Up(restarts, restarts', MaxRestarts) /\ Up(faults, faults', MaxFaults)
        /\ Up(issued, issued', MaxTickets)
    <3>1. CASE Exit
      BY <3>1, Zenon DEF Exit
    <3>2. CASE RedisFails
      BY <3>2, Zenon DEF RedisFails
    <3>3. CASE (\E f \in File : Start(f)) \/ RedisRecovers \/ \E k \in DOMAIN redis : Expire(k) \/ Lapse(k)
      BY <3>3, Zenon DEF Start, RedisRecovers, Expire, Lapse, counters
    <3> QED BY <1>2, <3>1, <3>2, <3>3, Zenon DEF Environment
  <2>2. redisUp' \in BOOLEAN
    BY <1>2, Zenon DEF Environment, Start, Exit, RedisFails, RedisRecovers, Expire, Lapse, storeVars
  <2> QED BY <1>1, <2>1, <2>2, Zenon
<1>3. ASSUME NEW c \in ConnId, Public(c) PROVE UNCHANGED <<restarts, faults, issued, redisUp>>
  BY <1>3, Zenon DEF Public, Callback, CallbackFails, Session, Resolve, Logout, RedeemHandoff, storeVars, counters
<1>4. ASSUME NEW u \in User, Admin(u) PROVE Counts' /\ redisUp' \in BOOLEAN
  <2>1. Up(restarts, restarts', MaxRestarts) /\ Up(faults, faults', MaxFaults)
        /\ Up(issued, issued', MaxTickets)
    <3>1. CASE \E c \in ConnId : IssueHandoff(c, u)
      <4>1. issued < MaxTickets /\ UNCHANGED <<restarts, faults>>
        BY <3>1, Zenon DEF IssueHandoff
      <4>2. issued' = issued \/ issued' = issued + 1
        <5> DEFINE more == issued + 1
        <5>1. PICK c \in ConnId : IssueHandoff(c, u)
          BY <3>1, Zenon
        <5>2. issued' = issued \/ issued' = more
          BY <5>1, Zenon DEF IssueHandoff
        <5> QED BY <5>2, Zenon
      <4> QED BY <4>1, <4>2, Zenon
    <3>2. CASE Revoke(u) \/ \E fails \in BOOLEAN : TokenHandoff(u, fails)
      BY <3>2, Zenon DEF Revoke, TokenHandoff, storeVars, counters
    <3>3. CASE RevokeFails(u)
      BY <3>3, Zenon DEF RevokeFails
    <3> QED BY <1>4, <3>1, <3>2, <3>3, Zenon DEF Admin
  <2>2. redisUp' \in BOOLEAN
    BY <1>4, ZenonT(60) DEF Admin, IssueHandoff, Revoke, RevokeFails, TokenHandoff, storeVars
  <2> QED BY <1>1, <2>1, <2>2, Zenon
<1>5. CASE Deliver
  BY <1>5, Zenon DEF Deliver, storeVars, counters, Counts
<1> QED BY <1>2, <1>3, <1>4, <1>5, Zenon DEF Next, Counts

LEMMA AuthInvStep == AuthInv /\ [Next]_vars => AuthInv'
<1> SUFFICES ASSUME AuthInv, [Next]_vars PROVE AuthInv'
  BY Zenon
<1>1. CASE Next
  <2>1. Files' /\ Births' /\ Stored'
    BY <1>1, FilesKept, StoreStep, Zenon DEF AuthInv
  <2>2. Jar' /\ Pending' /\ Counts' /\ redisUp' \in BOOLEAN
    BY <1>1, HeldIs, JarKept, PendingKept, CountsKept, Zenon DEF AuthInv
  <2>3. Held'
    BY <2>2, Zenon DEF Held, Jar, Pending, Counts, Cookie
  <2> QED BY <2>1, <2>3, Zenon DEF AuthInv
<1>2. CASE UNCHANGED vars
  BY <1>2, ZenonT(60) DEF vars, AuthInv, Files, Births, Stored, Held
<1> QED BY <1>1, <1>2, Zenon

\* AuthInv implies the type invariant.
LEMMA AuthInvTypes == AuthInv => TypeOK
<1> SUFFICES ASSUME AuthInv PROVE TypeOK
  BY Zenon
<1>1. file # None => file \in seen /\ cfg.conns # <<>> /\ Validate(cfg)
  BY InForce, ConnsAre, Zenon DEF AuthInv, Files
<1>2. \A k \in DOMAIN redis : redis[k] \in Sessions /\ k[Len(k)] = redis[k].id
  BY StoredKey, Zenon DEF AuthInv, Stored
<1> QED BY <1>1, <1>2, Zenon DEF AuthInv, Held, Births, TypeOK

\* The process runs only with a configuration that passed Validate, and every
\* stored session lies under a key that ends in its id, whatever the files,
\* restarts and faults (main, config.Load, KeyLayout).
THEOREM AuthTypeCorrect == Spec => []TypeOK
<1>1. Spec => []AuthInv
  BY AuthInvInit, AuthInvStep, PTL DEF Spec
<1> QED BY <1>1, AuthInvTypes, PTL

-----------------------------------------------------------------------------
\* What an answer says before a handler adds to it.
AnswerFields == {"op", "conn", "who", "user", "status", "count", "gone"}

LEMMA AnswerIs ==
  ASSUME NEW op, NEW st
  PROVE  LET l == Answer(op, st) IN
         /\ DOMAIN l = AnswerFields /\ l.op = op /\ l.status = st /\ l.conn = ""
         /\ l.who = None
BY Zenon DEF Answer, Quiet, AnswerFields

\* An answer that identifies nobody and revoked
\* nothing satisfies what the answers are asked for.
Plain(l) ==
  l.who = None /\ ~(l.op = "revoke" /\ l.status = 200)

Answered == SameConnector /\ RemovalComplete

LEMMA PlainAnswers ==
  ASSUME Plain(last') PROVE Answered'
BY Zenon DEF Plain, Answered, SameConnector, RemovalComplete

LEMMA PlainAnswer ==
  ASSUME NEW op, NEW st, op # "revoke" \/ st # 200
  PROVE  Plain(Answer(op, st))
<1> DEFINE l == Answer(op, st)
<1>1. l.op = op /\ l.status = st /\ l.who = None
  BY ZenonT(60) DEF Answer, Quiet
<1> HIDE DEF l
<1>2. Plain(l)
  BY <1>1, Zenon DEF Plain
<1> QED BY <1>2, Zenon DEF l

LEMMA PlainQuiet == Plain(Quiet)
BY Zenon DEF Plain, Quiet

\* Whoever finds a session under a connector's prefix finds the one the id
\* names, and if key spaces are owned it is one of that connector.
LEMMA Identified ==
  ASSUME AuthInv, file # None, NEW x, Of(file, x), NEW s \in Sid,
         SessionKey(x, s) \in DOMAIN redis
  PROVE  /\ redis[SessionKey(x, s)].id = s /\ s \in DOMAIN born
         /\ KeySpacesOwned => born[s].conn = x.id
<1> DEFINE k == SessionKey(x, s)
<1>1. Files /\ Births /\ Stored /\ file \in File /\ file \in seen
  BY InForce, Zenon DEF AuthInv, Files
<1>2. PICK g \in seen : \E i \in DOMAIN Cfg[g].conns :
        /\ g \in File /\ born[redis[k].id].conn = Cfg[g].conns[i].id
        /\ k = SessionKey(Cfg[g].conns[i], redis[k].id)
  BY <1>1, StoredKey, Zenon
<1>3. PICK i \in DOMAIN Cfg[g].conns :
        /\ g \in File /\ born[redis[k].id].conn = Cfg[g].conns[i].id
        /\ k = SessionKey(Cfg[g].conns[i], redis[k].id)
  BY <1>2, Zenon
<1>4. redis[k].id \in Sid /\ redis[k].id \in DOMAIN born
  BY <1>1, Zenon DEF Stored, Births
<1>5. PICK y : y = Cfg[g].conns[i]
  BY Zenon
<1>6. PICK t \in Sid : t = redis[k].id
  BY <1>4, Zenon
<1>7. Of(g, y) /\ g \in File /\ SessionKey(x, s) = SessionKey(y, t)
  BY <1>3, <1>5, <1>6, ZenonT(60) DEF Of
<1>8. s = t /\ x.prefix = y.prefix
  BY <1>1, <1>7, SessionKeysDiffer
<1>9. x \in Range(Cfg[file].conns) /\ y \in Range(Cfg[g].conns)
  BY <1>5, Zenon DEF Of, Range
<1>10. KeySpacesOwned => x.id = y.id
  BY <1>1, <1>8, <1>9 DEF KeySpacesOwned
<1> QED BY <1>3, <1>4, <1>5, <1>6, <1>8, <1>10, ZenonT(60)

\* An answer that identifies a session of its connector.
LEMMA Identifies ==
  ASSUME NEW c, NEW s, NEW o, file' = file, seen' = seen,
         last'.conn = c, last'.who = s, last'.op = o, o # "logout", o # "revoke",
         KnownConnector(cfg, c), KeySpacesOwned => born'[s].conn = conn(cfg, c).id
  PROVE  Answered'
<1>1. cfg' = cfg /\ (KeySpacesOwned' <=> KeySpacesOwned)
  BY Zenon DEF cfg, KeySpacesOwned
<1>2. SameConnector'
  BY <1>1, Zenon DEF SameConnector
<1>3. RemovalComplete'
  BY Zenon DEF RemovalComplete
<1> QED BY <1>2, <1>3, Zenon DEF Answered

\* The session behind a cookie is there and has the id the cookie says.
LEMMA CookieIdentifies ==
  ASSUME AuthInv, file # None, NEW c, KnownConnector(cfg, c),
         CookieName(c) \in DOMAIN jar, Named(c) \in DOMAIN redis
  PROVE  /\ redis[Named(c)].id = jar[CookieName(c)].id
         /\ KeySpacesOwned => born[redis[Named(c)].id].conn = conn(cfg, c).id
<1>1. file \in File /\ Validate(Cfg[file]) /\ cfg = Cfg[file]
  BY InForce, Zenon DEF AuthInv
<1>2. Of(file, conn(cfg, c))
  BY <1>1, ConnIs, Zenon
<1>3. jar[CookieName(c)].id \in Sid
  BY Zenon DEF AuthInv, Held
<1> QED BY <1>2, <1>3, Identified, ZenonT(60) DEF Named

\* What a revocation deletes is what its scan found in the connector's own key
\* space; the rest of what it found stays.
LEMMA RevokeAnswers ==
  ASSUME AuthInv, NEW u \in User, Revoke(u)
  PROVE  Answered'
<1> DEFINE x == DefaultConnector(cfg)
           F == Found(x, u)
           D == {SessionKey(x, redis[k].id) : k \in F}
           G == D \cap DOMAIN redis
           l == Answer("revoke", 200)
<1>1. /\ file # None /\ file' = file /\ seen' = seen
      /\ redis' = Without(redis, D)
      /\ last' = [l EXCEPT !.user = u, !.count = Cardinality(F), !.gone = Cardinality(G)]
  BY Zenon DEF Revoke
<1>2. /\ last'.op = "revoke" /\ last'.user = u /\ last'.count = Cardinality(F) /\ last'.gone = Cardinality(G)
      /\ last'.who = None
  <2>1. DOMAIN l = AnswerFields /\ l.op = "revoke" /\ l.who = None
    BY Zenon DEF Answer, Quiet, AnswerFields
  <2> HIDE DEF l, F, G
  <2> QED BY <1>1, <2>1, Zenon DEF AnswerFields
<1>3. cfg' = cfg /\ x' = x
  BY <1>1, Zenon DEF cfg
<1>4. file \in File /\ Of(file, x)
  <2>1. file \in File /\ Validate(Cfg[file]) /\ cfg = Cfg[file]
    BY <1>1, InForce, Zenon DEF AuthInv
  <2> QED BY <2>1, DefaultIs, Zenon DEF Of
<1> HIDE DEF x, l
<1>5. F \subseteq DOMAIN redis
  BY Zenon DEF Found, Scanned
<1>6. G \subseteq F
  <2> SUFFICES ASSUME NEW d \in G PROVE d \in F
    BY Zenon
  <2>1. PICK k \in F : d = SessionKey(x, redis[k].id)
    BY Zenon
  <2>2. redis[k].id \in Sid /\ born[redis[k].id].key = k
    BY <1>5, Zenon DEF AuthInv, Stored, Births
  <2>3. redis[d].id = redis[k].id
    BY <1>1, <1>4, <2>1, <2>2, Identified, ZenonT(60)
  <2>4. born[redis[d].id].key = d
    BY Zenon DEF AuthInv, Stored
  <2> QED BY <2>2, <2>3, <2>4, Zenon
<1>7. DOMAIN redis' = DOMAIN redis \ D /\ \A k \in DOMAIN redis' : redis'[k] = redis[k]
  BY <1>1, Zenon DEF Without
<1>8. Found(x, u)' = F \ D
  BY <1>3, <1>7, Zenon DEF Found, Scanned
<1>9. F \ D = F \ G
  BY <1>5, Zenon
<1>10. IsFiniteSet(F)
  BY <1>5, FS_Subset, Zenon DEF AuthInv, Stored
<1>11. Cardinality(F) = Cardinality(G) + Cardinality(F \ G)
  <2>1. F \cap G = G
    BY <1>6, Zenon
  <2>2. Cardinality(F \ G) = Cardinality(F) - Cardinality(F \cap G)
    BY <1>10, FS_Difference, Zenon
  <2>3. IsFiniteSet(G)
    BY <1>6, <1>10, FS_Subset, Zenon
  <2>4. Cardinality(F) \in Nat /\ Cardinality(G) \in Nat
    BY <1>10, <2>3, FS_CardinalityType, Zenon
  <2> HIDE DEF F, G
  <2>5. Cardinality(F \ G) = Cardinality(F) - Cardinality(G)
    BY <2>1, <2>2, Zenon
  <2> QED BY <2>4, <2>5
<1>12. \A k \in F \ D : k # SessionKey(x, redis[k].id) /\ redis'[k] = redis[k]
  BY <1>5, <1>7, Zenon
<1>13. RemovalComplete'
  <2> HIDE DEF F, D, G
  <2>1. /\ last'.count = last'.gone + Cardinality(Found(x, u)')
        /\ \A k \in Found(x, u)' : k # SessionKey(x, redis'[k].id)
    BY <1>2, <1>8, <1>9, <1>11, <1>12, Zenon
  <2> QED BY <1>2, <1>3, <2>1, Zenon DEF RemovalComplete, x
<1> QED BY <1>2, <1>13, Zenon DEF Answered, SameConnector

LEMMA CallbackAnswers ==
  ASSUME AuthInv, NEW c \in ConnId, NEW s \in Sid, NEW u \in User, Callback(c, s, u)
  PROVE  Answered'
<1>1. CASE ~KnownConnector(cfg, c)
  <2>1. last' = Answer("callback", StatusFor("unknown connector"))
    BY <1>1, Zenon DEF Callback
  <2> QED BY <2>1, PlainAnswer, PlainAnswers, Zenon
<1>2. CASE KnownConnector(cfg, c)
  <2> DEFINE b == [conn |-> conn(cfg, c).id, key |-> SessionKey(conn(cfg, c), s), cookie |-> CookieName(c)]
  <2>1. /\ file' = file /\ seen' = seen /\ born' = With(born, s, b)
        /\ last' = [Answer("callback", 302) EXCEPT !.conn = c, !.who = s]
    BY <1>2, Zenon DEF Callback
  <2>2. b.conn = conn(cfg, c).id
    BY Zenon
  <2> HIDE DEF b
  <2>3. born'[s].conn = conn(cfg, c).id
    BY <2>1, <2>2, Zenon DEF With
  <2>4. last'.conn = c /\ last'.who = s /\ last'.op = "callback"
    <3> DEFINE a == Answer("callback", 302)
    <3>1. DOMAIN a = AnswerFields /\ a.op = "callback"
      BY Zenon DEF Answer, Quiet, AnswerFields
    <3> HIDE DEF a
    <3>2. last' = [a EXCEPT !.conn = c, !.who = s]
      BY <2>1, Zenon DEF a
    <3> QED BY <3>1, <3>2, Zenon DEF AnswerFields
  <2> QED BY <1>2, <2>1, <2>3, <2>4, Identifies, ZenonT(60)
<1> QED BY <1>1, <1>2, Zenon

LEMMA SessionAnswers ==
  ASSUME AuthInv, NEW c \in ConnId, NEW path \in {"session", "me"}, Session(c, path)
  PROVE  Answered'
<1>1. file # None /\ file' = file /\ seen' = seen /\ born' = born
  BY Zenon DEF Session, storeVars
<1>2. CASE ~Authenticated(c)
  <2>1. last' = Answer(path, IF path = "me" THEN 401 ELSE 200)
    BY <1>2, Zenon DEF Session
  <2>2. path # "revoke"
    BY Zenon
  <2> QED BY <2>1, <2>2, PlainAnswer, PlainAnswers
<1>3. CASE Authenticated(c)
  <2>1. last' = [Answer(path, 200) EXCEPT !.conn = c, !.who = redis[Named(c)].id]
    BY <1>3, Zenon DEF Session
  <2>2. /\ last'.conn = c /\ last'.who = redis[Named(c)].id /\ last'.op = path
        /\ path # "logout" /\ path # "revoke"
    <3> DEFINE a == Answer(path, 200)
    <3>1. DOMAIN a = AnswerFields /\ a.op = path
      BY Zenon DEF Answer, Quiet, AnswerFields
    <3>2. path # "logout" /\ path # "revoke"
      BY Zenon
    <3> HIDE DEF a
    <3>3. last' = [a EXCEPT !.conn = c, !.who = redis[Named(c)].id]
      BY <2>1, Zenon DEF a
    <3> QED BY <3>1, <3>2, <3>3, Zenon DEF AnswerFields
  <2>3. KnownConnector(cfg, c) /\ (KeySpacesOwned => born'[redis[Named(c)].id].conn = conn(cfg, c).id)
    BY <1>1, <1>3, CookieIdentifies, Zenon DEF Authenticated, Decodes
  <2> QED BY <1>1, <2>2, <2>3, Identifies, Zenon
<1> QED BY <1>2, <1>3, Zenon

LEMMA ResolveAnswers ==
  ASSUME AuthInv, NEW c \in ConnId, NEW refreshed \in BOOLEAN, NEW fails \in BOOLEAN,
         Resolve(c, refreshed, fails)
  PROVE  Answered'
<1>1. file # None /\ file' = file /\ seen' = seen /\ born' = born
  BY Zenon DEF Resolve
<1>2. CASE ~(Authenticated(c) /\ ~fails)
  <2>1. last' = Answer("resolve", 401)
    BY <1>2, Zenon DEF Resolve
  <2> QED BY <2>1, PlainAnswer, PlainAnswers
<1>3. CASE Authenticated(c) /\ ~fails
  <2>1. last' = [Answer("resolve", 200) EXCEPT !.conn = c, !.who = redis[Named(c)].id]
    BY <1>3, Zenon DEF Resolve
  <2>2. /\ last'.conn = c /\ last'.who = redis[Named(c)].id /\ last'.op = "resolve"
       
    <3> DEFINE a == Answer("resolve", 200)
    <3>1. DOMAIN a = AnswerFields /\ a.op = "resolve"
      BY Zenon DEF Answer, Quiet, AnswerFields
    <3> HIDE DEF a
    <3>2. last' = [a EXCEPT !.conn = c, !.who = redis[Named(c)].id]
      BY <2>1, Zenon DEF a
    <3> QED BY <3>1, <3>2, Zenon DEF AnswerFields
  <2>3. KnownConnector(cfg, c) /\ (KeySpacesOwned => born'[redis[Named(c)].id].conn = conn(cfg, c).id)
    BY <1>1, <1>3, CookieIdentifies, Zenon DEF Authenticated, Decodes
  <2> QED BY <1>1, <2>2, <2>3, Identifies, Zenon
<1> QED BY <1>2, <1>3, Zenon

\* A logout names the session it deleted.
LEMMA LogoutAnswers ==
  ASSUME AuthInv, NEW c \in ConnId, NEW origin, NEW referer, Logout(c, origin, referer)
  PROVE  Answered'
<1>1. file # None /\ file' = file /\ seen' = seen /\ born' = born /\ cfg' = cfg
  BY Zenon DEF Logout, cfg
<1>2. CASE ~(KnownConnector(cfg, c) /\ ~OriginRefused(origin, referer))
  <2>1. last' = Answer("logout", StatusFor("csrf"))
    BY <1>2, Zenon DEF Logout
  <2> QED BY <2>1, PlainAnswer, PlainAnswers, Zenon
<1>3. CASE KnownConnector(cfg, c) /\ ~OriginRefused(origin, referer)
  <2> DEFINE w == IF Authenticated(c) THEN jar[CookieName(c)].id ELSE None
             a == Answer("logout", 302)
  <2>1. redis' = Without(redis, LogoutKeys(c))
    BY <1>3, Zenon DEF Logout
  <2>2. last' = [a EXCEPT !.conn = c, !.who = w]
    BY <1>3, Zenon DEF Logout
  <2>3. DOMAIN a = AnswerFields /\ a.op = "logout"
    BY Zenon DEF Answer, Quiet, AnswerFields
  <2> HIDE DEF a, w
  <2>4. last'.op = "logout" /\ last'.conn = c /\ last'.who = w
    BY <2>2, <2>3, Zenon DEF AnswerFields
  <2>6. CASE ~Authenticated(c)
    <3>1. w = None
      BY <2>6, Zenon DEF w
    <3> QED BY <2>4, <3>1, Zenon DEF Answered, SameConnector, RemovalComplete
  <2>7. CASE Authenticated(c)
    <3>1. Decodes(c) /\ Named(c) \in DOMAIN redis /\ LogoutKeys(c) = {Named(c)}
      BY <2>7, Zenon DEF Authenticated, LogoutKeys
    <3>2. w = jar[CookieName(c)].id /\ Named(c) = SessionKey(conn(cfg, c), w)
      BY <2>7, Zenon DEF w, Named
    <3>3. KeySpacesOwned => born[w].conn = conn(cfg, c).id
      BY <1>1, <1>3, <3>1, <3>2, CookieIdentifies, Zenon DEF Decodes
    <3>4. KeySpacesOwned' <=> KeySpacesOwned
      BY <1>1, Zenon DEF KeySpacesOwned
    <3>5. SameConnector'
      BY <1>1, <1>3, <2>4, <3>3, <3>4, Zenon DEF SameConnector
    <3>6. Named(c) \notin DOMAIN redis'
      BY <2>1, <3>1, Zenon DEF Without
    <3>7. RemovalComplete'
      BY <1>1, <2>4, <3>2, <3>6, Zenon DEF RemovalComplete
    <3> QED BY <3>5, <3>7, Zenon DEF Answered
  <2> QED BY <2>6, <2>7, Zenon
<1> QED BY <1>2, <1>3, Zenon

LEMMA RedeemAnswers ==
  ASSUME AuthInv, NEW c \in ConnId, NEW t \in tickets, RedeemHandoff(c, t)
  PROVE  Answered'
<1>1. file # None /\ file' = file /\ seen' = seen /\ born' = born
  BY Zenon DEF RedeemHandoff
<1>2. CASE ~Redeemable(c, t)
  <2>1. last' = Answer("redeem", 302)
    BY <1>2, Zenon DEF RedeemHandoff
  <2> QED BY <2>1, PlainAnswer, PlainAnswers, ZenonT(60)
<1>3. CASE Redeemable(c, t)
  <2> DEFINE a == Answer("redeem", 302)
  <2>1. last' = [a EXCEPT !.conn = t.conn, !.who = t.session]
    BY <1>3, Zenon DEF RedeemHandoff
  <2>2. DOMAIN a = AnswerFields /\ a.op = "redeem"
    BY Zenon DEF Answer, Quiet, AnswerFields
  <2> HIDE DEF a
  <2>4. last'.op = "redeem" /\ last'.conn = t.conn /\ last'.who = t.session
    BY <2>1, <2>2, Zenon DEF AnswerFields
  <2>5. KnownConnector(cfg, t.conn) /\ SessionKey(conn(cfg, t.conn), t.session) \in DOMAIN redis
    BY <1>3, Zenon DEF Redeemable
  <2>6. file \in File /\ Validate(Cfg[file]) /\ cfg = Cfg[file] /\ t.session \in Sid
    BY <1>1, InForce, Zenon DEF AuthInv, Held
  <2>7. Of(file, conn(cfg, t.conn))
    BY <2>5, <2>6, ConnIs, ZenonT(30)
  <2>8. KeySpacesOwned => born[t.session].conn = conn(cfg, t.conn).id
    BY <1>1, <2>5, <2>6, <2>7, Identified, ZenonT(60)
  <2> QED BY <1>1, <2>4, <2>5, <2>8, Identifies, ZenonT(60)
<1> QED BY <1>2, <1>3, Zenon

LEMMA TokenAnswers ==
  ASSUME AuthInv, NEW u \in User, NEW fails \in BOOLEAN, TokenHandoff(u, fails)
  PROVE  Answered'
<1> DEFINE x == DefaultConnector(cfg)
<1>1. file # None /\ file' = file /\ seen' = seen /\ born' = born
  BY Zenon DEF TokenHandoff, storeVars
<1>2. CASE \E st \in {500, 404, 401} : last' = Answer("token", st)
  BY <1>2, PlainAnswer, PlainAnswers, SMTT(60)
<1>3. CASE \E k \in Found(x, u) : SessionKey(x, redis[k].id) \in DOMAIN redis
                                  /\ last' = [Answer("token", 200) EXCEPT !.who = redis[k].id]
  <2>1. PICK k \in Found(x, u) : SessionKey(x, redis[k].id) \in DOMAIN redis
                                  /\ last' = [Answer("token", 200) EXCEPT !.who = redis[k].id]
    BY <1>3, Zenon
  <2> DEFINE a == Answer("token", 200)
             s == redis[k].id
  <2>2. DOMAIN a = AnswerFields /\ a.op = "token" /\ a.conn = ""
    BY Zenon DEF Answer, Quiet, AnswerFields
  <2>3. last' = [a EXCEPT !.who = s]
    BY <2>1, Zenon
  <2>4. k \in DOMAIN redis
    BY Zenon DEF Found, Scanned
  <2>5. s \in Sid
    BY <2>4, Zenon DEF AuthInv, Stored, Births
  <2>6. file \in File /\ Validate(Cfg[file]) /\ cfg = Cfg[file] /\ KnownConnector(cfg, "")
    BY <1>1, InForce, Zenon DEF AuthInv, KnownConnector
  <2>7. Of(file, x) /\ conn(cfg, "") = x
    BY <2>6, ConnIs, Zenon
  <2> HIDE DEF a, s, x
  <2>8. last'.op = "token" /\ last'.conn = "" /\ last'.who = s
    BY <2>2, <2>3, Zenon DEF AnswerFields
  <2>9. SessionKey(x, s) \in DOMAIN redis
    BY <2>1, Zenon DEF s
  <2>10. KeySpacesOwned => born[s].conn = x.id
    BY <1>1, <2>5, <2>7, <2>9, Identified, ZenonT(60)
  <2> QED BY <1>1, <2>6, <2>7, <2>8, <2>10, Identifies, ZenonT(60)
<1> QED BY <1>2, <1>3 DEF TokenHandoff

\* Every answer is as it should be; until it is delivered nothing else happens.
LEMMA AnsweredStep == AuthInv /\ Answered /\ [Next]_vars => Answered'
<1> SUFFICES ASSUME AuthInv, Answered, [Next]_vars PROVE Answered'
  BY Zenon
<1>1. CASE Deliver
  BY <1>1, PlainQuiet, PlainAnswers, Zenon DEF Deliver
<1>2. CASE last = Quiet /\ Environment
  <2>1. last' = Quiet
    BY <1>2, Zenon DEF Environment, Start, Exit, RedisFails, RedisRecovers, Expire, Lapse
  <2> QED BY <2>1, PlainQuiet, PlainAnswers, Zenon
<1>3. ASSUME NEW c \in ConnId, Public(c) PROVE Answered'
  <2>1. CASE CallbackFails(c)
    BY <2>1, PlainAnswer, PlainAnswers, ZenonT(60) DEF CallbackFails
  <2> QED
    BY <1>3, <2>1, CallbackAnswers, SessionAnswers, ResolveAnswers, LogoutAnswers, RedeemAnswers, ZenonT(60) DEF Public
<1>4. ASSUME NEW u \in User, Admin(u) PROVE Answered'
  <2>1. ASSUME NEW c \in ConnId, IssueHandoff(c, u) PROVE Answered'
    <3>1. \E st : last' = Answer("issue", st)
      BY <2>1, Zenon DEF IssueHandoff
    <3> QED BY <3>1, PlainAnswer, PlainAnswers, Zenon
  <2>2. CASE RevokeFails(u)
    BY <2>2, PlainAnswer, PlainAnswers DEF RevokeFails
  <2> QED BY <1>4, <2>1, <2>2, RevokeAnswers, TokenAnswers, Zenon DEF Admin
<1>5. CASE UNCHANGED vars
  BY <1>5, ZenonT(60) DEF vars, Answered, SameConnector, RemovalComplete, KeySpacesOwned,
                     cfg, Found, Scanned
<1> QED BY <1>1, <1>2, <1>3, <1>4, <1>5, ZenonT(60) DEF Next

LEMMA AnsweredAlways == Spec => [](AuthInv /\ Answered)
<1>1. Init => Answered
  <2> SUFFICES ASSUME Init PROVE Answered
    BY Zenon
  <2>1. last.who = None /\ last.op = "none"
    BY Zenon DEF Init, Quiet
  <2> QED BY <2>1, Zenon DEF Answered, SameConnector, RemovalComplete
<1> QED BY <1>1, AuthInvInit, AuthInvStep, AnsweredStep, PTL DEF Spec

\* Whatever handler identifies a session, under whatever sequence of valid
\* configurations that give no connector's key space to another, a login
\* through that very connector created it (Server.connectorCookie,
\* Service.conn, KeyLayout).
THEOREM AlwaysSameConnector == Spec => []SameConnector
BY AnsweredAlways, PTL DEF Answered

\* A logout leaves nothing of the session it names, and a revocation deletes
\* what it found but for the key spaces of others, and counts it right, for
\* any configurations and stores (Service.Logout,
\* Store.DeleteSessionsBySubjectEmail).
THEOREM RemovalsComplete == Spec => []RemovalComplete
BY AnsweredAlways, PTL DEF Answered

-----------------------------------------------------------------------------
\* Names with and without an id appended.
LEMMA AppendDiffers ==
  ASSUME NEW S, NEW b \in Seq(S), NEW a \in S, NEW c \in S
  PROVE  /\ Append(b, a) # b
         /\ Append(b, a) = Append(b, c) => a = c
<1>1. Len(Append(b, a)) = Len(b) + 1 /\ Append(b, a)[Len(b) + 1] = a /\ Append(b, c)[Len(b) + 1] = c
  BY SMT
<1>2. Len(b) \in Nat
  BY SMT
<1> QED BY <1>1, <1>2, SMT

\* What a prefix has in common with a key under it.
LEMMA PrefixAgrees ==
  ASSUME NEW S, NEW s \in Seq(S), NEW t \in Seq(S), Under(s, t)
  PROVE  Len(s) < Len(t) /\ \A i \in 1 .. Len(s) : s[i] = t[i]
<1>1. Len(s) < Len(t) /\ SubSeq(t, 1, Len(s)) = s
  BY Zenon DEF Under
<1>2. \A i \in 1 .. Len(s) : SubSeq(t, 1, Len(s))[i] = t[i]
  BY <1>1, SMT
<1> QED BY <1>1, <1>2, Zenon

\* The scan of a base name finds keys of a derived one only if the id is the
\* word that follows a prefix; the scans of derived names find nothing else.
LEMMA PrefixCases ==
  ASSUME NEW S, NEW b \in Seq(S), NEW a \in S, NEW c \in S, NEW z \in S
  PROVE  /\ Under(Append(b, z), Append(Append(b, c), z)) => c = z
         /\ ~Under(Append(Append(b, a), z), Append(b, z))
         /\ ~Under(Append(Append(b, a), z), Append(Append(b, c), z))
<1> DEFINE one(v) == Append(b, v)
           two(v) == Append(Append(b, v), z)
<1>0. Len(b) \in Nat
  OBVIOUS
<1>1. \A v \in S : one(v) \in Seq(S) /\ Len(one(v)) = Len(b) + 1 /\ one(v)[Len(b) + 1] = v
  BY SMT
<1>2. \A v \in S : two(v) \in Seq(S) /\ Len(two(v)) = Len(b) + 2 /\ two(v)[Len(b) + 1] = v
  BY <1>0, <1>1, SMT
<1> HIDE DEF one, two
<1>3. ASSUME Under(one(z), two(c)) PROVE c = z
  <2>0. one(z) \in Seq(S) /\ two(c) \in Seq(S)
    BY <1>1, <1>2, Zenon
  <2>1. \A i \in 1 .. Len(one(z)) : one(z)[i] = two(c)[i]
    BY <1>3, <2>0, PrefixAgrees, Zenon
  <2>2. Len(one(z)) = Len(b) + 1 /\ one(z)[Len(b) + 1] = z /\ two(c)[Len(b) + 1] = c
    BY <1>1, <1>2, Zenon
  <2>3. Len(b) + 1 \in 1 .. Len(one(z))
    BY <1>0, <2>2, SMTT(60)
  <2> QED BY <2>1, <2>2, <2>3, Zenon
<1>4. ~Under(two(a), one(z)) /\ ~Under(two(a), two(c))
  <2>1. /\ Under(two(a), one(z)) => Len(two(a)) < Len(one(z))
        /\ Under(two(a), two(c)) => Len(two(a)) < Len(two(c))
    BY Zenon DEF Under
  <2>2. Len(two(a)) = Len(b) + 2 /\ Len(two(c)) = Len(b) + 2 /\ Len(one(z)) = Len(b) + 1
    BY <1>1, <1>2, Zenon
  <2> QED BY <1>0, <2>1, <2>2, SMTT(60)
<1> QED BY <1>3, <1>4, Zenon DEF one, two

LEMMA BasesTyped ==
  ASSUME NEW raw \in Config
  PROVE  BasePrefix(raw) \in Seq(Parts) /\ BaseCookie(raw) \in Seq(Parts)
<1>1. raw.prefix \in Seq(STRING) /\ raw.cookie \in Seq(STRING)
  BY Zenon DEF Config
<1>2. STRING \subseteq Parts /\ "auth" \in Parts /\ "__Host-ess_session" \in Parts
  BY Zenon DEF Parts
<1>3. \A p \in Seq(STRING) : p \in Seq(Parts)
  BY <1>2, SeqWidens, Zenon
<1>4. <<"auth">> \in Seq(Parts) /\ <<"__Host-ess_session">> \in Seq(Parts)
  BY <1>2, SMTT(30)
<1> QED BY <1>1, <1>3, <1>4, ZenonT(60) DEF BasePrefix, BaseCookie, OrElse

\* What an unnamed connector of a file is called.
LEMMA UnnamedIs ==
  ASSUME NEW f \in File, NEW i \in DOMAIN Raw[f].conns, Unnamed(Raw[f].conns[i])
  PROVE  LET x == Cfg[f].conns[i] IN
         /\ i \in DOMAIN Cfg[f].conns /\ x.id \in Parts
         /\ x.prefix = IF x.dflt THEN BasePrefix(Raw[f]) ELSE Append(BasePrefix(Raw[f]), x.id)
         /\ x.cookie = IF x.dflt THEN BaseCookie(Raw[f]) ELSE Append(BaseCookie(Raw[f]), x.id)
<1> DEFINE g == Raw[f].conns[i]
           x == Cfg[f].conns[i]
<1>1. Raw[f] \in Config /\ DOMAIN Cfg[f].conns = DOMAIN Given(Raw[f])
  BY ConnsAre
<1>2. Raw[f].conns # <<>>
  BY SMTT(30)
<1>3. Given(Raw[f]) = Raw[f].conns
  BY <1>1, <1>2, GivenIs, ZenonT(60)
<1>4. /\ x.id = g.id /\ x.prefix = OwnName(g.prefix, BasePrefix(Raw[f]), x)
      /\ x.cookie = OwnName(g.cookie, BaseCookie(Raw[f]), x)
  BY <1>1, <1>3, ConnsAre, SMTT(60)
<1>5. g.id \in STRING
  <2>1. Raw[f].conns \in Seq(ConnectorConfig)
    BY <1>1, Zenon DEF Config
  <2>2. g \in ConnectorConfig
    BY <2>1
  <2> QED BY <2>2, Zenon DEF ConnectorConfig
<1>6. g.prefix = <<>> /\ g.cookie = <<>>
  BY Zenon DEF Unnamed
<1> HIDE DEF g, x
<1>7. x.id \in Parts
  BY <1>4, <1>5, Zenon DEF Parts
<1> QED BY <1>1, <1>3, <1>4, <1>6, <1>7, ZenonT(60) DEF OwnName, x

LEMMA NamesDiffer == AuthInv => NamesApart
<1> SUFFICES ASSUME AuthInv, file # None,
                    NEW i \in DOMAIN Raw[file].conns, NEW j \in DOMAIN Raw[file].conns,
                    i # j, Unnamed(Raw[file].conns[i]), Unnamed(Raw[file].conns[j])
             PROVE  LET x == cfg.conns[i]  y == cfg.conns[j] IN
                    /\ x.cookie # y.cookie /\ x.prefix # y.prefix
                    /\ Under(Append(x.prefix, "session"), Append(y.prefix, "session"))
                         => y.id = "session"
  BY Zenon DEF NamesApart
<1>1. file \in File /\ Validate(Cfg[file]) /\ cfg = Cfg[file]
  BY InForce, Zenon DEF AuthInv
<1>2. PICK x, y : x = Cfg[file].conns[i] /\ y = Cfg[file].conns[j]
  BY Zenon
<1>3. PICK p \in Seq(Parts), n \in Seq(Parts) : p = BasePrefix(Raw[file]) /\ n = BaseCookie(Raw[file])
  BY <1>1, ConnsAre, BasesTyped, ZenonT(60)
<1>4. /\ x.id \in Parts /\ x.prefix = IF x.dflt THEN p ELSE Append(p, x.id)
      /\ x.cookie = IF x.dflt THEN n ELSE Append(n, x.id)
      /\ i \in DOMAIN Cfg[file].conns
  BY <1>1, <1>2, <1>3, UnnamedIs, ZenonT(60)
<1>5. /\ y.id \in Parts /\ y.prefix = IF y.dflt THEN p ELSE Append(p, y.id)
      /\ y.cookie = IF y.dflt THEN n ELSE Append(n, y.id)
      /\ j \in DOMAIN Cfg[file].conns
  BY <1>1, <1>2, <1>3, UnnamedIs, ZenonT(60)
<1>6. x.id # y.id /\ ~(x.dflt /\ y.dflt)
  <2>1. validateConnectors(Cfg[file])
    BY <1>1, ConnsAre, Zenon DEF Validate
  <2> QED BY <1>2, <1>4, <1>5, <2>1, ZenonT(60) DEF validateConnectors
<1>7. PICK z \in Parts : z = "session"
  BY Zenon DEF Parts
<1>8. PICK a \in Parts, c \in Parts : a = x.id /\ c = y.id
  BY <1>4, <1>5, Zenon
<1>9. x.cookie # y.cookie /\ x.prefix # y.prefix
  <2>1. /\ Append(p, a) # p /\ Append(p, c) # p /\ Append(p, a) # Append(p, c)
        /\ Append(n, a) # n /\ Append(n, c) # n /\ Append(n, a) # Append(n, c)
    BY <1>6, <1>8, AppendDiffers, SMTT(60)
  <2> QED BY <1>4, <1>5, <1>6, <1>8, <2>1, ZenonT(60)
<1>10. Under(Append(x.prefix, z), Append(y.prefix, z)) => y.id = z
  <2>1. /\ Under(Append(p, z), Append(Append(p, c), z)) => c = z
        /\ ~Under(Append(Append(p, a), z), Append(p, z))
        /\ ~Under(Append(Append(p, a), z), Append(Append(p, c), z))
    BY PrefixCases, Zenon
  <2> QED BY <1>4, <1>5, <1>6, <1>8, <2>1, ZenonT(60)
<1> QED BY <1>1, <1>2, <1>7, <1>9, <1>10, ZenonT(60)

\* In every valid configuration the names connectors do not choose themselves
\* are told apart, whatever the base names and ids (Config.Normalize,
\* validateConnectors).
THEOREM NamesAlwaysApart == Spec => []NamesApart
BY AnsweredAlways, NamesDiffer, PTL

\* The legacy connector has the base names.
LEMMA LegacyIs ==
  ASSUME NEW f \in File, Raw[f].conns = <<>>, NEW i \in DOMAIN Cfg[f].conns
  PROVE  LET x == Cfg[f].conns[i] IN
         x.prefix = BasePrefix(Raw[f]) /\ x.cookie = BaseCookie(Raw[f])
<1> DEFINE g == Given(Raw[f])[i]
           x == Cfg[f].conns[i]
<1>1. Raw[f] \in Config /\ i \in DOMAIN Given(Raw[f])
  BY ConnsAre, Zenon
<1>2. Given(Raw[f]) = <<Legacy(Raw[f])>> /\ Len(Given(Raw[f])) = 1
      /\ DOMAIN Given(Raw[f]) = 1 .. Len(Given(Raw[f]))
  BY <1>1, GivenIs, Zenon
<1>3. i = 1
  BY <1>1, <1>2, SMTT(60)
<1>4. g = Legacy(Raw[f])
  BY <1>2, <1>3
<1>5. g.prefix = <<>> /\ g.cookie = <<>>
  <2>1. Legacy(Raw[f]).prefix = <<>> /\ Legacy(Raw[f]).cookie = <<>>
    BY Zenon DEF Legacy
  <2> QED BY <1>4, <2>1, Zenon
<1>6. /\ x.dflt = (g.dflt \/ Len(Given(Raw[f])) = 1)
      /\ x.prefix = OwnName(g.prefix, BasePrefix(Raw[f]), x)
      /\ x.cookie = OwnName(g.cookie, BaseCookie(Raw[f]), x)
  BY ConnsAre, Zenon
<1> HIDE DEF g, x
<1>7. x.dflt
  BY <1>2, <1>6, ZenonT(60)
<1> QED BY <1>5, <1>6, <1>7, ZenonT(60) DEF OwnName, x

LEMMA Migrates == AuthInv => MigrationKeepsSessions
<1> SUFFICES ASSUME AuthInv, NEW s \in DOMAIN born,
                    file # None, redisUp, born[s].conn = "default", born[s].key \in DOMAIN redis,
                    born[s].cookie \in DOMAIN jar, jar[born[s].cookie] = [id |-> s, by |-> cfg.secret],
                    \A i \in DOMAIN Raw[file].conns : cfg.conns[i].dflt => Unnamed(Raw[file].conns[i]),
                    \A f \in seen : /\ Raw[f].prefix = Raw[file].prefix /\ Raw[f].cookie = Raw[file].cookie
                                    /\ \A i \in DOMAIN Raw[f].conns : Raw[f].conns[i].id # "default"
             PROVE  Authenticated("") /\ redis[Named("")].id = s
  BY Zenon DEF MigrationKeepsSessions
<1>1. file \in File /\ Validate(Cfg[file]) /\ cfg = Cfg[file] /\ s \in Sid /\ seen \subseteq File
  BY InForce, Zenon DEF AuthInv, Births, Files
\* The session's login went through the legacy connector.
<1>2. PICK g \in seen : \E i \in DOMAIN Cfg[g].conns :
        /\ born[s].conn = Cfg[g].conns[i].id /\ born[s].cookie = Cfg[g].conns[i].cookie
        /\ born[s].key = SessionKey(Cfg[g].conns[i], s)
  BY ZenonT(30) DEF AuthInv, Births
<1>3. PICK i \in DOMAIN Cfg[g].conns :
        /\ born[s].conn = Cfg[g].conns[i].id /\ born[s].cookie = Cfg[g].conns[i].cookie
        /\ born[s].key = SessionKey(Cfg[g].conns[i], s)
  BY <1>2, Zenon
<1>4. g \in File /\ Raw[g] \in Config /\ DOMAIN Cfg[g].conns = DOMAIN Given(Raw[g])
      /\ Cfg[g].conns[i].id = Given(Raw[g])[i].id
  BY <1>1, ConnsAre, Zenon
<1>5. Raw[g].conns = <<>>
  <2> SUFFICES ASSUME Raw[g].conns # <<>> PROVE FALSE
    BY Zenon
  <2>1. Given(Raw[g]) = Raw[g].conns
    BY <1>4, GivenIs, ZenonT(30)
  <2>2. i \in DOMAIN Raw[g].conns /\ Raw[g].conns[i].id = "default"
    BY <1>3, <1>4, <2>1, ZenonT(30)
  <2> QED BY <2>2, Zenon
<1>6. PICK x : x = Cfg[g].conns[i]
  BY Zenon
<1>7. x.prefix = BasePrefix(Raw[file]) /\ x.cookie = BaseCookie(Raw[file])
  <2>1. x.prefix = BasePrefix(Raw[g]) /\ x.cookie = BaseCookie(Raw[g])
    BY <1>4, <1>5, <1>6, LegacyIs, ZenonT(60)
  <2>2. Raw[g].prefix = Raw[file].prefix /\ Raw[g].cookie = Raw[file].cookie
    BY Zenon
  <2> QED BY <2>1, <2>2, Zenon DEF BasePrefix, BaseCookie
\* The default connector in force has the same names.
<1>8. PICK d \in DOMAIN Cfg[file].conns :
        /\ DefaultConnector(Cfg[file]) = Cfg[file].conns[d]
        /\ \A j \in DOMAIN Cfg[file].conns : Cfg[file].conns[j].dflt <=> d = j
  BY <1>1, DefaultIs, ZenonT(30)
<1>9. PICK y : y = Cfg[file].conns[d]
  BY Zenon
<1>10. y.prefix = BasePrefix(Raw[file]) /\ y.cookie = BaseCookie(Raw[file])
  <2>1. CASE Raw[file].conns = <<>>
    BY <1>1, <1>9, <2>1, LegacyIs, ZenonT(60)
  <2>2. CASE Raw[file].conns # <<>>
    <3>1. d \in DOMAIN Raw[file].conns
      BY <1>1, <2>2, ConnsAre, GivenIs, ZenonT(60)
    <3>2. y.dflt /\ Unnamed(Raw[file].conns[d])
      BY <1>1, <1>8, <1>9, <3>1, ZenonT(60)
    <3> QED BY <1>1, <1>9, <3>1, <3>2, UnnamedIs, ZenonT(60)
  <2> QED BY <2>1, <2>2, Zenon
<1>11. conn(cfg, "") = y /\ CookieName("") = y.cookie /\ KnownConnector(cfg, "")
  <2>1. KnownConnector(Cfg[file], "")
    BY DEF KnownConnector
  <2>2. /\ conn(Cfg[file], "") = DefaultConnector(Cfg[file])
        /\ connectorCookie(Cfg[file], "") = conn(Cfg[file], "").cookie
    BY <1>1, <2>1, ConnIs, ZenonT(60)
  <2>3. conn(Cfg[file], "") = y
    BY <1>8, <1>9, <2>2, ZenonT(60)
  <2> QED BY <1>1, <2>1, <2>2, <2>3, ZenonT(60) DEF CookieName
<1>12. CookieName("") = born[s].cookie
  BY <1>3, <1>6, <1>7, <1>10, <1>11, ZenonT(60)
<1>13. Decodes("") /\ jar[CookieName("")].id = s
  <2>1. PICK r : r = jar[CookieName("")]
    BY Zenon
  <2>2. r = [id |-> s, by |-> cfg.secret] /\ CookieName("") \in DOMAIN jar
    BY <1>12, <2>1, Zenon
  <2>3. r.id = s /\ r.by = cfg.secret
    BY ONLY <2>2, ZenonT(30)
  <2> QED BY <2>1, <2>2, <2>3, ZenonT(60) DEF Decodes
<1>14. Named("") = born[s].key
  BY <1>3, <1>6, <1>7, <1>10, <1>11, <1>13, ZenonT(60) DEF Named, SessionKey
<1>15. redis[Named("")].id = s
  BY <1>11, <1>13, <1>14, CookieIdentifies, ZenonT(60) DEF Decodes
<1> QED BY <1>11, <1>13, <1>14, <1>15, ZenonT(60) DEF Authenticated

\* A login of the legacy configuration survives the move to connectors, for
\* any base names, connectors and number of restarts in between, as long as
\* base names and secret stay and the default connector chooses no names
\* (docs/MIGRATION.md, Config.Normalize).
THEOREM MigrationAlwaysKeeps == Spec => []MigrationKeepsSessions
BY AnsweredAlways, Migrates, PTL
=============================================================================
