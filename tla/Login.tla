-------------------------------- MODULE Login --------------------------------
(***************************************************************************)
(* The authorization-code login of one browser: GET /login stores the PKCE *)
(* state of a login and sends the browser to the IdP, GET|POST /callback   *)
(* turns the code it brings back into a session and a cookie               *)
(* (Service.LoginStart, Service.LoginEnd and their HTTP handlers).         *)
(*                                                                         *)
(* A login is named by its random state, which stands for the verifier and *)
(* the nonce stored with it.  The browser may repeat a callback, have      *)
(* several logins open and mix them up, and see the answers in any order.  *)
(* A callback is split at each call to Redis or to the IdP; the session it *)
(* creates is named by the callback, its id being random.  The process may *)
(* end at any time and be started again with other settings.               *)
(*                                                                         *)
(* A redirect target is a URL, a path, nothing, or of a form that is       *)
(* refused ("//host", another scheme).  A path is the sequence of its      *)
(* pieces, so that strings.HasPrefix is a prefix of the sequence; <<>> is  *)
(* the empty path and, as an allowed prefix, "/".                          *)
(***************************************************************************)
EXTENDS Naturals, Sequences, FiniteSets

CONSTANTS
  Conn,          \* connectors
  State,         \* logins
  Code,          \* authorization codes
  Proc,          \* callback requests
  None,
  DomainCookie,  \* connectors whose cookie is set with a Domain attribute
  Target,        \* values of redirect_to
  Setting,       \* of each start of the process: base URL, allowed origins, paths
  MaxRestarts,
  MaxCodes,      \* codes the IdP issues for one login
  MaxFaults      \* failing calls to Redis and of the cookie encoder

ASSUME LoginAssumption ==
  /\ None \notin Conn \cup State \cup Code \cup Proc
  /\ DomainCookie \subseteq Conn
  /\ MaxCodes \in Nat /\ MaxFaults \in Nat /\ MaxRestarts \in Nat
  /\ \A t \in Target : t.form \in {"none", "path", "url", "bad"} /\ t.path \in Seq(STRING)

VARIABLES
  boot,      \* restarts of the process so far
  conn,      \* the connector each login was started on, or None
  begun,     \* what redirect_to each login was started with, and by which start
  to,        \* the target that was stored with the state of each login
  pkce,      \* Redis: the <<connector, state>> keys present
  login,     \* the login the IdP issued each code for, or None
  spent,     \* the codes that were exchanged
  pc, req,   \* where each callback stands; its connector, state and code
  sessions,  \* Redis: <<connector, session>> keys ever stored
  answer,    \* what a callback answers: "none", "cookie", "clear" or "error"
  dest,      \* where a callback sends the browser
  jar,       \* the browser's session cookie of each connector, or None
  uses,      \* callbacks that found the PKCE state of each login
  faults

begin == <<conn, begun, to>>
vars == <<boot, begin, pkce, login, spent, pc, req, sessions, answer, dest, jar, uses, faults>>

TypeOK ==
  /\ boot \in 0..MaxRestarts
  /\ conn \in [State -> Conn \cup {None}]
  /\ DOMAIN begun = State /\ DOMAIN to = State /\ DOMAIN dest = Proc
  /\ \A s \in State : conn[s] # None => begun[s].asked \in Target /\ begun[s].under \in 0..boot
  /\ pkce \in SUBSET (Conn \X State)
  /\ login \in [Code -> State \cup {None}]
  /\ spent \in SUBSET Code
  /\ pc \in [Proc -> {"idle", "get", "delete", "exchange", "validate",
                      "store", "encode", "reply", "done"}]
  /\ req \in [Proc -> (Conn \X (State \cup {None}) \X (Code \cup {None})) \cup {None}]
  /\ sessions \in SUBSET (Conn \X Proc)
  /\ answer \in [Proc -> {"none", "cookie", "clear", "error"}]
  /\ jar \in [Conn -> Proc \cup {None}]
  /\ uses \in [State -> Nat]
  /\ faults \in 0..MaxFaults
  /\ \A k \in Code : login[k] # None => conn[login[k]] # None
  /\ \A p \in Proc : pc[p] # "idle" =>
       req[p] \in Conn \X (State \cup {None}) \X (Code \cup {None})
  /\ \A p \in Proc : pc[p] \notin {"idle", "reply", "done"} =>
       /\ req[p] \in Conn \X State \X Code
       /\ conn[req[p][2]] # None /\ login[req[p][3]] # None

Init ==
  /\ boot = 0
  /\ conn = [s \in State |-> None]
  /\ begun = [s \in State |-> None] /\ to = [s \in State |-> None]
  /\ pkce = {}
  /\ login = [k \in Code |-> None]
  /\ spent = {}
  /\ pc = [p \in Proc |-> "idle"]
  /\ req = [p \in Proc |-> None]
  /\ sessions = {}
  /\ answer = [p \in Proc |-> "none"] /\ dest = [p \in Proc |-> None]
  /\ jar = [c \in Conn |-> None]
  /\ uses = [s \in State |-> 0]
  /\ faults = 0

Fault == faults < MaxFaults /\ faults' = faults + 1

-----------------------------------------------------------------------------
(* Redirect targets.                                                       *)

URL(origin, path) == [form |-> "url", origin |-> origin, path |-> path]
Home(g) == URL(g.app.origin, g.app.path)
Trusted(g) == {g.app.origin} \cup g.origins
PathAllowed(g, path) ==
  g.paths = {} \/ \E q \in g.paths : Len(q) <= Len(path) /\ SubSeq(path, 1, Len(q)) = q

\* The URL a target stands for under the settings g, None if it is refused.
ValidateRedirect(g, t) ==
  CASE t.form = "none" -> Home(g)
    [] t.form = "path" /\ PathAllowed(g, t.path) -> URL(g.app.origin, g.app.path \o t.path)
    [] t.form = "url" /\ t.origin \in Trusted(g) /\ PathAllowed(g, t.path) -> t
    [] OTHER -> None

\* A refused target becomes the base URL.
RedirectURL(g, t) == IF ValidateRedirect(g, t) = None THEN Home(g) ELSE ValidateRedirect(g, t)

setting == Setting[boot]

-----------------------------------------------------------------------------
at(p) == req[p][1]
state(p) == req[p][2]
code(p) == req[p][3]

Goto(p, l) == pc' = [pc EXCEPT ![p] = l]

\* What a callback answers, and where it sends the browser.
Answer(p, a, d) ==
  /\ pc' = [pc EXCEPT ![p] = "reply"]
  /\ answer' = [answer EXCEPT ![p] = a]
  /\ dest' = [dest EXCEPT ![p] = d]
\* A failed login ends at the error page of the app: only its origin counts.
Clear(p) == Answer(p, "clear", Home(setting))

-----------------------------------------------------------------------------
\* LoginStart.  When AuthorizationURL or Set fails, the browser is not sent to
\* the IdP and the state, stored or not, is never used: left out.
LoginStart(c, s, t) ==
  /\ conn[s] = None
  /\ conn' = [conn EXCEPT ![s] = c]
  /\ begun' = [begun EXCEPT ![s] = [asked |-> t, under |-> boot]]
  /\ to' = [to EXCEPT ![s] = RedirectURL(setting, t)]
  /\ pkce' = pkce \cup {<<c, s>>}
  /\ UNCHANGED <<boot, dest, login, spent, pc, req, sessions, answer, jar, uses, faults>>

\* The user authenticates, possibly again from the browser's history: the IdP
\* issues a code for the login.
Authorize(s, k) ==
  /\ conn[s] # None /\ login[k] = None
  /\ Cardinality({j \in Code : login[j] = s}) < MaxCodes
  /\ login' = [login EXCEPT ![k] = s]
  /\ UNCHANGED <<boot, begin, dest, pkce, spent, pc, req, sessions, answer, jar, uses, faults>>

\* The browser follows the redirect, once or more, to the callback of the
\* connector whose redirect URI is configured: its own, or by mistake another.
\* It may bring the state of one login and the code of another.
Callback(p, c, s, k) ==
  /\ pc[p] = "idle" /\ conn[s] # None /\ login[k] # None
  /\ req' = [req EXCEPT ![p] = <<c, s, k>>]
  /\ Goto(p, "get")
  /\ UNCHANGED <<boot, begin, dest, pkce, login, spent, sessions, answer, jar, uses, faults>>

\* The IdP redirects with an error, or a callback lacks its state or code.
CallbackDenied(p, c) ==
  /\ pc[p] = "idle"
  /\ req' = [req EXCEPT ![p] = <<c, None, None>>]
  /\ Clear(p)
  /\ UNCHANGED <<boot, begin, pkce, login, spent, sessions, jar, uses, faults>>

\* The key is the connector's prefix and the state.
PkceFound(p) == <<at(p), state(p)>> \in pkce

PkceGet(p) ==
  /\ pc[p] = "get" /\ PkceFound(p)
  /\ Goto(p, "delete")
  /\ uses' = [uses EXCEPT ![state(p)] = @ + 1]
  /\ UNCHANGED <<boot, begin, dest, pkce, login, spent, req, sessions, answer, jar, faults>>

PkceMiss(p) ==
  /\ pc[p] = "get"
  /\ \/ ~PkceFound(p) /\ UNCHANGED faults
     \/ Fault
  /\ Clear(p)
  /\ UNCHANGED <<boot, begin, pkce, login, spent, req, sessions, jar, uses>>

\* Mutant: the state is left to its TTL.
BugPkceDelete(p) ==
  /\ pc[p] = "delete" /\ Goto(p, "exchange")
  /\ UNCHANGED <<boot, begin, dest, pkce, login, spent, req, sessions, answer, jar, uses, faults>>

\* An error of Delete is ignored.
PkceDelete(p) ==
  /\ pc[p] = "delete"
  /\ \/ pkce' = pkce \ {<<at(p), state(p)>>} /\ UNCHANGED faults
     \/ Fault /\ UNCHANGED pkce
  /\ Goto(p, "exchange")
  /\ UNCHANGED <<boot, begin, dest, login, spent, req, sessions, answer, jar, uses>>

\* ExchangeCode: the IdP accepts a code once, from the client and redirect URI
\* it was issued to.  It should, but need not, refuse the verifier of another
\* login than the code's.
Acceptable(p) == code(p) \notin spent /\ at(p) = conn[login[code(p)]]
Matches(p) == login[code(p)] = state(p)

Exchange(p) ==
  /\ pc[p] = "exchange" /\ Acceptable(p)
  /\ spent' = spent \cup {code(p)}
  /\ Goto(p, "validate")
  /\ UNCHANGED <<boot, begin, dest, pkce, login, req, sessions, answer, jar, uses, faults>>

\* Mutant: the callback goes on after a failed exchange.
BugExchangeFails(p) ==
  /\ pc[p] = "exchange"
  /\ \/ ~(Acceptable(p) /\ Matches(p)) /\ UNCHANGED <<spent, faults>>
     \/ Fault /\ spent' \in {spent, spent \cup {code(p)}}
  /\ Goto(p, "validate")
  /\ UNCHANGED <<boot, begin, dest, pkce, login, req, sessions, answer, jar, uses>>

\* The IdP refuses the code, or its answer is lost.
ExchangeFails(p) ==
  /\ pc[p] = "exchange"
  /\ \/ ~(Acceptable(p) /\ Matches(p)) /\ UNCHANGED <<spent, faults>>
     \/ Fault /\ spent' \in {spent, spent \cup {code(p)}}
  /\ Clear(p)
  /\ UNCHANGED <<boot, begin, pkce, login, req, sessions, jar, uses>>

\* The ID token of a code carries the nonce of the code's login: it validates
\* if that is the login of the state and its keys can be fetched.
Validate(p) ==
  /\ pc[p] = "validate"
  /\ \/ Matches(p) /\ Goto(p, "store") /\ UNCHANGED <<answer, dest, faults>>
     \/ ~Matches(p) /\ Clear(p) /\ UNCHANGED faults
     \/ Fault /\ Clear(p)
  /\ UNCHANGED <<boot, begin, pkce, login, spent, req, sessions, jar, uses>>

\* Mutant: a failing Set is logged and the callback goes on.
BugSessionSet(p) ==
  /\ pc[p] = "store"
  /\ \/ sessions' = sessions \cup {<<at(p), p>>} /\ UNCHANGED faults
     \/ Fault /\ UNCHANGED sessions
  /\ Goto(p, "encode")
  /\ UNCHANGED <<boot, begin, dest, pkce, login, spent, req, answer, jar, uses>>

SessionSet(p) ==
  /\ pc[p] = "store"
  /\ \/ /\ sessions' = sessions \cup {<<at(p), p>>}
        /\ Goto(p, "encode")
        /\ UNCHANGED <<answer, dest, faults>>
     \/ /\ Fault
        /\ sessions' \in {sessions, sessions \cup {<<at(p), p>>}}
        /\ Answer(p, "error", None)
  /\ UNCHANGED <<boot, begin, pkce, login, spent, req, jar, uses>>

\* Mutant: the stored target is taken as it is.
BugCookieEncode(p) ==
  /\ pc[p] = "encode"
  /\ \/ Answer(p, "cookie", to[state(p)]) /\ UNCHANGED faults
     \/ Fault /\ Answer(p, "error", None)
  /\ UNCHANGED <<boot, begin, pkce, login, spent, req, sessions, jar, uses>>

\* The webhook's errors are ignored; an encoding error leaves the session.  The
\* stored target is validated again, with the settings now in force.
CookieEncode(p) ==
  /\ pc[p] = "encode"
  /\ \/ Answer(p, "cookie", RedirectURL(setting, to[state(p)])) /\ UNCHANGED faults
     \/ Fault /\ Answer(p, "error", None)
  /\ UNCHANGED <<boot, begin, pkce, login, spent, req, sessions, jar, uses>>

\* The browser gets the answer.  clearCookie sends no Domain, so that it
\* removes only a cookie that was set without one.
Reply(p) ==
  /\ pc[p] = "reply"
  /\ Goto(p, "done")
  /\ jar' = CASE answer[p] = "cookie" -> [jar EXCEPT ![at(p)] = p]
              [] answer[p] = "clear" /\ at(p) \notin DomainCookie ->
                   [jar EXCEPT ![at(p)] = None]
              [] OTHER -> jar
  /\ UNCHANGED <<boot, begin, dest, pkce, login, spent, req, sessions, answer, uses, faults>>

-----------------------------------------------------------------------------
\* The PKCE state of a login expires.
PkceTTL(c, s) ==
  /\ <<c, s>> \in pkce
  /\ pkce' = pkce \ {<<c, s>>}
  /\ UNCHANGED <<boot, begin, dest, login, spent, pc, req, sessions, answer, jar, uses, faults>>

\* The process ends, and with it the callbacks that are under way; it is started
\* again with other settings.  Redis and the browser stay as they are.
Restart ==
  /\ boot < MaxRestarts
  /\ boot' = boot + 1
  /\ pc' = [p \in Proc |-> IF pc[p] = "idle" THEN "idle" ELSE "done"]
  /\ UNCHANGED <<begin, pkce, login, spent, req, sessions, answer, dest, jar, uses, faults>>

Step(p) ==
  \/ PkceGet(p) \/ PkceMiss(p) \/ PkceDelete(p)
  \/ Exchange(p) \/ ExchangeFails(p) \/ Validate(p)
  \/ SessionSet(p) \/ CookieEncode(p) \/ Reply(p)

Next ==
  \/ Restart
  \/ \E c \in Conn, s \in State : PkceTTL(c, s) \/ \E t \in Target : LoginStart(c, s, t)
  \/ \E s \in State, k \in Code : Authorize(s, k)
  \/ \E p \in Proc, c \in Conn :
       CallbackDenied(p, c) \/ \E s \in State, k \in Code : Callback(p, c, s, k)
  \/ \E p \in Proc : Step(p)

Spec == Init /\ [][Next]_vars

-----------------------------------------------------------------------------
\* service.go, LoginEnd: the PKCE state is read and deleted by two commands.  A
\* second callback finds the state of a login only while each one that found
\* it before has yet to delete it, or after a deletion that failed: no code is
\* exchanged for a state that others can still find.
FoundUntilDeleted ==
  [][\A s \in State : uses'[s] > uses[s] =>
       \/ faults > 0
       \/ \A p \in Proc :
            pc[p] \in {"exchange", "validate", "store", "encode"} \/ answer[p] = "cookie"
              => state(p) # s]_vars

\* However often its callback is repeated, whatever fails or is restarted, and
\* whichever state it is brought with, an authorization code is turned into at
\* most one session, and only by the login it was issued for, on the connector
\* that login was started on.
OneSessionPerCode ==
  \A x, y \in sessions :
    /\ x[1] = conn[state(x[2])] /\ login[code(x[2])] = state(x[2])
    /\ code(x[2]) = code(y[2]) => x = y

\* A cookie in the browser, or on its way to it, names a session that was
\* stored for the connector of the cookie: LoginEnd stores before it answers.
CookieNamesSession ==
  /\ \A c \in Conn : jar[c] # None => <<c, jar[c]>> \in sessions
  /\ \A p \in Proc : answer[p] = "cookie" => <<at(p), p>> \in sessions

\* A callback of another connector finds nothing: it neither consumes the PKCE
\* state of a login nor uses up its code.
OnlyOwnConnector ==
  \A p \in Proc :
    pc[p] \in {"delete", "exchange", "validate", "store", "encode"} =>
      at(p) = conn[state(p)]

\* service.go:306 and :461: redirect_to is validated when a login starts and
\* what is stored is validated again when it ends, maybe by a process with other
\* settings.  A callback sends the browser only to the app or to an origin that
\* is allowed now; after a login, to one that was allowed when it started or to
\* the app; and a target that both accept as the same URL is where the browser
\* ends up, unless it was given as a path and the base URL has a path, too: the
\* second validation then compares the joined path with the allowed ones.
RedirectsAllowed ==
  [][\A p \in Proc : dest'[p] # dest[p] /\ dest'[p] # None =>
       /\ dest'[p].origin \in Trusted(setting)
       /\ answer'[p] = "cookie" =>
            LET asked == begun[state(p)].asked
                then  == Setting[begun[state(p)].under]
                now   == ValidateRedirect(setting, asked)
            IN  /\ dest'[p].origin \in Trusted(then) \cup {setting.app.origin}
                /\ now # None /\ now = ValidateRedirect(then, asked)
                     /\ (asked.form = "path" => setting.app.path = <<>>)
                     => dest'[p] = now]_vars
=============================================================================
