------------------------------- MODULE Claims -------------------------------
(***************************************************************************)
(* What the ID token's claims become: the check of a token, the identity   *)
(* kept in the session at login and at refresh, and the principal that     *)
(* the proxy and the session endpoint derive from the session.             *)
(*                                                                         *)
(* An id is <<"name", s>> or <<"digits", n>>, the text of an integer; <<>> *)
(* is the empty string and an absent claim.  A JSON number is decoded to   *)
(* a float64, which holds integers of Mantissa bits (53 in Go) exactly.    *)
(***************************************************************************)
EXTENDS Integers, Sequences

CONSTANTS
  Mantissa,    \* bits of a float64's significand
  IdClaim,     \* ClaimMapping.AuthoritativeIDClaim: "sub" or another claim
  IdKind,      \* ClaimMapping.IDKind, "" when not configured
  Issuer, Audience

Empty == <<>>

\* The claims the code reads: sub, the one IdClaim names, the roles in
\* realm_access and at the top, and authoritative_id_kind.
IsClaims(c) == DOMAIN c = {"sub", "mapped", "realm", "top", "kind"}

\* A number as encoding/json decodes it: rounded to the nearest representable
\* integer, ties to an even significand.
Float(n) ==
  LET k == CHOOSE k \in 0..n : n < 2^(k + Mantissa) /\ (k = 0 \/ n >= 2^(k + Mantissa - 1))
      gap == 2^k
      low == n \div gap
      up == IF 2 * (n % gap) > gap \/ (2 * (n % gap) = gap /\ low % 2 = 1) THEN 1 ELSE 0
  IN (low + up) * gap
\* Mutant: a number goes through a type with a bit less.
BugclaimToString(v) ==
  IF v # Empty /\ v[1] = "number" THEN <<"digits", 2 * Float(v[2] \div 2)>> ELSE v
\* A value is <<"number", n>>, an id, or Empty; other kinds of value are not ids.
claimToString(v) ==
  IF v # Empty /\ v[1] = "number" THEN <<"digits", Float(v[2])>> ELSE v
authoritativeID(claims) ==
  IF IdClaim \in {"", "sub"} THEN Empty ELSE claimToString(claims.mapped)

\* LoginEnd: the claims a new session starts with.
LoginClaims(claims, roles) ==
  LET id == authoritativeID(claims)
  IN [claims EXCEPT !.sub = IF id # Empty THEN id ELSE @,
                    !.kind = IF IdKind # "" THEN IdKind ELSE @,
                    !.top = IF roles # {} THEN roles ELSE @]

\* A refreshed token's claims replace the session's, except that an id and a
\* kind established before stay when the token carries none.
\* Mutant: the established id is not kept.
BugapplyRefreshedClaims(old, new) ==
  LET id == authoritativeID(new)
  IN [new EXCEPT !.sub = IF id # Empty THEN id ELSE @,
                 !.kind = IF IdKind # "" THEN IdKind ELSE IF old.kind # "" THEN old.kind ELSE @]
\* Mutant: roles of before stay.
BugKeepRoles(old, new) ==
  LET id == authoritativeID(new)
      keep == IdClaim \notin {"", "sub"} /\ old.sub # Empty
  IN [new EXCEPT !.sub = IF id # Empty THEN id ELSE IF keep THEN old.sub ELSE @,
                 !.top = @ \cup old.top,
                 !.kind = IF IdKind # "" THEN IdKind ELSE IF old.kind # "" THEN old.kind ELSE @]
applyRefreshedClaims(old, new) ==
  LET id == authoritativeID(new)
      keep == IdClaim \notin {"", "sub"} /\ old.sub # Empty
  IN [new EXCEPT !.sub = IF id # Empty THEN id ELSE IF keep THEN old.sub ELSE @,
                 !.kind = IF IdKind # "" THEN IdKind ELSE IF old.kind # "" THEN old.kind ELSE @]

\* The roles of a token or a session: realm_access.roles, else roles.
tokenRoles(claims) == IF claims.realm # {} THEN claims.realm ELSE claims.top

\* The principal the proxy works with (resolveResponseToPrincipal), and the user
\* the session endpoint shows (sessionUserFromAuthContext).
extractRoles(claims) == tokenRoles(claims)
Principal(claims) == [sub |-> claims.sub, roles |-> extractRoles(claims)]
rolesFromClaims(claims) ==
  IF claims.realm \ {""} # {} THEN claims.realm \ {""} ELSE claims.top \ {""}
SessionUser(claims) ==
  [sub |-> claims.sub, roles |-> rolesFromClaims(claims),
   admin |-> rolesFromClaims(claims) \cap {"admin", "administrator"} # {}]

\* keyFuncFromJWKS: the first key with the token's kid that is of a known type
\* and complete; one that is too short or off its curve is an error.  A key
\* set is a function from positions, in their order, to keys.
keyFuncFromJWKS(keys, kid) ==
  \E i \in DOMAIN keys :
    /\ keys[i].kid = kid /\ keys[i].form = "good"
    /\ \A j \in DOMAIN keys : j < i => keys[j].kid # kid \/ keys[j].form = "other"

\* ValidateIDToken, given the key set.  Both times are checked without leeway;
\* the nonce only when one is expected.  An ID token may have an nbf, which the
\* JWT library checks as it does iat: it is taken to be no later than iat.
\* Mutant: the expiry is not looked at.
BugValidateIDToken(tok, keys, now, nonce) ==
  /\ keyFuncFromJWKS(keys, tok.kid)
  /\ tok.iss = Issuer /\ tok.iat <= now
  /\ Audience \in tok.aud
  /\ nonce # "" => tok.nonce = nonce
ValidateIDToken(tok, keys, now, nonce) ==
  /\ keyFuncFromJWKS(keys, tok.kid)
  /\ tok.iss = Issuer /\ now < tok.exp /\ tok.iat <= now
  /\ Audience \in tok.aud
  /\ nonce # "" => tok.nonce = nonce
=============================================================================
