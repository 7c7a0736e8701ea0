------------------------------ MODULE MCLogin ------------------------------
(* Small instances of Login. *)
EXTENDS Login, TLC

CONSTANTS c1, c2, s1, s2, k1, k2, p1, p2

MCTwoConn  == {c1, c2}
MCTwoState == {s1, s2}
MCTwoCode  == {k1, k2}
MCTwoProc  == {p1, p2}

\* Before the restart the app is at "app", a partner is allowed, and only paths
\* below /app; after it the app has moved and still allows its old origin.
MCSetting == [n \in 0..1 |->
  IF n = 0
  THEN [app |-> [origin |-> "app", path |-> <<>>],
        origins |-> {"partner", "other"}, paths |-> {<<"/app">>}]
  ELSE [app |-> [origin |-> "new", path |-> <<"/home">>],
        origins |-> {"app", "partner"}, paths |-> {<<"/app">>, <<"/home">>}]]

MCTarget == {
  [form |-> "path", origin |-> "", path |-> <<"/app", "/x">>],
  [form |-> "url", origin |-> "partner", path |-> <<"/app">>],
  [form |-> "url", origin |-> "other", path |-> <<"/app">>]}

Symmetry == Permutations(Proc) \cup Permutations(State) \cup Permutations(Code)
=============================================================================
