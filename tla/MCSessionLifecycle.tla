------------------------ MODULE MCSessionLifecycle ------------------------
(* Small instances of SessionLifecycle. *)
EXTENDS SessionLifecycle, TLC

CONSTANTS p1, p2, p3, t0, t1

MCProc2 == {p1, p2}
MCProc3 == {p1, p2, p3}
MCTenant == {t0, t1}

MCResolveOps == {"resolve", "logout", "revoke"}
MCResolveLogout == {"resolve", "logout"}
MCAllOps == AllOps

MCAlways == {TRUE}
MCEither == {TRUE, FALSE}

Symmetry == Permutations(Proc)
=============================================================================
