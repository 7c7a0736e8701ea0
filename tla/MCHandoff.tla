----------------------------- MODULE MCHandoff -----------------------------
(* Small instances of Handoff. *)
EXTENDS Handoff, TLC

CONSTANTS t1, c1, c2, p1, p2

MCTicket == {t1}
MCConn == {c1, c2}
MCProc == {p1, p2}

Symmetry == Permutations(Proc) \cup Permutations(Conn)
=============================================================================
