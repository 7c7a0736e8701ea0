--------------------------- MODULE MCPolicyReload ---------------------------
(* Small instances of PolicyReload: of the versions 1 to 4, 3 is never       *)
(* signed and 4 does not compile; two inputs.                                *)
EXTENDS PolicyReload, TLC

CONSTANTS e1, e2, i1, i2

MCVersion == 1 .. 4
MCCompiles == {1, 2, 3}
MCSigned == {1, 2, 4}
MCInput == {i1, i2}
MCEval == {e1, e2}
MCEval1 == {e1}
MCBoth == {"wasm", "rego"}
MCWasm == {"wasm"}
MCKeys == {"none", "pem", "broken"}
MCForms == {"base64", "garbled"}
MCNoKey == {"none"}

\* Version 1 allows i1 and fails on i2, 2 denies i1 and says nothing of i2,
\* the others allow.
MCSays ==
  [v \in MCVersion |->
     [i \in Input |-> CASE v = 2 /\ i = i1 -> "deny"
                          [] v = 2 /\ i = i2 -> "silent"
                          [] v = 1 /\ i = i2 -> "bad"
                          [] OTHER -> "allow"]]

Symmetry == Permutations(Eval)
=============================================================================
