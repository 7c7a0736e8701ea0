SPECIFICATION Spec
CONSTANTS
  e1 = e1
  e2 = e2
  i1 = i1
  i2 = i2
  Version <- MCVersion
  Compiles <- MCCompiles
  Signed <- MCSigned
  First = 1
  Input <- MCInput
  Says <- MCSays
  Eval <- MCEval
  None = None
  Kinds <- MCWasm
  Keys <- MCNoKey
  Forms <- MCForms
  MaxWrites = 0
  MaxFaults = 0
CHECK_DEADLOCK FALSE
SYMMETRY Symmetry
INVARIANT EvaluatesOwnInput
