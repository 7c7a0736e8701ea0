SPECIFICATION FairSpec
CONSTANTS
  e1 = e1
  e2 = e2
  i1 = i1
  i2 = i2
  Version <- MCVersion
  Compiles <- MCCompiles
  Signed <- MCSigned
  First = 1
  Input <- MCInput
  Says <- MCSays
  Eval <- MCEval1
  None = None
  Kinds <- MCBoth
  Keys <- MCKeys
  Forms <- MCForms
  MaxWrites = 2
  MaxFaults = 1
CHECK_DEADLOCK FALSE
INVARIANTS TypeOK AllowIsSaid
PROPERTY NewestServed
