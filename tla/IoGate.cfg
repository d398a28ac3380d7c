SPECIFICATION GSpec
CONSTANTS
  p1 = p1
  p2 = p2
  p3 = p3
  None = None
  Passes <- ThreePasses
  Limits <- OneOrThree
INVARIANTS
  GTypeOK
  PermitsAddUp
  NobodyWaitsIdly
SYMMETRY Symmetry
