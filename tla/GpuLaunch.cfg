SPECIFICATION Spec
CONSTANTS
  Jobs = {j1, j2}
  Nonces = {0, 1}
  Device = "gfx11"
  Shapes <- MCShapes
  Mixed = FALSE
  MaxFaults = 1
  Garbage = Garbage
INVARIANTS
  TypeOK
  HitsTrue
  InBounds
SYMMETRY JobSymmetry
