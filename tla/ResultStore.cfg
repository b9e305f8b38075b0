CONSTANTS
  Keys = {a, b, c, d, e, f}
  Sizes = {1, 3, 4}
  Cap = 12
  MaxTick = 8
SPECIFICATION Spec
SYMMETRY Symmetry
INVARIANT MapsAgree
PROPERTY ImplementsRecency
