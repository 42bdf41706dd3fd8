SPECIFICATION Spec
CONSTANTS
  Installer = {p1, p2}
  B = 2
  Version = {1, 2}
INVARIANTS LinkedVersionWhole
PROPERTY EntriesReplacedWhole
SYMMETRY Symmetry
