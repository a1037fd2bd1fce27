SPECIFICATION Spec
CONSTANTS
  Plugins = {p1, p2}
  Code = {p1, p2}
  Bundled = {p2}
  Operators = {o1}
  Insts = {i1, i2, i3, late1}
  Lingering = {late1}
  NoInst = NoInst
  LastVersion = 2
SYMMETRY Alike
VIEW Relevant
INVARIANTS
  NoTrace
  RowsTellTheTruth
PROPERTIES
  SwapsFindNothingRegistered
