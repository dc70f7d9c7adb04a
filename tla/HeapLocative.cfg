CONSTANTS
  o1 = o1
  o2 = o2
  o3 = o3
  o4 = o4
  r1 = r1
  r2 = r2
  w1 = w1
  f1 = f1
  n1 = n1
  n2 = n2
  nil = nil
  Nil = nil
  Obj = {o1, o2, o3, o4}
  Name = {}
  Reg = {r1, r2}
  Global = {}
  FinRoot = {w1}
  FinNode = {}
  MaxPending = 1
  NurserySize = 2
  HalfSizes = {2}
  MinFree = 0
SPECIFICATION Spec
INVARIANT DeadZeroedOut
SYMMETRY Symmetry
