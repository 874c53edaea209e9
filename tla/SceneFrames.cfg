SPECIFICATION Spec
CONSTANTS
  c1 = c1
  s1 = s1
  s2 = s2
  b1 = b1
  b2 = b2
  b3 = b3
  o1 = o1
  o2 = o2
  None = None
  Clients = {c1}
  Surfaces = {s1, s2}
  Buffers = {b1, b2, b3}
  Outputs = {o1}
  Windows = {s1}
  Careful = {c1}
  ClientOf <- OneClient
  Spans <- OneScreenEach
SYMMETRY Alike
INVARIANTS BuffersKept NothingStranded
