\* The documented meaning of Hasher.length, against a refused growth.
SPECIFICATION Spec
CONSTANTS
  a = a
  b = b
  Hashers = {a, b}
  MaxEngines = 1
  s1 = s1
  s2 = s2
  Seeds = {s1}
  Lengths = {5}
  OneShots = {2, 5}
  MaxLen = 4
  Page = 4
  HeapBase = 1
  StateSize = 2
  OutSize = 2
  InitPages = 1
  MaxPages = 3
  MaxBytes = 7
SYMMETRY Symmetric
INVARIANTS
  LengthIsAbsorbed
