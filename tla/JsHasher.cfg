\* Two hashers and one-shot calls sharing engines; growth may be refused; the
\* engine is replaced while hashers are live.
SPECIFICATION Spec
CONSTANTS
  a = a
  b = b
  Hashers = {a, b}
  MaxEngines = 2
  s1 = s1
  s2 = s2
  Seeds = {s1, s2}
  Lengths = {5}
  OneShots = {2, 5}
  MaxLen = 4
  Page = 4
  HeapBase = 1
  StateSize = 2
  OutSize = 2
  InitPages = 1
  MaxPages = 3
  MaxBytes = 10
SYMMETRY Symmetric
INVARIANTS
  StatesAreOwn
  ResultsRight
  FailsOnlyWhenRefused
