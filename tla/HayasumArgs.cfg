\* Every command line of up to three arguments out of 35 that differ in how
\* they are read, every short text as a seed and as a name; seeds below 256,
\* tokens of 5 characters.
SPECIFICATION ArgsSpec
CONSTANTS
  Cap = 256
  TokMax = 5
  Chars <- MCChars
  CommandLines <- MCCommandLines
INVARIANTS
  ParsesTheGrammar
  DiagnosticIsPrintable
  OneLinePerName
  NameCanBeReadBack
