\* Up to three operands, each "-" or a file, up to three reads of each, and a
\* line of three bytes: one cut leaves a start, two leave a start and an end.
SPECIFICATION Spec
CONSTANTS
  MaxOperands = 3
  MaxReads = 3
  Width = 3
INVARIANTS
  ZeroMeansDelivered
  TornIsTold
  FailuresReported
PROPERTIES
  FailureIsOwn
  StopsWhenBroken
