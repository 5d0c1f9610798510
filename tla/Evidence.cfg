\* Every part of a library of nine documents, every request and analyzer,
\* with the limits scaled down so that both cut something off.
SPECIFICATION Spec
CONSTANTS
  Library <- MCLibrary
  Requests <- MCRequests
  Analyzers = {"mock", "openai"}
  ModelAnswers <- MCModelAnswers
  Compounds <- MCCompounds
  MarkerTerms = {"removed"}
  MaxDocuments = 3
  FallbackDocuments = 2
  NoValue = NoValue
INVARIANTS
  AcceptedClaimsAreGrounded
  FlaggedLinesAreInert
  ConflictsAreSurfaced
  RulesFailOnlyByText
\* A request that is verified or has raised is over.
CHECK_DEADLOCK FALSE
