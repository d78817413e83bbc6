CONSTANTS
  Arity = 8
  Inputs <- MCInputs
  POr <- MCPOr
  Foreign <- MCForeign
SPECIFICATION Spec
INVARIANT TypeOK
INVARIANT ExecutesExactlyTheInput
INVARIANT TreeLinked
