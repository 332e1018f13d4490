CONSTANTS
  None = None
  word = word
  env = env
  Nul = nul
  Panic = panic
  Environment <- MCEnvironment
  Sizes <- MCSizes
  Patterns <- MCPatterns
  Names <- MCNames
  Policies <- MCPolicies
  Definitions <- MCDefinitions
  Arguments <- MCArguments
SPECIFICATION Spec
INVARIANTS ConjunctionEnforced
CHECK_DEADLOCK FALSE
