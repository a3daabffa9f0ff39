SPECIFICATION Spec
CONSTANTS
  MaxRetries = 1
INVARIANTS
  NoDuplicateMutation
