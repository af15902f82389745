SPECIFICATION Spec
CONSTANTS
  Alphabet = {44, 48, 52, 55, 65, 122}
  MaxLen = 5
INVARIANTS
  SentVerifies
  OneErrorNoticed
  SplitAssertsExactly
  VerifiedHasKey
CHECK_DEADLOCK FALSE
