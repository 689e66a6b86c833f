SPECIFICATION Spec
CONSTANTS
  Alphabet = {0}
  MaxBytes = 0
  Keys = {1}
  Nonces = {1}
  Hashes = {0}
  Chains = {0}
  N = 31
  Modulus = 64
  Point <- ToyPoint
INVARIANTS
  DetectsCurveOfKey
CHECK_DEADLOCK FALSE
