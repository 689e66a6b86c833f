SPECIFICATION Spec
CONSTANTS
  Alphabet = {0, 1, 2, 128, 129, 130, 131}
  MaxBytes = 6
  Keys = {1, 2, 7, 19, 30}
  Nonces = {1, 2, 3, 4, 5, 8, 9, 10, 15, 16, 20, 29, 30}
  Hashes = {0, 1, 15, 30}
  Chains = {0, 1, 2, 5, 13, 14, 31}
  N = 31
  Modulus = 64
  Point <- ToyPoint
INVARIANTS
  ReadTlvFindsFirst
  MessagesReadBack
  KeysReadBack
  AccountsNamed
  SignaturesRecover
  ChainsReadBack
CHECK_DEADLOCK FALSE
