SPECIFICATION Spec
CONSTANTS
  Assets = {eth}
  NATIVE = eth
  VAULT = vault
  Addresses = {vault, alice}
  NoAddress = none
  Verifiers = {v1}
  LimitValues = {0, 2}
  BPS = 4
  MAX_WITHDRAW_FEE_BPS = 2
  Secrets = {s1, s2, s3}
  MaxAmount = 2
  MAX_LEAVES = 3
  MaxBalance = 2
SYMMETRY SecretSymmetry
INVARIANTS TypeOK BackingIsExact Solvent NoteRedeemable
CHECK_DEADLOCK FALSE
