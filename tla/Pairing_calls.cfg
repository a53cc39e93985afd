CONSTANTS
  MaxCodes = 2
  MaxCalls = 2
SPECIFICATION Spec
INVARIANTS
  PairedHasKey
  KeysAgree
PROPERTY OldCodesAreRefused
