SPECIFICATION Spec
CONSTANTS
  Instances = {i1, i2}
  Calls = {c1, c2}
  OldKey = OldKey
  NewKey = NewKey
  NoKey = NoKey
  None = None
  AppName <- MCAppName
  Code <- MCCode
INVARIANT TypeOK
INVARIANT RotationIsSeamless
INVARIANT RepliesVerify
INVARIANT OnlyAuthentic
INVARIANT SyncIsAuthorised
INVARIANT ServesTheLatest
PROPERTY EveryCallIsAnswered
CHECK_DEADLOCK FALSE
